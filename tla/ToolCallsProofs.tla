---------------------------- MODULE ToolCallsProofs ----------------------------
(***************************************************************************)
(* Proofs about ToolCalls for any sets of calls, ids and tools.            *)
(***************************************************************************)
EXTENDS ToolCalls, TLAPS

LEMMA TypeInit == Init => TypeOK
<1>1. NewCall \in CallRecords
  BY DEF NewCall, CallRecords
<1>2. QED
  BY <1>1 DEF Init, TypeOK

\* The call goes on to its next await; an abort before or during the exchange
\* with the sub-MCP keeps it from the stages that may not follow.
LEMMA ProceedsStep ==
  ASSUME IInv, NEW c \in Calls, NEW stage \in Running, Proceeds(c, stage),
         call[c].at \in Running,
         call[c].aborted = "before" => stage \notin Forwarded,
         call[c].aborted = "during" => stage # "body"
  PROVE  IInv'
<1>1. /\ UNCHANGED <<entry, shared>>
      /\ \A d \in Calls \ {c} : call'[d] = call[d]
      /\ call'[c] = [call[c] EXCEPT !.at = stage]
      /\ call[c] \in CallRecords
  BY DEF Proceeds, Goes, IInv, TypeOK
<1>2. /\ call'[c].at = stage /\ call'[c].id = call[c].id /\ call'[c].tool = call[c].tool
      /\ call'[c].aborted = call[c].aborted /\ call'[c].answer = call[c].answer
      /\ call'[c] \in CallRecords
  BY <1>1 DEF CallRecords, Unfinished
<1>3. TypeOK'
  BY <1>1, <1>2 DEF Proceeds, Goes, IInv, TypeOK
<1>4. /\ stage \in Unfinished /\ call[c].at \in Unfinished /\ stage # "idle"
  BY DEF Unfinished, Running, Forwarded, Timed
<1>5. \A d \in Calls : CallOK(d)'
  BY <1>1, <1>2, <1>4 DEF CallOK, At, IInv
<1>6. SharersKnown'
  BY <1>1, <1>2, <1>4 DEF SharersKnown, IInv
<1>7. \A d \in Calls : /\ call'[d].id = call[d].id /\ call'[d].answer = call[d].answer
                       /\ call'[d].aborted = call[d].aborted
                       /\ call'[d].at \in Running <=> call[d].at \in Running
                       /\ call'[d].at \in Unfinished <=> call[d].at \in Unfinished
  BY <1>1, <1>2, <1>4
<1>8. CancelExact'
  BY <1>1, <1>7 DEF CancelExact, Aborted, IInv, TypeOK
<1>9. AbortIsFinal'
  BY <1>1, <1>2 DEF AbortIsFinal, IInv
<1>10. QED
  BY <1>3, <1>5, <1>6, <1>8, <1>9 DEF IInv

\* A call that ends is forgotten by the id it bore.
LEMMA EndsStep ==
  ASSUME IInv, NEW c \in Calls, NEW answer \in {"answered", "failed"}, Ends(c, answer),
         call[c].at \in Unfinished
  PROVE  IInv'
<1>1. /\ shared' = shared \ {c}
      /\ \A d \in Calls \ {c} : call'[d] = call[d]
      /\ call'[c] = [NewCall EXCEPT !.at = "done", !.answer = answer]
      /\ entry' = [entry EXCEPT ![call[c].id] = None]
      /\ call[c].id \in Ids /\ call[c].answer = "none"
  BY DEF Ends, Answered, Finish, IInv, TypeOK, CallOK
<1>2. /\ call'[c].at = "done" /\ call'[c].aborted = "no" /\ call'[c].answer = answer
      /\ call'[c] \in CallRecords
  BY <1>1 DEF NewCall, CallRecords
<1>3. "done" \notin Unfinished
  BY DEF Unfinished, Running, Forwarded, Timed
<1>4. TypeOK'
  BY <1>1, <1>2 DEF Ends, Answered, IInv, TypeOK
<1>5. \A d \in Calls : CallOK(d)'
  BY <1>1, <1>2, <1>3 DEF CallOK, At, IInv
<1>6. SharersKnown'
  BY <1>1, <1>2, <1>3 DEF SharersKnown, IInv
<1>7. /\ entry'[call[c].id] = None
      /\ \A i \in Ids \ {call[c].id} : entry'[i] = entry[i]
  BY <1>1 DEF IInv, TypeOK
<1>8. CancelExact'
  <2>1. ASSUME NEW d \in Calls, call'[d].at \in Unfinished, d \notin shared'
        PROVE  entry'[call'[d].id] = d <=> call'[d].at \in Running /\ ~Aborted(d)'
    <3>1. d # c /\ call'[d] = call[d] /\ d \notin shared
      BY <1>1, <1>2, <1>3, <2>1
    <3>2. call[d].id \in Ids \ {call[c].id}
      BY <2>1, <3>1 DEF IInv, CallOK, SharersKnown
    <3>3. QED
      BY <1>7, <2>1, <3>1, <3>2 DEF IInv, CancelExact, Aborted
  <2>2. ASSUME NEW i \in Ids, entry'[i] # None
        PROVE  \/ call'[entry'[i]].at \in Running /\ call'[entry'[i]].id = i
               \/ call'[entry'[i]].answer = "thrown"
    <3>1. i # call[c].id /\ entry'[i] = entry[i] /\ entry[i] \in Calls
      BY <1>7, <2>2 DEF IInv, TypeOK
    <3>2. \/ call[entry[i]].at \in Running /\ call[entry[i]].id = i
          \/ call[entry[i]].answer = "thrown"
      BY <2>2, <3>1 DEF IInv, CancelExact
    <3>3. entry[i] # c
      BY <1>1, <3>1, <3>2
    <3>4. QED
      BY <1>1, <3>1, <3>2, <3>3
  <2>3. QED
    BY <2>1, <2>2 DEF CancelExact
<1>9. AbortIsFinal'
  BY <1>1, <1>2 DEF AbortIsFinal, IInv
<1>10. QED
  BY <1>4, <1>5, <1>6, <1>8, <1>9 DEF IInv

\* A call that throws leaves the id leading to it.
LEMMA ThrowsStep ==
  ASSUME IInv, NEW c \in Calls, Throws(c), call[c].at \in Unfinished
  PROVE  IInv'
<1>1. /\ shared' = shared \ {c} /\ UNCHANGED entry
      /\ \A d \in Calls \ {c} : call'[d] = call[d]
      /\ call'[c] = [NewCall EXCEPT !.at = "done", !.answer = "thrown"]
  BY DEF Throws, Answered, IInv, TypeOK
<1>2. /\ call'[c].at = "done" /\ call'[c].aborted = "no" /\ call'[c].answer = "thrown"
      /\ call'[c] \in CallRecords
  BY <1>1 DEF NewCall, CallRecords
<1>3. "done" \notin Unfinished
  BY DEF Unfinished, Running, Forwarded, Timed
<1>4. TypeOK'
  BY <1>1, <1>2 DEF Throws, Answered, IInv, TypeOK
<1>5. \A d \in Calls : CallOK(d)'
  BY <1>1, <1>2, <1>3 DEF CallOK, At, IInv
<1>6. SharersKnown'
  BY <1>1, <1>2, <1>3 DEF SharersKnown, IInv
<1>7. CancelExact'
  <2>1. ASSUME NEW d \in Calls, call'[d].at \in Unfinished, d \notin shared'
        PROVE  entry'[call'[d].id] = d <=> call'[d].at \in Running /\ ~Aborted(d)'
    <3>1. d # c /\ call'[d] = call[d] /\ d \notin shared
      BY <1>1, <1>2, <1>3, <2>1
    <3>2. QED
      BY <1>1, <2>1, <3>1 DEF IInv, CancelExact, Aborted
  <2>2. ASSUME NEW i \in Ids, entry'[i] # None
        PROVE  \/ call'[entry'[i]].at \in Running /\ call'[entry'[i]].id = i
               \/ call'[entry'[i]].answer = "thrown"
    <3>1. entry'[i] = entry[i] /\ entry[i] \in Calls
      BY <1>1, <2>2 DEF IInv, TypeOK
    <3>2. QED
      BY <1>1, <1>2, <2>2, <3>1 DEF IInv, CancelExact
  <2>3. QED
    BY <2>1, <2>2 DEF CancelExact
<1>8. AbortIsFinal'
  BY <1>1, <1>2 DEF AbortIsFinal, IInv
<1>9. QED
  BY <1>4, <1>5, <1>6, <1>7, <1>8 DEF IInv

\* The gate hands the call to the approval queue and finishes the id at once.
LEMMA EnqueueStep ==
  ASSUME IInv, NEW c \in Calls, call[c].at \in Running,
         Goes(c, "enqueue"), Finish(c), UNCHANGED shared
  PROVE  IInv'
<1>1. /\ \A d \in Calls \ {c} : call'[d] = call[d]
      /\ call'[c] = [call[c] EXCEPT !.at = "enqueue"] /\ call[c] \in CallRecords
      /\ call[c].at \in Unfinished
  BY DEF Goes, IInv, TypeOK, Unfinished
<1>a. "enqueue" \in Unfinished /\ "enqueue" \notin Running /\ "enqueue" \notin Forwarded
  BY DEF Unfinished, Running, Forwarded, Timed
<1>2. /\ call'[c].at = "enqueue" /\ call'[c].id = call[c].id /\ call'[c].tool = call[c].tool
      /\ call'[c].aborted = call[c].aborted /\ call'[c].answer = call[c].answer
      /\ call'[c] \in CallRecords
  BY <1>1, <1>a DEF CallRecords
<1>3. call[c].id \in Ids /\ call[c].answer = "none"
  BY <1>1 DEF IInv, CallOK
<1>4. /\ entry'[call[c].id] = None
      /\ \A i \in Ids \ {call[c].id} : entry'[i] = entry[i]
  BY <1>3 DEF Finish, IInv, TypeOK
<1>5. TypeOK'
  BY <1>1, <1>2, <1>3 DEF Goes, Finish, IInv, TypeOK
<1>6. \A d \in Calls : CallOK(d)'
  BY <1>1, <1>2, <1>a DEF CallOK, At, IInv
<1>b. \A d \in Calls : /\ call'[d].id = call[d].id
                       /\ call'[d].at \in Unfinished <=> call[d].at \in Unfinished
  BY <1>1, <1>2, <1>a
<1>7. SharersKnown'
  BY <1>b DEF SharersKnown, IInv
<1>8. CancelExact'
  <2>1. ASSUME NEW d \in Calls, call'[d].at \in Unfinished, d \notin shared'
        PROVE  entry'[call'[d].id] = d <=> call'[d].at \in Running /\ ~Aborted(d)'
    <3>1. CASE d = c
      BY <1>1, <1>2, <1>4, <1>a, <3>1, CallAssumption
    <3>2. CASE d # c
      <4>1. call'[d] = call[d] /\ call[d].id \in Ids \ {call[c].id}
        BY <1>1, <2>1, <3>2 DEF IInv, CallOK, SharersKnown
      <4>2. QED
        BY <1>4, <2>1, <4>1 DEF IInv, CancelExact, Aborted
    <3>3. QED
      BY <3>1, <3>2
  <2>2. ASSUME NEW i \in Ids, entry'[i] # None
        PROVE  \/ call'[entry'[i]].at \in Running /\ call'[entry'[i]].id = i
               \/ call'[entry'[i]].answer = "thrown"
    <3>1. i # call[c].id /\ entry'[i] = entry[i] /\ entry[i] \in Calls
      BY <1>4, <2>2 DEF IInv, TypeOK
    <3>2. \/ call[entry[i]].at \in Running /\ call[entry[i]].id = i
          \/ call[entry[i]].answer = "thrown"
      BY <2>2, <3>1 DEF IInv, CancelExact
    <3>3. entry[i] # c
      BY <1>3, <3>1, <3>2
    <3>4. QED
      BY <1>1, <3>1, <3>2, <3>3
  <2>3. QED
    BY <2>1, <2>2 DEF CancelExact
<1>9. AbortIsFinal'
  BY <1>1, <1>2, <1>a DEF AbortIsFinal, IInv
<1>10. QED
  BY <1>5, <1>6, <1>7, <1>8, <1>9 DEF IInv

\* A new call takes its id over; whoever bore it is known to share it.
LEMMA ArriveStep ==
  ASSUME IInv, NEW c \in Calls, NEW i \in Ids, NEW tool \in Tools, NEW resumes \in BOOLEAN,
         Arrive(c, i, tool, resumes)
  PROVE  IInv'
<1>1. /\ \A d \in Calls \ {c} : call'[d] = call[d]
      /\ call'[c] = [at |-> IF resumes THEN "lookup" ELSE "defaults",
                     id |-> i, tool |-> tool, aborted |-> "no", answer |-> "none"]
      /\ entry'[i] = c /\ \A j \in Ids \ {i} : entry'[j] = entry[j]
      /\ call[c].at = "idle" /\ call[c] = NewCall
      /\ entry' \in [Ids -> Calls \cup {None}]
  BY DEF Arrive, Start, At, IInv, TypeOK, CallOK
<1>2. /\ call'[c].at \in {"lookup", "defaults"} /\ call'[c].id = i /\ call'[c].tool = tool
      /\ call'[c].aborted = "no" /\ call'[c].answer = "none"
  BY <1>1
<1>3. /\ call'[c].at \in Running /\ call'[c].at \in Unfinished /\ call'[c].at # "idle"
      /\ "idle" \notin Unfinished
  BY <1>2 DEF Unfinished, Running, Forwarded, Timed
<1>4. call'[c] \in CallRecords
  BY <1>1, <1>2, <1>3 DEF CallRecords
<1>5. shared' = IF Holders(i) = {} THEN shared ELSE shared \cup Holders(i) \cup {c}
  BY DEF Arrive
<1>6. TypeOK'
  <2>1. call' \in [Calls -> CallRecords]
    BY <1>1, <1>4 DEF Arrive, IInv, TypeOK
  <2>2. shared' \subseteq Calls
    BY <1>5 DEF Holders, IInv, TypeOK
  <2>3. QED
    BY <2>1, <2>2, <1>1 DEF TypeOK
<1>7. \A d \in Calls : CallOK(d)'
  BY <1>1, <1>2, <1>3 DEF CallOK, At, IInv
<1>8. \A d \in Calls : call[d].at \in Unfinished /\ call[d].id = i => d \in shared' /\ c \in shared'
  BY <1>5 DEF Holders
<1>9. shared \subseteq shared'
  BY <1>5
<1>10. SharersKnown'
  BY <1>1, <1>2, <1>3, <1>8, <1>9 DEF SharersKnown, IInv
<1>11. CancelExact'
  <2>1. ASSUME NEW d \in Calls, call'[d].at \in Unfinished, d \notin shared'
        PROVE  entry'[call'[d].id] = d <=> call'[d].at \in Running /\ ~Aborted(d)'
    <3>1. CASE d = c
      BY <1>1, <1>2, <1>3, <3>1 DEF Aborted
    <3>2. CASE d # c
      <4>1. call'[d] = call[d] /\ call[d].id \in Ids \ {i} /\ d \notin shared
        BY <1>1, <1>8, <1>9, <2>1, <3>2 DEF IInv, CallOK
      <4>2. QED
        BY <1>1, <2>1, <4>1 DEF IInv, CancelExact, Aborted
    <3>3. QED
      BY <3>1, <3>2
  <2>2. ASSUME NEW j \in Ids, entry'[j] # None
        PROVE  \/ call'[entry'[j]].at \in Running /\ call'[entry'[j]].id = j
               \/ call'[entry'[j]].answer = "thrown"
    <3>1. CASE j = i
      BY <1>1, <1>2, <1>3, <3>1
    <3>2. CASE j # i
      <4>1. entry'[j] = entry[j] /\ entry[j] \in Calls
        BY <1>1, <2>2, <3>2 DEF IInv, TypeOK
      <4>2. \/ call[entry[j]].at \in Running /\ call[entry[j]].id = j
            \/ call[entry[j]].answer = "thrown"
        BY <2>2, <4>1 DEF IInv, CancelExact
      <4>3. entry[j] # c
        BY <1>1, <1>3, <4>2 DEF NewCall, Unfinished
      <4>4. QED
        BY <1>1, <4>1, <4>2, <4>3
    <3>3. QED
      BY <3>1, <3>2
  <2>3. QED
    BY <2>1, <2>2 DEF CancelExact
<1>12. AbortIsFinal'
  BY <1>1, <1>2 DEF AbortIsFinal, IInv
<1>13. QED
  BY <1>6, <1>7, <1>10, <1>11, <1>12 DEF IInv

\* A cancellation aborts what its id leads to and deletes the entry.
LEMMA CancelStep ==
  ASSUME IInv, NEW i \in Ids, Cancel(i)
  PROVE  IInv'
<1> DEFINE c == entry[i]
<1>1. /\ c \in Calls /\ entry[i] # None /\ shared' = shared
      /\ entry'[i] = None /\ \A j \in Ids \ {i} : entry'[j] = entry[j]
      /\ entry' \in [Ids -> Calls \cup {None}]
  BY DEF Cancel, IInv, TypeOK
<1> HIDE DEF c
<1>2. /\ \A d \in Calls \ {c} : call'[d] = call[d]
      /\ call' \in [Calls -> CallRecords]
      /\ call'[c] = IF call[c].at \in Unfinished
                    THEN [call[c] EXCEPT !.aborted = Phase(call[c].at)] ELSE call[c]
  <2>1. Abort(c)
    BY DEF Cancel, c
  <2>2. \A stage : Phase(stage) \in {"before", "during", "after"}
    BY DEF Phase
  <2>3. \A phase \in {"before", "during", "after"} :
          [call[c] EXCEPT !.aborted = phase] \in CallRecords
    BY <1>1 DEF IInv, TypeOK, CallRecords
  <2>4. [call[c] EXCEPT !.aborted = Phase(call[c].at)] \in CallRecords
    BY <2>2, <2>3
  <2>5. QED
    BY <1>1, <2>1, <2>4 DEF Abort, IInv, TypeOK
<1>3. \A d \in Calls : /\ call'[d].at = call[d].at /\ call'[d].id = call[d].id
                       /\ call'[d].tool = call[d].tool /\ call'[d].answer = call[d].answer
  BY <1>1, <1>2 DEF IInv, TypeOK, CallRecords
<1>4. \/ call[c].at \in Running /\ call[c].id = i
      \/ call[c].answer = "thrown"
  BY <1>1 DEF IInv, CancelExact, c
<1>5. TypeOK'
  BY <1>1, <1>2 DEF IInv, TypeOK
<1>6. \A d \in Calls : CallOK(d)'
  <2>1. ASSUME NEW d \in Calls, call[d].at = "idle" PROVE call'[d] = call[d]
    <3>1. "idle" \notin Unfinished
      BY DEF Unfinished, Running, Forwarded, Timed
    <3>2. QED
      BY <1>2, <2>1, <3>1
  <2>2. QED
    BY <1>3, <2>1 DEF CallOK, At, IInv
<1>7. SharersKnown'
  BY <1>1, <1>3 DEF SharersKnown, IInv
<1>8. CancelExact'
  <2>1. ASSUME NEW d \in Calls, call'[d].at \in Unfinished, d \notin shared'
        PROVE  entry'[call'[d].id] = d <=> call'[d].at \in Running /\ ~Aborted(d)'
    <3>1. CASE d = c
      <4>1. call[c].at \in Running /\ call[c].id = i
        BY <1>1, <1>3, <1>4, <2>1, <3>1 DEF IInv, CallOK
      <4>2. call'[c].aborted = Phase(call[c].at)
        BY <1>1, <1>2, <4>1 DEF IInv, TypeOK, CallRecords, Unfinished
      <4>3. call'[c].aborted # "no"
        BY <4>2 DEF Phase
      <4>4. entry'[call'[c].id] # c
        BY <1>1, <1>3, <4>1, CallAssumption
      <4>5. QED
        BY <3>1, <4>3, <4>4 DEF Aborted
    <3>2. CASE d # c
      <4>1. call'[d] = call[d] /\ call[d].id \in Ids
        BY <1>2, <2>1, <3>2 DEF IInv, CallOK
      <4>2. entry[call[d].id] = d <=> call[d].at \in Running /\ ~Aborted(d)
        BY <1>1, <2>1, <4>1 DEF IInv, CancelExact
      <4>3. entry'[call[d].id] = d <=> entry[call[d].id] = d
        BY <1>1, <3>2, <4>1, CallAssumption DEF c
      <4>4. QED
        BY <4>1, <4>2, <4>3 DEF Aborted
    <3>3. QED
      BY <3>1, <3>2
  <2>2. ASSUME NEW j \in Ids, entry'[j] # None
        PROVE  \/ call'[entry'[j]].at \in Running /\ call'[entry'[j]].id = j
               \/ call'[entry'[j]].answer = "thrown"
    <3>1. entry'[j] = entry[j] /\ entry[j] \in Calls
      BY <1>1, <2>2 DEF IInv, TypeOK
    <3>2. QED
      BY <1>3, <2>2, <3>1 DEF IInv, CancelExact
  <2>3. QED
    BY <2>1, <2>2 DEF CancelExact
<1>9. AbortIsFinal'
  <2>1. ASSUME NEW stage PROVE /\ Phase(stage) = "before" => stage \notin Forwarded
                               /\ Phase(stage) = "during" => stage # "body"
    BY DEF Phase, Forwarded, Timed
  <2>2. ASSUME NEW d \in Calls
        PROVE  /\ call'[d].aborted = "before" => call'[d].at \notin Forwarded
               /\ call'[d].aborted = "during" => call'[d].at # "body"
    <3>1. CASE call'[d] = call[d]
      BY <3>1 DEF IInv, AbortIsFinal
    <3>2. CASE call'[d] # call[d]
      <4>1. d = c /\ call[c].at \in Unfinished /\ call'[c].aborted = Phase(call[c].at)
        BY <1>1, <1>2, <3>2 DEF IInv, TypeOK, CallRecords
      <4>2. QED
        BY <1>3, <2>1, <4>1
    <3>3. QED
      BY <3>1, <3>2
  <2>3. QED
    BY <2>2 DEF AbortIsFinal
<1>10. QED
  BY <1>5, <1>6, <1>7, <1>8, <1>9 DEF IInv

\* After a restart nothing runs and no id leads anywhere.
LEMMA RestartStep ==
  ASSUME IInv, Restart
  PROVE  IInv'
<1>1. /\ entry' \in [Ids -> Calls \cup {None}] /\ \A i \in Ids : entry'[i] = None
      /\ shared' = {}
      /\ \A c \in Calls : \/ call[c].at \notin Unfinished /\ call'[c] = call[c]
                          \/ call'[c] = [NewCall EXCEPT !.at = "done", !.answer = "failed"]
  BY DEF Restart, IInv, TypeOK
<1>2. [NewCall EXCEPT !.at = "done", !.answer = "failed"] \in CallRecords
  BY DEF NewCall, CallRecords
<1>3. \A c \in Calls : /\ call'[c].at \notin Unfinished
                       /\ call'[c].at = "idle" => call'[c] = call[c]
                       /\ call'[c] # call[c] => call'[c].aborted = "no"
  BY <1>1 DEF NewCall, Unfinished, Running, Forwarded, Timed
<1>4. TypeOK'
  BY <1>1, <1>2 DEF Restart, IInv, TypeOK
<1>5. \A d \in Calls : CallOK(d)'
  BY <1>3 DEF IInv, CallOK, At
<1>6. SharersKnown'
  BY <1>3 DEF SharersKnown
<1>7. CancelExact'
  BY <1>1, <1>3 DEF CancelExact
<1>8. AbortIsFinal'
  BY <1>3 DEF IInv, AbortIsFinal
<1>9. QED
  BY <1>4, <1>5, <1>6, <1>7, <1>8 DEF IInv

LEMMA InitIInv == Init => IInv
<1> SUFFICES ASSUME Init PROVE IInv
  OBVIOUS
<1>1. TypeOK
  BY TypeInit
<1>2. \A c \in Calls : call[c] = NewCall /\ call[c].at = "idle" /\ call[c].aborted = "no"
  BY DEF Init, NewCall
<1>3. "idle" \notin Unfinished
  BY DEF Unfinished, Running, Forwarded, Timed
<1>4. QED
  BY <1>1, <1>2, <1>3 DEF IInv, CallOK, At, SharersKnown, CancelExact, AbortIsFinal, Init

\* What a call does by itself.
LEMMA ServesStep ==
  ASSUME IInv, NEW c \in Calls, Serves(c)
  PROVE  IInv'
<1>1. /\ {"lookup", "defaults", "gate", "native", "subscribe", "enrich", "fetch"} \subseteq Running
      /\ Timed \subseteq Running /\ Running \subseteq Unfinished /\ "enqueue" \in Unfinished
      /\ {"gate", "native", "subscribe", "enrich"} \cap Forwarded = {}
      /\ "fetch" # "body"
  BY DEF Running, Unfinished, Forwarded, Timed
<1>2. call[c].aborted \in {"no", "before", "during", "after"}
  BY DEF IInv, TypeOK, CallRecords
<1>3. ASSUME Execute(c), call[c].at \in Running PROVE IInv'
  <2>1. \E stage \in {"subscribe", "native"} : Proceeds(c, stage)
    BY <1>3 DEF Execute
  <2>2. QED
    BY <1>1, <1>3, <2>1, ProceedsStep
<1>4. CASE Lookup(c)
  BY <1>1, <1>3, <1>4, EndsStep, ThrowsStep DEF Lookup, At
<1>5. CASE Defaults(c)
  <2>1. CASE Proceeds(c, "gate")
    BY <1>1, <1>5, <2>1, ProceedsStep DEF Defaults, At
  <2>2. QED
    BY <1>1, <1>5, <2>1, EndsStep, ThrowsStep DEF Defaults, At
<1>6. CASE Gate(c)
  BY <1>1, <1>3, <1>6, EndsStep, EnqueueStep DEF Gate, At
<1>7. CASE Enqueue(c)
  BY <1>1, <1>7, EndsStep DEF Enqueue, At
<1>8. CASE Subscribe(c)
  <2>1. CASE Proceeds(c, "enrich")
    BY <1>1, <1>8, <2>1, ProceedsStep DEF Subscribe, At
  <2>2. QED
    BY <1>1, <1>8, <2>1, EndsStep DEF Subscribe, At
<1>9. CASE TimesOut(c)
  BY <1>1, <1>9, EndsStep DEF TimesOut
<1>10. QED
  BY <1>4, <1>5, <1>6, <1>7, <1>8, <1>9 DEF Serves

\* What another server's answer, or its failure, lets a call do.
LEMMA IsAnsweredStep ==
  ASSUME IInv, NEW c \in Calls, IsAnswered(c)
  PROVE  IInv'
<1>1. /\ {"native", "enrich", "fetch", "probe", "initialize", "retry", "body"} \subseteq Running
      /\ Running \subseteq Unfinished
  BY DEF Running, Unfinished, Forwarded, Timed
<1>2. ASSUME NEW stage \in Running, Proceeds(c, stage), ~Aborted(c), call[c].at \in Running
      PROVE  IInv'
  BY <1>2, ProceedsStep DEF Aborted
<1>3. CASE Headers(c)
  BY <1>1, <1>2, <1>3 DEF Headers, At
<1>4. CASE Probe(c)
  BY <1>1, <1>2, <1>4 DEF Probe, At
<1>5. CASE Retry(c)
  BY <1>1, <1>2, <1>5, EndsStep DEF Retry, At
<1>6. CASE RetryHeaders(c)
  BY <1>1, <1>2, <1>6 DEF RetryHeaders, At
<1>7. CASE Body(c)
  BY <1>1, <1>7, EndsStep DEF Body, At
<1>8. CASE Native(c)
  BY <1>1, <1>8, EndsStep DEF Native, At
<1>9. CASE Send(c)
  <2>1. CASE ~Aborted(c) /\ Proceeds(c, "fetch")
    BY <1>1, <1>2, <1>9, <2>1 DEF Send, At
  <2>2. QED
    BY <1>1, <1>9, <2>1, EndsStep DEF Send, At
<1>10. QED
  BY <1>3, <1>4, <1>5, <1>6, <1>7, <1>8, <1>9 DEF IsAnswered

LEMMA StepIInv == IInv /\ [Next]_vars => IInv'
<1> SUFFICES ASSUME IInv, [Next]_vars PROVE IInv'
  OBVIOUS
<1>1. CASE \E c \in Calls : Serves(c) \/ IsAnswered(c)
  BY <1>1, ServesStep, IsAnsweredStep
<1>2. CASE \E c \in Calls, i \in Ids, tool \in Tools, resumes \in BOOLEAN :
             Arrive(c, i, tool, resumes)
  BY <1>2, ArriveStep
<1>3. CASE \E i \in Ids : Cancel(i)
  BY <1>3, CancelStep
<1>4. CASE Restart
  BY <1>4, RestartStep
<1>5. CASE UNCHANGED vars
  BY <1>5 DEF vars, IInv, TypeOK, CallOK, At, SharersKnown, CancelExact, AbortIsFinal, Aborted
<1>6. QED
  BY <1>1, <1>2, <1>3, <1>4, <1>5 DEF Next

\* The inductive invariant of the cancel registry and the calls it leads to
\* (transport.ts, registry.ts, forwarder.ts) holds in every state.
THEOREM Invariance == Spec => []IInv
BY InitIInv, StepIInv, PTL DEF Spec

\* Calls, the cancel registry's entries and the sharers stay what they are
\* declared to be.
THEOREM TypeCorrect == Spec => []TypeOK
<1>1. IInv => TypeOK
  BY DEF IInv
<1>2. QED
  BY <1>1, Invariance, PTL

\* The id of a call that shares it with nobody leads to that call exactly while
\* it runs and is not aborted (CancelRegistry.start, cancel and finish).
THEOREM CancelIsExact == Spec => []CancelExact
<1>1. IInv => CancelExact
  BY DEF IInv
<1>2. QED
  BY <1>1, Invariance, PTL

\* A call cancelled before it was sent to a sub-MCP is never sent, and one
\* cancelled before the headers came takes no result (forwardToolCall).
THEOREM AbortsAreFinal == Spec => []AbortIsFinal
<1>1. IInv => AbortIsFinal
  BY DEF IInv
<1>2. QED
  BY <1>1, Invariance, PTL
================================================================================
