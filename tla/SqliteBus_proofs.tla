-------------------------- MODULE SqliteBus_proofs --------------------------
(***************************************************************************)
(* Proofs about SqliteBus for any finite sets of requests and listeners    *)
(* and any values of the time limits and of the rotation.                  *)
(***************************************************************************)
EXTENDS SqliteBus, FiniteSetTheorems, TLAPS

(* A listener that is busy with a row is busy with a request.              *)
Busy == {"apply", "reply", "close", "rotate", "delete"}
CurIsRequest == \A l \in Listeners : pc[l] \in Busy => cur[l] \in Requests

Inv1 == TypeOK /\ CurIsRequest

(* The counts stay in their bounds and grow by one at most.                *)
LEMMA CountedType ==
  ASSUME NEW n \in 0..MaxRuns
  PROVE  Counted(n) \in 0..MaxRuns /\ Counted(n) > 0
         /\ n <= Counted(n) /\ Counted(n) <= n + 1
         /\ (n < MaxRuns => Counted(n) = n + 1)
BY SqliteAssumption DEF Counted

(* Ages stay within one of their limit.                                    *)
LEMMA OlderType ==
  ASSUME NEW m \in Nat, NEW n \in 0..m + 1 PROVE Older(n, m) \in 0..m + 1
BY DEF Older

(* An UPDATE sets a status and a fresh updated_at.                         *)
LEMMA UpdateType ==
  ASSUME TypeOK, NEW S, NEW status \in Status, Update(S, status)
  PROVE  /\ row' \in [Requests -> Status]
         /\ heldAge' \in [Requests -> 0..Stale + 1]
BY SqliteAssumption DEF Update, TypeOK

(* What is over the limit of the rotation is a number of rows.             *)
LEMMA ExcessType ==
  ASSUME NEW S \in SUBSET Requests, Cardinality(S) > Keep
  PROVE  Cardinality(S) - Keep \in 0..Cardinality(Requests)
<1>1. /\ Cardinality(S) \in Nat /\ Cardinality(Requests) \in Nat
      /\ Cardinality(S) <= Cardinality(Requests)
  BY SqliteAssumption, FS_Subset, FS_CardinalityType
<1> QED
  BY <1>1, SqliteAssumption

-----------------------------------------------------------------------------
(* Every column and every variable of the processes stays in its type.     *)
LEMMA Inv1Always == Spec => []Inv1
<1>1. Init => Inv1
  <2>1. 0 \in 0..Cardinality(Requests)
    BY SqliteAssumption, FS_CardinalityType
  <2> QED
    BY <2>1, SqliteAssumption
    DEF Init, Inv1, TypeOK, CurIsRequest, PC, Status, CallerState, Busy
<1>2. Inv1 /\ [Next]_vars => Inv1'
  <2> SUFFICES ASSUME Inv1, [Next]_vars PROVE Inv1'
    OBVIOUS
  <2>0. 0 \in 0..Cardinality(Requests)
    BY SqliteAssumption, FS_CardinalityType
  <2> USE <2>0, SqliteAssumption DEF Inv1, CurIsRequest, Busy, rows, listener,
          callers, history, faults, vars
  <2>1. CASE Tick
    <3>1. /\ sentAge' \in [Requests -> 0..RequestTTL + 1]
          /\ heldAge' \in [Requests -> 0..Stale + 1]
      BY <2>1, OlderType DEF Tick, TypeOK
    <3>2. patience' \in [Requests -> 0..WaitTicks]
      BY <2>1 DEF Tick, TypeOK
    <3> QED
      BY <2>1, <3>1, <3>2 DEF Tick, TypeOK
  <2>2. ASSUME NEW r \in Requests, SendRequest(r) PROVE Inv1'
    <3>1. /\ row' \in [Requests -> Status]
          /\ heldAge' \in [Requests -> 0..Stale + 1]
      BY <2>2, UpdateType DEF SendRequest, Status
    <3>2. /\ caller' \in [Requests -> CallerState]
          /\ patience' \in [Requests -> 0..WaitTicks]
      BY <2>2 DEF SendRequest, TypeOK, CallerState
    <3> QED
      BY <2>2, <3>1, <3>2 DEF SendRequest, TypeOK
  <2>3. ASSUME NEW r \in Requests, TakeResponse(r) PROVE Inv1'
    <3>1. /\ row' \in [Requests -> Status]
          /\ heldAge' \in [Requests -> 0..Stale + 1]
      BY <2>3, UpdateType DEF TakeResponse, UpdateById, Status
    <3> QED
      BY <2>3, <3>1 DEF TakeResponse, TypeOK, CallerState
  <2>4. ASSUME NEW r \in Requests,
               FindResponse(r) \/ Timeout(r) \/ CallerDies(r)
        PROVE  Inv1'
    BY <2>4 DEF FindResponse, Timeout, CallerDies, TypeOK, CallerState
  <2>5. ASSUME NEW l \in Listeners, Start(l) \/ Stop(l) PROVE Inv1'
    BY <2>5 DEF Start, Stop, Goto, TypeOK, PC
  <2>6. ASSUME NEW l \in Listeners, ListRequests(l) PROVE Inv1'
    <3>1. row' \in [Requests -> Status]
      BY <2>6 DEF ListRequests, TypeOK, Status
    <3>2. heldAge' \in [Requests -> 0..Stale + 1]
      BY <2>6 DEF ListRequests, TypeOK
    <3>3. reclaims' \in [Requests -> 0..MaxRuns]
      BY <2>6, CountedType DEF ListRequests, TypeOK
    <3>4. batch' \in [Listeners -> SUBSET Requests]
      BY <2>6 DEF ListRequests, TypeOK, In
    <3>5. pc' \in [Listeners -> PC]
      BY <2>6 DEF ListRequests, Goto, TypeOK, PC
    <3>6. /\ CurIsRequest'
          /\ UNCHANGED <<sentAge, running, cur, excess, callers, handled,
                         faults>>
      BY <2>6 DEF ListRequests, Goto, TypeOK
    <3> QED
      BY <3>1, <3>2, <3>3, <3>4, <3>5, <3>6 DEF TypeOK
  <2>7. ASSUME NEW l \in Listeners, NextClaimed(l) PROVE Inv1'
    BY <2>7 DEF NextClaimed, First, Goto, TypeOK, PC
  <2>8. ASSUME NEW l \in Listeners, HandleRequest(l) PROVE Inv1'
    BY <2>8, CountedType DEF HandleRequest, Goto, TypeOK, PC
  <2>9. ASSUME NEW l \in Listeners, SendResponse(l) PROVE Inv1'
    <3>1. /\ row' \in [Requests -> Status]
          /\ heldAge' \in [Requests -> 0..Stale + 1]
      BY <2>9, UpdateType DEF SendResponse, Status
    <3> QED
      BY <2>9, <3>1 DEF SendResponse, Goto, TypeOK, PC
  <2>10. ASSUME NEW l \in Listeners, MarkProcessed(l) PROVE Inv1'
    <3>1. /\ row' \in [Requests -> Status]
          /\ heldAge' \in [Requests -> 0..Stale + 1]
      BY <2>10, UpdateType DEF MarkProcessed, UpdateById, Status
    <3> QED
      BY <2>10, <3>1 DEF MarkProcessed, Goto, TypeOK, PC
  <2>11. ASSUME NEW l \in Listeners, RotateProcessed(l) PROVE Inv1'
    <3>1. excess' \in [Listeners -> 0..Cardinality(Requests)]
      BY <2>11, ExcessType DEF RotateProcessed, TypeOK, In
    <3> QED
      BY <2>11, <3>1 DEF RotateProcessed, Goto, TypeOK, PC
  <2>12. ASSUME NEW l \in Listeners, DeleteExcess(l) PROVE Inv1'
    <3>1. /\ row' \in [Requests -> Status]
          /\ heldAge' \in [Requests -> 0..Stale + 1]
      BY <2>12, UpdateType DEF DeleteExcess, Status, TypeOK
    <3>2. locked' \in 0..MaxLocked
      BY <2>12 DEF DeleteExcess, TypeOK
    <3>3. excess' \in [Listeners -> 0..Cardinality(Requests)]
      BY <2>12 DEF DeleteExcess, TypeOK
    <3> QED
      BY <2>12, <3>1, <3>2, <3>3 DEF DeleteExcess, Goto, TypeOK, PC
  <2>13. ASSUME NEW l \in Listeners, HandlerFails(l) PROVE Inv1'
    <3>1. /\ row' \in [Requests -> Status]
          /\ heldAge' \in [Requests -> 0..Stale + 1]
      BY <2>13, UpdateType DEF HandlerFails, UpdateById, Status
    <3>2. locked' \in 0..MaxLocked
      BY <2>13 DEF HandlerFails, TypeOK
    <3> QED
      BY <2>13, <3>1, <3>2 DEF HandlerFails, Goto, TypeOK, PC
  <2>14. ASSUME NEW l \in Listeners, Signal(l) \/ Crash(l) PROVE Inv1'
    <3>1. outages' \in 0..MaxOutages
      BY <2>14 DEF Signal, Crash, TypeOK
    <3>2. CASE Signal(l)
      BY <3>1, <3>2 DEF Signal, TypeOK
    <3>3. CASE Crash(l)
      BY <3>1, <3>3 DEF Crash, Goto, TypeOK, PC
    <3> QED
      BY <2>14, <3>2, <3>3
  <2>15. CASE UNCHANGED vars
    BY <2>15 DEF TypeOK
  <2> QED
    BY <2>1, <2>2, <2>3, <2>4, <2>5, <2>6, <2>7, <2>8, <2>9, <2>10, <2>11,
       <2>12, <2>13, <2>14, <2>15 DEF Next, CallerStep, ListenerStep
<1> QED
  BY <1>1, <1>2, PTL DEF Spec

(* Type correctness, ages and the excess of the rotation within their      *)
(* bounds included.                                                        *)
THEOREM TypeCorrect == Spec => []TypeOK
BY Inv1Always, PTL DEF Inv1

-----------------------------------------------------------------------------
(* Answers.  What a listener executed stays executed until it has marked   *)
(* the row, and what a caller found was the response of an execution.      *)
Progress ==
  \A l \in Listeners : pc[l] \in {"reply", "close"} => handled[cur[l]] > 0

FoundIsEarned ==
  \A r \in Requests :
    row[r] \in {"response", "processed", "deleted"}
    \/ caller[r] \in {"reading", "answered"}
      => handled[r] > 0

(* What a listener has in hand or in its batch was sent.                   *)
HeldIsSent ==
  \A l \in Listeners :
    /\ \A r \in batch[l] : row[r] # "none"
    /\ pc[l] \in Busy => row[cur[l]] # "none"

Inv2 == Progress /\ FoundIsEarned /\ HeldIsSent

(* No step of a caller, a listener or a late UPDATE breaks it.             *)
LEMMA Inv2Always == Spec => []Inv2
<1>1. Init => Inv2
  BY DEF Init, Inv2, Progress, FoundIsEarned, HeldIsSent, Busy
<1>2. Inv1 /\ Inv2 /\ [Next]_vars => Inv2'
  <2> SUFFICES ASSUME Inv1, Inv2, [Next]_vars PROVE Inv2'
    OBVIOUS
  <2> USE DEF Inv1, TypeOK, CurIsRequest, Busy, Inv2, Progress, FoundIsEarned,
          HeldIsSent, Goto, Update, UpdateById, In, rows, listener, callers, history,
          faults, vars
  <2>1. ASSUME NEW r \in Requests, SendRequest(r) PROVE Inv2'
    BY <2>1 DEF SendRequest
  <2>2. ASSUME NEW r \in Requests, CallerStep(r) \/ CallerDies(r)
        PROVE  Inv2'
    BY <2>2 DEF CallerStep, CallerDies, FindResponse, TakeResponse, Timeout
  <2>3. ASSUME NEW l \in Listeners, Start(l) \/ Stop(l) \/ Signal(l) \/ Crash(l)
        PROVE  Inv2'
    BY <2>3 DEF Start, Stop, Signal, Crash
  <2>4. ASSUME NEW l \in Listeners, ListRequests(l) PROVE Inv2'
    <3>1. Progress' /\ FoundIsEarned'
      BY <2>4 DEF ListRequests
    <3>2. \A r \in Requests : row[r] # "none" => row'[r] # "none"
      BY <2>4 DEF ListRequests
    <3>3. \A r \in batch'[l] : row'[r] # "none"
      BY <2>4 DEF ListRequests
    <3>4. \A k \in Listeners \ {l} : batch'[k] = batch[k] /\ pc'[k] = pc[k]
      BY <2>4 DEF ListRequests
    <3>5. pc'[l] = "work" /\ cur' = cur
      BY <2>4 DEF ListRequests
    <3>6. HeldIsSent'
      BY <3>2, <3>3, <3>4, <3>5
    <3> QED
      BY <3>1, <3>6
  <2>5. ASSUME NEW l \in Listeners, NextClaimed(l) PROVE Inv2'
    BY <2>5 DEF NextClaimed, First
  <2>6. ASSUME NEW l \in Listeners, HandleRequest(l) PROVE Inv2'
    <3>1. cur[l] \in Requests
      BY <2>6 DEF HandleRequest
    <3>2. \A r \in Requests : handled[r] > 0 => handled'[r] > 0
      BY <2>6, <3>1, CountedType DEF HandleRequest
    <3>3. handled'[cur[l]] > 0
      BY <2>6, <3>1, CountedType DEF HandleRequest
    <3>4. pc' = [pc EXCEPT ![l] = "reply"] /\ UNCHANGED <<cur, row, caller>>
      BY <2>6 DEF HandleRequest
    <3>5. Progress'
      BY <3>1, <3>2, <3>3, <3>4
    <3>6. FoundIsEarned'
      BY <3>2, <3>4
    <3>7. HeldIsSent'
      BY <2>6 DEF HandleRequest
    <3> QED
      BY <3>5, <3>6, <3>7
  <2>7. ASSUME NEW l \in Listeners, SendResponse(l) PROVE Inv2'
    BY <2>7 DEF SendResponse
  <2>8. ASSUME NEW l \in Listeners, MarkProcessed(l) PROVE Inv2'
    BY <2>8 DEF MarkProcessed
  <2>9. ASSUME NEW l \in Listeners, RotateProcessed(l) PROVE Inv2'
    BY <2>9 DEF RotateProcessed
  <2>10. ASSUME NEW l \in Listeners, DeleteExcess(l) PROVE Inv2'
    BY <2>10 DEF DeleteExcess
  <2>11. ASSUME NEW l \in Listeners, HandlerFails(l) PROVE Inv2'
    BY <2>11 DEF HandlerFails
  <2>12. CASE Tick \/ UNCHANGED vars
    BY <2>12 DEF Tick
  <2> QED
    BY <2>1, <2>2, <2>3, <2>4, <2>5, <2>6, <2>7, <2>8, <2>9, <2>10, <2>11,
       <2>12 DEF Next, ListenerStep
<1> QED
  BY <1>1, <1>2, Inv1Always, PTL DEF Spec

(* An answer that a caller got, a response row and an archived row go back *)
(* to an execution of that request, whatever two listeners and their late  *)
(* UPDATEs do to the row.                                                  *)
THEOREM AnswersAreEarnedAlways == Spec => []AnswersAreEarned
<1>1. Inv2 => AnswersAreEarned
  BY DEF Inv2, FoundIsEarned, AnswersAreEarned
<1> QED
  BY <1>1, Inv2Always, PTL

-----------------------------------------------------------------------------
(* The contract of a row, and the rows seen through it.                    *)
StatusOf(r) ==
  IF row[r] = "none" THEN "new"
  ELSE IF row[r] \in {"pending", "processing"} THEN "open"
  ELSE IF row[r] = "deadletter" THEN "dead"
  ELSE IF row[r] = "deleted" THEN "gone" ELSE "done"

Row == INSTANCE RowContract WITH
         status <- [r \in Requests |-> StatusOf(r)], runs <- handled

KeepsRowContract == Row!Spec

(* An UPDATE of some rows is a change of their status in the contract.     *)
LEMMA UpdateBecomes ==
  ASSUME TypeOK, NEW S \in SUBSET Requests, NEW status \in Status,
         NEW state, Update(S, status),
         \A r : row'[r] = status => StatusOf(r)' = state
  PROVE  Row!Become(S, state)
<1>1. ASSUME NEW r \in Requests
      PROVE  StatusOf(r)' = IF r \in S THEN state ELSE StatusOf(r)
  <2>1. CASE r \in S
    BY <2>1 DEF Update
  <2>2. CASE r \notin S
    BY <2>2 DEF Update, StatusOf
  <2> QED
    BY <2>1, <2>2
<1> QED
  BY <1>1 DEF Row!Become

(* The UPDATE that answers or archives a request that was executed.        *)
LEMMA AnswerById ==
  ASSUME TypeOK, NEW r \in Requests, UpdateById(r, "processed"),
         StatusOf(r) # "new" => handled[r] > 0, UNCHANGED handled
  PROVE  [Row!Next]_Row!vars
<1>1. CASE row[r] \in {"none", "deleted"}
  <2>1. \A s \in Requests : row'[s] = row[s]
    BY <1>1 DEF UpdateById, Update, In
  <2> QED
    BY <2>1 DEF StatusOf, Row!vars
<1>2. CASE row[r] \notin {"none", "deleted"}
  <2>1. Update({r}, "processed")
    BY <1>2, {r} \ (In("none") \union In("deleted")) = {r}
    DEF UpdateById, In
  <2>2. Row!Become({r}, "done")
    BY <2>1, UpdateBecomes DEF StatusOf, Status
  <2>3. StatusOf(r) # "new" /\ handled[r] > 0
    BY <1>2 DEF StatusOf
  <2>4. Row!Answer(r)
    BY <2>2, <2>3 DEF Row!Answer
  <2> QED
    BY <2>4 DEF Row!Next
<1> QED
  BY <1>1, <1>2

(* Every step of the bus submits, runs, answers, discards or deletes, or   *)
(* is invisible to the contract: a claim, an UPDATE without a row, and the *)
(* wait of the caller.                                                     *)
LEMMA RowContractStep ==
  ASSUME Inv1, Inv2, [Next]_vars
  PROVE  [Row!Next]_Row!vars
<1> USE DEF Inv1
<1>0. ASSUME UNCHANGED <<row, handled>> PROVE UNCHANGED Row!vars
  BY <1>0 DEF StatusOf, Row!vars
<1>1. ASSUME NEW r \in Requests, SendRequest(r) PROVE [Row!Next]_Row!vars
  <2>1. Row!Become({r}, "open")
    BY <1>1, UpdateBecomes DEF SendRequest, StatusOf, Status
  <2>2. StatusOf(r) = "new" /\ UNCHANGED handled
    BY <1>1 DEF SendRequest, StatusOf, history
  <2>3. Row!Submit(r)
    BY <2>1, <2>2 DEF Row!Submit
  <2> QED
    BY <2>3 DEF Row!Next
<1>2. ASSUME NEW r \in Requests, TakeResponse(r) PROVE [Row!Next]_Row!vars
  <2>1. handled[r] > 0 /\ UpdateById(r, "processed") /\ UNCHANGED handled
    BY <1>2 DEF TakeResponse, Inv2, FoundIsEarned, history
  <2> QED
    BY <2>1, AnswerById
<1>3. ASSUME NEW l \in Listeners, ListRequests(l) PROVE [Row!Next]_Row!vars
  <2> DEFINE old == {r \in In("pending") \union In("processing") :
                       row'[r] = "deadletter"}
  <2>1. ASSUME NEW r \in Requests
        PROVE  StatusOf(r)' = IF r \in old THEN "dead" ELSE StatusOf(r)
    BY <1>3 DEF ListRequests, In, StatusOf
  <2>2. Row!Become(old, "dead")
    BY <2>1 DEF Row!Become
  <2>3. \A r \in old : r \in Requests /\ StatusOf(r) = "open"
    BY DEF In, StatusOf
  <2>4. UNCHANGED handled
    BY <1>3 DEF ListRequests
  <2> HIDE DEF old
  <2>5. Row!Discard(old) /\ old \in SUBSET Requests
    BY <2>2, <2>3, <2>4 DEF Row!Discard
  <2> QED
    BY <2>5 DEF Row!Next
<1>4. ASSUME NEW l \in Listeners, HandleRequest(l)
      PROVE  [Row!Next]_Row!vars
  <2>1. PICK r \in Requests : r = cur[l]
    BY <1>4 DEF HandleRequest, CurIsRequest, Busy
  <2>2. \A s \in Requests : StatusOf(s)' = StatusOf(s)
    BY <1>4 DEF HandleRequest, rows, StatusOf
  <2>3. handled' = [handled EXCEPT ![r] = Counted(@)]
    BY <1>4, <2>1 DEF HandleRequest
  <2>4. CASE handled[r] < MaxRuns
    <3>1. handled' = [handled EXCEPT ![r] = @ + 1]
      BY <2>3, <2>4 DEF Counted, TypeOK
    <3>2. StatusOf(r) # "new"
      BY <1>4, <2>1 DEF HandleRequest, StatusOf, Inv2, HeldIsSent, Busy
    <3>3. Row!Run(r)
      BY <2>2, <3>1, <3>2 DEF Row!Run
    <3> QED
      BY <3>3 DEF Row!Next
  <2>5. CASE ~(handled[r] < MaxRuns)
    <3>1. handled' = handled
      BY <2>3, <2>5 DEF Counted, TypeOK
    <3> QED
      BY <2>2, <3>1 DEF Row!vars
  <2> QED
    BY <2>4, <2>5
<1>5. ASSUME NEW l \in Listeners, SendResponse(l) PROVE [Row!Next]_Row!vars
  <2>1. PICK r \in Requests : r = cur[l]
    BY <1>5 DEF SendResponse, CurIsRequest, Busy
  <2>2. Row!Become({r}, "done")
    BY <1>5, <2>1, UpdateBecomes DEF SendResponse, StatusOf, Status
  <2>3. StatusOf(r) # "new" /\ handled[r] > 0 /\ UNCHANGED handled
    BY <1>5, <2>1
    DEF SendResponse, StatusOf, Inv2, HeldIsSent, Progress, Busy, history
  <2>4. Row!Answer(r)
    BY <2>2, <2>3 DEF Row!Answer
  <2> QED
    BY <2>4 DEF Row!Next
<1>6. ASSUME NEW l \in Listeners, MarkProcessed(l) PROVE [Row!Next]_Row!vars
  <2>1. PICK r \in Requests : r = cur[l]
    BY <1>6 DEF MarkProcessed, CurIsRequest, Busy
  <2>2. handled[r] > 0 /\ UpdateById(r, "processed") /\ UNCHANGED handled
    BY <1>6, <2>1 DEF MarkProcessed, Inv2, Progress, history
  <2> QED
    BY <2>2, AnswerById
<1>7. ASSUME NEW l \in Listeners, DeleteExcess(l) PROVE [Row!Next]_Row!vars
  <2>1. UNCHANGED handled
    BY <1>7 DEF DeleteExcess, history
  <2>2. CASE UNCHANGED row
    BY <1>0, <2>1, <2>2
  <2>3. ASSUME NEW gone \in SUBSET In("processed"), Update(gone, "deleted")
        PROVE  [Row!Next]_Row!vars
    <3>1. gone \in SUBSET Requests /\ \A r \in gone : StatusOf(r) = "done"
      BY <2>3 DEF In, StatusOf
    <3>2. Row!Become(gone, "gone")
      BY <2>3, <3>1, UpdateBecomes DEF StatusOf, Status
    <3>3. Row!Delete(gone)
      BY <2>1, <3>1, <3>2 DEF Row!Delete
    <3> QED
      BY <3>1, <3>3 DEF Row!Next
  <2> QED
    BY <1>7, <2>2, <2>3 DEF DeleteExcess
<1>8. ASSUME NEW l \in Listeners, HandlerFails(l) PROVE [Row!Next]_Row!vars
  <2>1. PICK r \in Requests : r = cur[l]
    BY <1>8 DEF HandlerFails, CurIsRequest, Busy
  <2>2. UpdateById(r, "deadletter") /\ UNCHANGED handled
    BY <1>8, <2>1 DEF HandlerFails, history
  <2> DEFINE S == {r} \ (In("none") \union In("deleted"))
  <2>3. S \in SUBSET Requests
        /\ \A s \in S : StatusOf(s) \in {"open", "done", "dead"}
    BY DEF In, StatusOf
  <2>4. Update(S, "deadletter")
    BY <2>2 DEF UpdateById
  <2> HIDE DEF S
  <2>5. Row!Become(S, "dead")
    BY <2>3, <2>4, UpdateBecomes DEF StatusOf, Status
  <2>6. Row!Discard(S)
    BY <2>2, <2>3, <2>5 DEF Row!Discard
  <2> QED
    BY <2>3, <2>6 DEF Row!Next
<1>9. ASSUME NEW r \in Requests,
             FindResponse(r) \/ Timeout(r) \/ CallerDies(r)
      PROVE  UNCHANGED <<row, handled>>
  BY <1>9 DEF FindResponse, Timeout, CallerDies, rows, history
<1>10. ASSUME NEW l \in Listeners,
              \/ Start(l) \/ Stop(l) \/ NextClaimed(l) \/ RotateProcessed(l)
              \/ Signal(l) \/ Crash(l)
       PROVE  UNCHANGED <<row, handled>>
  BY <1>10 DEF Start, Stop, NextClaimed, RotateProcessed, Signal, Crash, rows,
     history
<1>11. Tick \/ UNCHANGED vars => UNCHANGED <<row, handled>>
  BY DEF Tick, vars, rows, history
<1> QED
  BY <1>0, <1>1, <1>2, <1>3, <1>4, <1>5, <1>6, <1>7, <1>8, <1>9, <1>10, <1>11
  DEF Next, CallerStep, ListenerStep

(* The bus implements the contract of its rows, for any number of          *)
(* listeners that reclaim each other's claims, crash and update rows late: *)
(* a row is done only by an execution, deleted only when it is done, and   *)
(* never opened again.                                                     *)
THEOREM RowContractKept == Spec => KeepsRowContract
<1>1. Init => Row!Init
  BY DEF Init, Row!Init, StatusOf
<1>2. Inv1 /\ Inv2 /\ [Next]_vars => [Row!Next]_Row!vars
  BY RowContractStep
<1> QED
  BY <1>1, <1>2, Inv1Always, Inv2Always, PTL
  DEF Spec, KeepsRowContract, Row!Spec

-----------------------------------------------------------------------------
(* No UPDATE by request_id and no scan puts a settled request back into    *)
(* the queue, and the rotation deletes nothing but processed rows.         *)
THEOREM SettledStays == Spec => SettledStaysOutOfQueue
<1> DEFINE Stays(r) ==
      /\ r \in Settled => row'[r] \notin {"none", "pending", "processing"}
      /\ row'[r] = "deleted" => row[r] \in {"processed", "deleted"}
<1>1. Inv1 /\ [Next]_vars => \A r \in Requests : Stays(r)
  <2> SUFFICES ASSUME Inv1, [Next]_vars, NEW r \in Requests PROVE Stays(r)
    OBVIOUS
  <2> USE DEF Inv1, TypeOK, CurIsRequest, Busy, Settled, Update, UpdateById,
          In, rows, vars
  <2>1. CASE UNCHANGED row
    BY <2>1
  <2>2. ASSUME NEW s \in Requests, SendRequest(s) PROVE Stays(r)
    BY <2>2 DEF SendRequest
  <2>3. ASSUME NEW s \in Requests, CallerStep(s) \/ CallerDies(s)
        PROVE  Stays(r)
    BY <2>3 DEF CallerStep, CallerDies, FindResponse, TakeResponse, Timeout
  <2>4. ASSUME NEW l \in Listeners, ListRequests(l) PROVE Stays(r)
    BY <2>4 DEF ListRequests
  <2>5. ASSUME NEW l \in Listeners,
               \/ SendResponse(l) \/ MarkProcessed(l) \/ DeleteExcess(l)
               \/ HandlerFails(l)
        PROVE  Stays(r)
    BY <2>5 DEF SendResponse, MarkProcessed, DeleteExcess, HandlerFails
  <2>6. ASSUME NEW l \in Listeners,
               \/ Start(l) \/ Stop(l) \/ NextClaimed(l) \/ HandleRequest(l)
               \/ RotateProcessed(l) \/ Signal(l) \/ Crash(l)
        PROVE  UNCHANGED row
    BY <2>6 DEF Start, Stop, NextClaimed, HandleRequest, RotateProcessed,
       Signal, Crash
  <2> QED
    BY <2>1, <2>2, <2>3, <2>4, <2>5, <2>6 DEF Next, ListenerStep, Tick
<1> QED
  BY <1>1, Inv1Always, PTL DEF Spec, SettledStaysOutOfQueue

-----------------------------------------------------------------------------
(* Executions.  A request can still be executed by every listener that has *)
(* it in its batch or is about to execute it, and once more while its row  *)
(* waits to be claimed.  The executions done and the ones still possible   *)
(* are bounded by the claims: the first, and one for each reclaim.         *)
Holders(r) ==
  {l \in Listeners : r \in batch[l] \/ (pc[l] = "apply" /\ cur[l] = r)}

Unclaimed(r) == IF row[r] \in {"none", "pending"} THEN 1 ELSE 0

HoldsOnce ==
  \A l \in Listeners :
    /\ pc[l] \in {"down", "ready"} => batch[l] = {}
    /\ pc[l] = "apply" => cur[l] \notin batch[l]

(* A reclaim that is no longer counted leaves nothing to bound.            *)
RunsLeft(r) ==
  \/ reclaims[r] = MaxRuns
  \/ handled[r] + Cardinality(Holders(r)) + Unclaimed(r) <= 1 + reclaims[r]

Inv3 == HoldsOnce /\ \A r \in Requests : RunsLeft(r)

(* Of finitely many listeners, finitely many hold a request.               *)
LEMMA HoldersFinite ==
  ASSUME NEW r
  PROVE  IsFiniteSet(Holders(r)) /\ Cardinality(Holders(r)) \in Nat
BY SqliteAssumption, FS_Subset, FS_CardinalityType DEF Holders

(* A step that gives r to nobody and executes nothing keeps the bound.     *)
LEMMA FewerHolders ==
  ASSUME Inv1, NEW r \in Requests, RunsLeft(r),
         Holders(r)' \subseteq Holders(r), Unclaimed(r)' <= Unclaimed(r),
         handled'[r] = handled[r], reclaims'[r] = reclaims[r]
  PROVE  RunsLeft(r)'
<1>1. /\ Cardinality(Holders(r)') <= Cardinality(Holders(r))
      /\ Cardinality(Holders(r)') \in Nat /\ Cardinality(Holders(r)) \in Nat
  BY HoldersFinite, FS_Subset, FS_CardinalityType
<1>2. Unclaimed(r) \in Nat /\ Unclaimed(r)' \in Nat
  BY DEF Unclaimed
<1>3. handled[r] \in Nat /\ reclaims[r] \in Nat
  BY SqliteAssumption DEF Inv1, TypeOK
<1> QED
  BY <1>1, <1>2, <1>3 DEF RunsLeft

(* A scan gives every request that it claims to one more listener, and     *)
(* either the request was waiting or its stale claim is counted.           *)
LEMMA ScanKeepsBound ==
  ASSUME Inv1, HoldsOnce, NEW l \in Listeners, ListRequests(l),
         NEW r \in Requests, RunsLeft(r)
  PROVE  RunsLeft(r)'
<1> USE DEF Inv1, TypeOK, Goto
<1>1. handled'[r] = handled[r]
  BY DEF ListRequests
<1>2. CASE r \notin batch'[l]
  <2>1. Holders(r)' \subseteq Holders(r)
    BY <1>2 DEF ListRequests, Holders
  <2>2. Unclaimed(r)' <= Unclaimed(r)
    BY DEF ListRequests, Unclaimed, In
  <2>3. reclaims'[r] = reclaims[r] \/ reclaims'[r] = Counted(reclaims[r])
    BY DEF ListRequests
  <2>4. CASE reclaims'[r] = reclaims[r]
    BY <1>1, <2>1, <2>2, <2>4, FewerHolders
  <2>5. CASE reclaims'[r] = Counted(reclaims[r])
    <3>1. /\ Cardinality(Holders(r)') <= Cardinality(Holders(r))
          /\ Cardinality(Holders(r)') \in Nat /\ Cardinality(Holders(r)) \in Nat
      BY <2>1, HoldersFinite, FS_Subset, FS_CardinalityType
    <3>2. Unclaimed(r) \in Nat /\ Unclaimed(r)' \in Nat
      BY DEF Unclaimed
    <3>3. /\ handled[r] \in Nat /\ reclaims[r] \in 0..MaxRuns
          /\ reclaims'[r] \in 0..MaxRuns /\ reclaims[r] <= reclaims'[r]
      BY <2>5, SqliteAssumption, CountedType
    <3> QED
      BY <1>1, <2>2, <3>1, <3>2, <3>3, SqliteAssumption DEF RunsLeft
  <2> QED
    BY <2>3, <2>4, <2>5
<1>3. CASE r \in batch'[l]
  <2>1. Holders(r)' = Holders(r) \union {l} /\ l \notin Holders(r)
    BY <1>3 DEF ListRequests, Holders, HoldsOnce
  <2>2. /\ Cardinality(Holders(r)') = Cardinality(Holders(r)) + 1
        /\ Cardinality(Holders(r)) \in Nat
    BY ZenonT(40), <2>1, HoldersFinite, FS_AddElement
  <2>3. handled[r] \in Nat /\ reclaims[r] \in 0..MaxRuns
    BY SqliteAssumption
  <2>4. \/ /\ Unclaimed(r) = 1 /\ Unclaimed(r)' = 0
           /\ reclaims'[r] = reclaims[r]
        \/ /\ Unclaimed(r) = 0 /\ Unclaimed(r)' = 0
           /\ reclaims'[r] = Counted(reclaims[r])
    BY <1>3 DEF ListRequests, Unclaimed, In
  <2> QED
    BY <1>1, <2>2, <2>3, <2>4, SqliteAssumption DEF RunsLeft, Counted
<1> QED
  BY <1>2, <1>3

(* An execution uses up the hold of the listener that does it.             *)
LEMMA RunKeepsBound ==
  ASSUME Inv1, HoldsOnce, NEW l \in Listeners, HandleRequest(l),
         NEW r \in Requests, RunsLeft(r)
  PROVE  RunsLeft(r)'
<1> USE DEF Inv1, TypeOK, Goto
<1>1. Unclaimed(r)' = Unclaimed(r) /\ reclaims'[r] = reclaims[r]
  BY DEF HandleRequest, Unclaimed, rows
<1>2. CASE r # cur[l]
  <2>1. Holders(r)' \subseteq Holders(r) /\ handled'[r] = handled[r]
    BY <1>2 DEF HandleRequest, Holders
  <2> QED
    BY <1>1, <2>1, FewerHolders DEF Unclaimed
<1>3. CASE r = cur[l]
  <2>1. l \in Holders(r) /\ Holders(r)' = Holders(r) \ {l}
    BY <1>3 DEF HandleRequest, Holders, HoldsOnce
  <2>2. /\ Cardinality(Holders(r)') = Cardinality(Holders(r)) - 1
        /\ Cardinality(Holders(r)) \in Nat /\ Cardinality(Holders(r)') \in Nat
    BY <2>1, HoldersFinite, FS_RemoveElement, FS_CardinalityType
  <2>3. /\ handled[r] \in Nat /\ reclaims[r] \in Nat /\ handled'[r] \in Nat
        /\ handled'[r] <= handled[r] + 1
    BY <1>3, CountedType, SqliteAssumption DEF HandleRequest
  <2>4. Unclaimed(r) \in Nat
    BY DEF Unclaimed
  <2> QED
    BY <1>1, <2>2, <2>3, <2>4 DEF RunsLeft
<1> QED
  BY <1>2, <1>3

(* For any number of listeners, crashes included, a request is executed at *)
(* most once plus once for each time its claim went stale.                 *)
THEOREM RunsBounded == Spec => []RunsBoundedByReclaims
<1>1. Init => Inv3
  <2> SUFFICES ASSUME Init PROVE Inv3
    OBVIOUS
  <2>1. HoldsOnce
    BY DEF Init, HoldsOnce
  <2>2. ASSUME NEW r \in Requests PROVE RunsLeft(r)
    <3>1. Holders(r) = {}
      BY DEF Init, Holders
    <3>2. Unclaimed(r) = 1 /\ handled[r] = 0 /\ reclaims[r] = 0
      BY DEF Init, Unclaimed
    <3> QED
      BY <3>1, <3>2, FS_EmptySet DEF RunsLeft
  <2> QED
    BY <2>1, <2>2 DEF Inv3
<1>2. Inv1 /\ Inv3 /\ [Next]_vars => Inv3'
  <2> SUFFICES ASSUME Inv1, Inv3, [Next]_vars PROVE Inv3'
    OBVIOUS
  <2>1. HoldsOnce'
    <3> USE DEF Inv1, TypeOK, Inv3, HoldsOnce, Goto, listener, vars
    <3>1. CASE UNCHANGED listener
      BY <3>1
    <3>2. ASSUME NEW r \in Requests,
                 SendRequest(r) \/ CallerStep(r) \/ CallerDies(r)
          PROVE  UNCHANGED listener
      BY <3>2 DEF SendRequest, CallerStep, CallerDies, FindResponse,
         TakeResponse, Timeout
    <3>3. ASSUME NEW l \in Listeners,
                 \/ Start(l) \/ Stop(l) \/ ListRequests(l) \/ NextClaimed(l)
                 \/ Crash(l)
          PROVE  HoldsOnce'
      BY <3>3 DEF Start, Stop, ListRequests, NextClaimed, Crash
    <3>4. ASSUME NEW l \in Listeners,
                 \/ HandleRequest(l) \/ SendResponse(l) \/ MarkProcessed(l)
                 \/ RotateProcessed(l) \/ DeleteExcess(l) \/ HandlerFails(l)
                 \/ Signal(l)
          PROVE  HoldsOnce'
      BY <3>4 DEF HandleRequest, SendResponse, MarkProcessed,
         RotateProcessed, DeleteExcess, HandlerFails, Signal
    <3> QED
      BY <3>1, <3>2, <3>3, <3>4 DEF Next, ListenerStep, Tick
  <2>2. ASSUME NEW r \in Requests PROVE RunsLeft(r)'
    <3>0. RunsLeft(r) /\ HoldsOnce
      BY DEF Inv3
    <3>1. ASSUME Holders(r)' \subseteq Holders(r),
                 Unclaimed(r)' <= Unclaimed(r),
                 handled'[r] = handled[r], reclaims'[r] = reclaims[r]
          PROVE  RunsLeft(r)'
      BY <3>0, <3>1, FewerHolders
    <3> USE DEF Inv1, TypeOK, CurIsRequest, Busy, HoldsOnce, Goto, Holders,
            Unclaimed, Update, UpdateById, In, rows, listener, callers,
            history, faults, vars
    <3>2. ASSUME NEW s \in Requests,
                 SendRequest(s) \/ CallerStep(s) \/ CallerDies(s)
          PROVE  RunsLeft(r)'
      BY <3>1, <3>2 DEF SendRequest, CallerStep, CallerDies, FindResponse,
         TakeResponse, Timeout
    <3>3. ASSUME NEW l \in Listeners,
                 Start(l) \/ Stop(l) \/ Signal(l) \/ Crash(l)
          PROVE  RunsLeft(r)'
      BY <3>1, <3>3 DEF Start, Stop, Signal, Crash
    <3>4. ASSUME NEW l \in Listeners, NextClaimed(l) PROVE RunsLeft(r)'
      BY <3>1, <3>4 DEF NextClaimed, First
    <3>5. ASSUME NEW l \in Listeners,
                 \/ SendResponse(l) \/ MarkProcessed(l)
                 \/ RotateProcessed(l) \/ DeleteExcess(l) \/ HandlerFails(l)
          PROVE  RunsLeft(r)'
      BY <3>1, <3>5 DEF SendResponse, MarkProcessed, RotateProcessed,
         DeleteExcess, HandlerFails
    <3>6. CASE Tick \/ UNCHANGED vars
      BY <3>1, <3>6 DEF Tick
    <3> QED
      BY <3>0, <3>2, <3>3, <3>4, <3>5, <3>6, ScanKeepsBound, RunKeepsBound
      DEF Next, ListenerStep
  <2> QED
    BY <2>1, <2>2 DEF Inv3
<1>3. Inv1 /\ Inv3 => RunsBoundedByReclaims
  <2> SUFFICES ASSUME Inv1, Inv3, NEW r \in Requests
               PROVE  handled[r] <= 1 + reclaims[r]
    BY DEF RunsBoundedByReclaims
  <2>1. handled[r] \in 0..MaxRuns /\ reclaims[r] \in 0..MaxRuns
    BY DEF Inv1, TypeOK
  <2>2. Cardinality(Holders(r)) \in Nat /\ Unclaimed(r) \in Nat
    BY HoldersFinite DEF Unclaimed
  <2> QED
    BY <2>1, <2>2, SqliteAssumption DEF Inv3, RunsLeft
<1> QED
  BY <1>1, <1>2, <1>3, Inv1Always, PTL DEF Spec

=============================================================================
