---------------------------- MODULE FsBus_proofs ----------------------------
(***************************************************************************)
(* Proofs about FsBus for any set of requests and listeners and any values *)
(* of the time limits.                                                     *)
(***************************************************************************)
EXTENDS FsBus, FiniteSetTheorems, TLAPS

(* A listener that is busy with a file is busy with a request.             *)
Busy == {"archive", "apply", "reply", "close"}
CurIsRequest == \A l \in Listeners : pc[l] \in Busy => cur[l] \in Requests

(* A listener about to answer has executed the request, and one about to   *)
(* archive it has answered it.                                             *)
Progress ==
  \A l \in Listeners :
    /\ pc[l] = "reply" => handled[cur[l]] > 0
    /\ pc[l] = "close" => cur[l] \in answered

Inv1 == TypeOK /\ CurIsRequest
Inv2 == NoRequestLost
Inv3 == AnswersAreEarned /\ Progress

(* The count of executions stays in its bounds, grows by one at most, and  *)
(* is not 0 after an execution.                                            *)
LEMMA CountedType ==
  ASSUME NEW n \in 0..MaxRuns
  PROVE  Counted(n) \in 0..MaxRuns /\ Counted(n) > 0 /\ Counted(n) <= n + 1
         /\ Counted(n) >= n
BY BusAssumption DEF Counted

(* Ages are numbers.                                                       *)
LEMMA OlderType ==
  ASSUME NEW n \in Nat, NEW m \in Nat PROVE Older(n, m) \in Nat
BY DEF Older

-----------------------------------------------------------------------------
(* Every variable of the bus and of its processes stays in its type, and a *)
(* busy listener has a request in hand.                                    *)
LEMMA Inv1Always == Spec => []Inv1
<1>1. Init => Inv1
  BY BusAssumption DEF Init, Inv1, TypeOK, CurIsRequest, PC, CallerState, Busy
<1>2. Inv1 /\ [Next]_vars => Inv1'
  <2> SUFFICES ASSUME Inv1, [Next]_vars PROVE Inv1'
    OBVIOUS
  <2> USE BusAssumption DEF Inv1, TypeOK, CurIsRequest, Busy, dirs, replyDirs,
          listener, callers, history, clocks, vars
  <2>1. CASE Tick
    <3>1. age' \in [Requests -> Nat] /\ replyAge' \in [Requests -> Nat]
      BY <2>1, OlderType DEF Tick
    <3>2. patience' \in [Requests -> Nat]
      BY <2>1 DEF Tick
    <3> QED
      BY <2>1, <3>1, <3>2 DEF Tick
  <2>2. ASSUME NEW r \in Requests, SendRequest(r) PROVE Inv1'
    BY <2>2 DEF SendRequest, CallerState
  <2>3. ASSUME NEW r \in Requests, ClaimResponse(r) PROVE Inv1'
    BY <2>3 DEF ClaimResponse, CallerState
  <2>4. ASSUME NEW r \in Requests, ReadResponse(r) PROVE Inv1'
    BY <2>4 DEF ReadResponse, CallerState
  <2>5. ASSUME NEW r \in Requests, Timeout(r) PROVE Inv1'
    BY <2>5 DEF Timeout, CallerState
  <2>6. ASSUME NEW r \in Requests, CallerDies(r) PROVE Inv1'
    BY <2>6 DEF CallerDies, CallerState
  <2>7. ASSUME NEW l \in Listeners, Start(l) PROVE Inv1'
    BY <2>7 DEF Start, Goto, PC
  <2>8. ASSUME NEW l \in Listeners, LoopTop(l) PROVE Inv1'
    BY <2>8 DEF LoopTop, Goto, PC
  <2>9. ASSUME NEW l \in Listeners, ReapStaleProcessing(l) PROVE Inv1'
    BY <2>9 DEF ReapStaleProcessing, Goto, PC
  <2>10. ASSUME NEW l \in Listeners, ReapStaleResponses(l) PROVE Inv1'
    BY <2>10 DEF ReapStaleResponses, Goto, PC
  <2>11. ASSUME NEW l \in Listeners, ArchiveResponse(l) PROVE Inv1'
    BY <2>11 DEF ArchiveResponse, Goto, PC
  <2>12. ASSUME NEW l \in Listeners, ListRequests(l) PROVE Inv1'
    BY <2>12 DEF ListRequests, Goto, PC, Oldest
  <2>13. ASSUME NEW l \in Listeners, NextClaimed(l) PROVE Inv1'
    BY <2>13 DEF NextClaimed, Goto, PC, Oldest
  <2>14. ASSUME NEW l \in Listeners, HandleRequest(l) PROVE Inv1'
    BY <2>14, CountedType DEF HandleRequest, Goto, PC
  <2>15. ASSUME NEW l \in Listeners, SendResponse(l) PROVE Inv1'
    BY <2>15 DEF SendResponse, Goto, PC
  <2>16. ASSUME NEW l \in Listeners, MarkProcessed(l) PROVE Inv1'
    BY <2>16 DEF MarkProcessed, Goto, PC
  <2>17. ASSUME NEW l \in Listeners, HandlerFails(l) PROVE Inv1'
    BY <2>17 DEF HandlerFails, Goto, PC
  <2>18. ASSUME NEW l \in Listeners, Signal(l) PROVE Inv1'
    BY <2>18 DEF Signal
  <2>19. ASSUME NEW l \in Listeners, Crash(l) PROVE Inv1'
    BY <2>19 DEF Crash, Goto, PC
  <2>20. CASE UNCHANGED vars
    BY <2>20
  <2> QED
    BY <2>1, <2>2, <2>3, <2>4, <2>5, <2>6, <2>7, <2>8, <2>9, <2>10, <2>11,
       <2>12, <2>13, <2>14, <2>15, <2>16, <2>17, <2>18, <2>19, <2>20
    DEF Next, CallerStep, ListenerStep, ScanStep, WorkStep
<1> QED
  BY <1>1, <1>2, PTL DEF Spec

(* Type correctness: every variable of the bus and of its processes stays  *)
(* in its type, whatever renames, reclaims and crashes happen.             *)
THEOREM TypeCorrect == Spec => []TypeOK
BY Inv1Always, PTL DEF Inv1

-----------------------------------------------------------------------------
(* One step of any process keeps every file in exactly one directory.      *)
LEMMA NoRequestLostStep ==
  Inv1 /\ NoRequestLost /\ [Next]_vars => NoRequestLost'
<1> SUFFICES ASSUME Inv1, NoRequestLost, [Next]_vars PROVE NoRequestLost'
  OBVIOUS
<1> USE DEF Inv1, TypeOK, CurIsRequest, Busy, NoRequestLost, Sent,
        dirs, replyDirs, listener, callers, history, clocks, vars
<1>1. ASSUME NEW r \in Requests, SendRequest(r) PROVE NoRequestLost'
  BY <1>1 DEF SendRequest
<1>2. ASSUME NEW r \in Requests, CallerStep(r) \/ CallerDies(r)
      PROVE  NoRequestLost'
  BY <1>2 DEF CallerStep, CallerDies, ClaimResponse, ReadResponse, Timeout
<1>3. ASSUME NEW l \in Listeners, ReapStaleProcessing(l)
      PROVE  NoRequestLost'
  BY <1>3 DEF ReapStaleProcessing
<1>4. ASSUME NEW l \in Listeners, ListRequests(l) PROVE NoRequestLost'
  BY <1>4 DEF ListRequests, Oldest
<1>5. ASSUME NEW l \in Listeners, MarkProcessed(l) PROVE NoRequestLost'
  BY <1>5 DEF MarkProcessed
<1>6. ASSUME NEW l \in Listeners, HandlerFails(l) PROVE NoRequestLost'
  BY <1>6 DEF HandlerFails
<1>7. ASSUME NEW l \in Listeners,
             \/ Start(l) \/ LoopTop(l) \/ ReapStaleResponses(l)
             \/ ArchiveResponse(l) \/ NextClaimed(l) \/ HandleRequest(l)
             \/ SendResponse(l) \/ Signal(l) \/ Crash(l)
      PROVE  NoRequestLost'
  BY <1>7 DEF Start, LoopTop, ReapStaleResponses, ArchiveResponse,
     NextClaimed, HandleRequest, SendResponse, Signal, Crash
<1>8. CASE Tick \/ UNCHANGED vars
  BY <1>8 DEF Tick
<1> QED
  BY <1>1, <1>2, <1>3, <1>4, <1>5, <1>6, <1>7, <1>8
  DEF Next, ListenerStep, ScanStep, WorkStep

(* No rename, reclaim, crash or race between listeners loses the file of a *)
(* request or leaves it in two directories.                                *)
THEOREM NoRequestLostAlways == Spec => []NoRequestLost
<1>1. Init => NoRequestLost
  BY DEF Init, NoRequestLost
<1> QED
  BY <1>1, NoRequestLostStep, Inv1Always, PTL DEF Spec

-----------------------------------------------------------------------------
(* What a listener executed or answered is not undone by the others:       *)
(* Progress carries the fact from the execution to the answer and from the *)
(* answer to the archive.                                                  *)
LEMMA Inv3Always == Spec => []Inv3
<1>1. Init => Inv3
  BY DEF Init, Inv3, AnswersAreEarned, Progress
<1>2. Inv1 /\ Inv3 /\ [Next]_vars => Inv3'
  <2> SUFFICES ASSUME Inv1, Inv3, [Next]_vars PROVE Inv3'
    OBVIOUS
  <2> USE DEF Inv1, Inv3, TypeOK, CurIsRequest, Busy, AnswersAreEarned,
          Progress, Goto, dirs, replyDirs, listener, callers, history, clocks,
          vars
  <2>1. ASSUME NEW r \in Requests,
               SendRequest(r) \/ CallerStep(r) \/ CallerDies(r)
        PROVE  Inv3'
    <3>1. CASE SendRequest(r)
      BY <3>1 DEF SendRequest
    <3>2. CASE ClaimResponse(r)
      BY <3>2 DEF ClaimResponse
    <3>3. CASE ReadResponse(r)
      BY <3>3 DEF ReadResponse
    <3>4. CASE Timeout(r) \/ CallerDies(r)
      BY <3>4 DEF Timeout, CallerDies
    <3> QED
      BY <2>1, <3>1, <3>2, <3>3, <3>4 DEF CallerStep
  <2>2. ASSUME NEW l \in Listeners, ReapStaleResponses(l) PROVE Inv3'
    BY <2>2 DEF ReapStaleResponses
  <2>3. ASSUME NEW l \in Listeners, ArchiveResponse(l) PROVE Inv3'
    BY <2>3 DEF ArchiveResponse
  <2>4. ASSUME NEW l \in Listeners, HandleRequest(l) PROVE Inv3'
    <3>1. cur[l] \in Requests
      BY <2>4 DEF HandleRequest
    <3>2. \A r \in Requests : handled[r] > 0 => handled'[r] > 0
      BY <2>4, <3>1, CountedType DEF HandleRequest
    <3>3. handled'[cur[l]] > 0
      BY <2>4, <3>1, CountedType DEF HandleRequest
    <3>4. /\ pc' = [pc EXCEPT ![l] = "reply"]
          /\ UNCHANGED <<cur, answered, replyDirs, processed, callers>>
      BY <2>4 DEF HandleRequest
    <3>5. Progress'
      BY <3>1, <3>2, <3>3, <3>4
    <3>6. AnswersAreEarned'
      BY <3>2, <3>4
    <3> QED
      BY <3>5, <3>6
  <2>5. ASSUME NEW l \in Listeners, SendResponse(l) PROVE Inv3'
    BY <2>5 DEF SendResponse
  <2>6. ASSUME NEW l \in Listeners, MarkProcessed(l) PROVE Inv3'
    BY <2>6 DEF MarkProcessed
  <2>7. ASSUME NEW l \in Listeners,
               \/ Start(l) \/ LoopTop(l) \/ ReapStaleProcessing(l)
               \/ ListRequests(l) \/ NextClaimed(l)
        PROVE  Inv3'
    <3>1. processed' = processed /\ UNCHANGED <<replyDirs, callers, history>>
      BY <2>7 DEF Start, LoopTop, ReapStaleProcessing, ListRequests,
         NextClaimed
    <3>2. \A k \in Listeners : pc'[k] \in {"reply", "close"} =>
                                  pc'[k] = pc[k] /\ cur'[k] = cur[k]
      BY <2>7 DEF Start, LoopTop, ReapStaleProcessing, ListRequests,
         NextClaimed
    <3> QED
      BY <3>1, <3>2
  <2>8. ASSUME NEW l \in Listeners, HandlerFails(l) \/ Signal(l) \/ Crash(l)
        PROVE  Inv3'
    BY <2>8 DEF HandlerFails, Signal, Crash
  <2>9. CASE Tick \/ UNCHANGED vars
    BY <2>9 DEF Tick
  <2> QED
    BY <2>1, <2>2, <2>3, <2>4, <2>5, <2>6, <2>7, <2>8, <2>9
    DEF Next, ListenerStep, ScanStep, WorkStep
<1> QED
  BY <1>1, <1>2, Inv1Always, PTL DEF Spec

(* Every answer, archived request and response file goes back to an        *)
(* execution of that request, and a written response is never lost.        *)
THEOREM AnswersAreEarnedAlways == Spec => []AnswersAreEarned
BY Inv3Always, PTL DEF Inv3

-----------------------------------------------------------------------------
(* The contract.  A file that is in one of the four directories stays in   *)
(* one of them.                                                            *)
LEMMA SentGrows == [Next]_vars => Sent \subseteq Sent'
<1> SUFFICES ASSUME [Next]_vars PROVE Sent \subseteq Sent'
  OBVIOUS
<1> USE DEF Sent, dirs, vars
<1>1. CASE UNCHANGED dirs
  BY <1>1
<1>2. ASSUME NEW r \in Requests, SendRequest(r) PROVE Sent \subseteq Sent'
  BY <1>2 DEF SendRequest
<1>3. ASSUME NEW l \in Listeners,
             \/ ReapStaleProcessing(l) \/ ListRequests(l)
             \/ MarkProcessed(l) \/ HandlerFails(l)
      PROVE  Sent \subseteq Sent'
  BY <1>3 DEF ReapStaleProcessing, ListRequests, MarkProcessed, HandlerFails
<1>4. ASSUME NEW r \in Requests, CallerStep(r) \/ CallerDies(r)
      PROVE  UNCHANGED dirs
  BY <1>4 DEF CallerStep, CallerDies, ClaimResponse, ReadResponse, Timeout
<1>5. ASSUME NEW l \in Listeners,
             \/ Start(l) \/ LoopTop(l) \/ ReapStaleResponses(l)
             \/ ArchiveResponse(l) \/ NextClaimed(l) \/ HandleRequest(l)
             \/ SendResponse(l) \/ Signal(l) \/ Crash(l)
      PROVE  UNCHANGED dirs
  BY <1>5 DEF Start, LoopTop, ReapStaleResponses, ArchiveResponse,
     NextClaimed, HandleRequest, SendResponse, Signal, Crash
<1> QED
  BY <1>1, <1>2, <1>3, <1>4, <1>5
  DEF Next, ListenerStep, ScanStep, WorkStep, Tick

(* A listener that holds a request holds one that was sent.                *)
InHand ==
  \A l \in Listeners : pc[l] \in {"apply", "reply", "close"} => cur[l] \in Sent

(* It takes a file only out of the claimed ones.                           *)
LEMMA InHandStep == Inv1 /\ NoRequestLost /\ InHand /\ [Next]_vars => InHand'
<1> SUFFICES ASSUME Inv1, NoRequestLost, InHand, [Next]_vars PROVE InHand'
  OBVIOUS
<1>1. Sent \subseteq Sent'
  BY SentGrows
<1> DEFINE TakesClaimed ==
             \A l \in Listeners :
               pc'[l] \in {"apply", "reply", "close"}
                 => \/ pc[l] \in {"apply", "reply", "close"}
                       /\ cur'[l] = cur[l]
                    \/ cur'[l] \in inflight
<1>2. TakesClaimed
  <2> USE DEF Inv1, TypeOK, Goto, listener, vars
  <2>1. CASE UNCHANGED <<pc, cur>>
    BY <2>1
  <2>2. ASSUME NEW l \in Listeners,
               \/ Start(l) \/ LoopTop(l) \/ ReapStaleProcessing(l)
               \/ ReapStaleResponses(l) \/ ArchiveResponse(l)
               \/ ListRequests(l) \/ Crash(l)
        PROVE  TakesClaimed
    BY <2>2 DEF Start, LoopTop, ReapStaleProcessing, ReapStaleResponses,
       ArchiveResponse, ListRequests, Crash
  <2>3. ASSUME NEW l \in Listeners, NextClaimed(l) PROVE  TakesClaimed
    BY <2>3 DEF NextClaimed, Oldest
  <2>4. ASSUME NEW l \in Listeners,
               \/ HandleRequest(l) \/ SendResponse(l) \/ MarkProcessed(l)
               \/ HandlerFails(l)
        PROVE  TakesClaimed
    BY <2>4 DEF HandleRequest, SendResponse, MarkProcessed, HandlerFails
  <2>5. ASSUME NEW r \in Requests,
               SendRequest(r) \/ CallerStep(r) \/ CallerDies(r)
        PROVE  UNCHANGED <<pc, cur>>
    BY <2>5 DEF SendRequest, CallerStep, CallerDies, ClaimResponse,
       ReadResponse, Timeout
  <2>6. ASSUME NEW l \in Listeners, Signal(l) PROVE UNCHANGED <<pc, cur>>
    BY <2>6 DEF Signal
  <2> QED
    BY <2>1, <2>2, <2>3, <2>4, <2>5, <2>6
    DEF Next, ListenerStep, ScanStep, WorkStep, Tick
<1> QED
  BY <1>1, <1>2 DEF InHand, Sent

(* A listener never holds a request that was not sent.                     *)
LEMMA InHandAlways == Spec => []InHand
<1>1. Init => InHand
  BY DEF Init, InHand
<1> QED
  BY <1>1, InHandStep, Inv1Always, NoRequestLostAlways, PTL DEF Spec

(* A listener executes, or answers, the request in its hands.              *)
Works(l) ==
  \/ /\ pc[l] = "apply"
     /\ handled' = [handled EXCEPT ![cur[l]] = @ + 1]
     /\ UNCHANGED <<dirs, answered>>
  \/ /\ pc[l] = "reply"
     /\ answered' = answered \union {cur[l]}
     /\ UNCHANGED <<dirs, handled>>

(* A step that moves no request file changes no status.                    *)
LEMMA StatusKept ==
  UNCHANGED dirs => \A r : StatusOf(r)' = StatusOf(r)
BY DEF dirs, StatusOf, Sent

(* Every step of the bus submits, finishes or discards a request, lets a   *)
(* listener work on one, or is invisible to the contract: a reclaim moves a*)
(* file between two directories that both mean "open".                     *)
LEMMA ContractStep ==
  Inv1 /\ NoRequestLost /\ Inv3 /\ InHand /\ [Next]_vars
    => \/ \E r \in Requests : Loose!Submit(r) \/ Loose!Finish(r)
       \/ \E S \in SUBSET Requests : Loose!Discard(S)
       \/ \E l \in Listeners : Works(l)
       \/ UNCHANGED Loose!vars
<1> SUFFICES ASSUME Inv1, NoRequestLost, Inv3, InHand, [Next]_vars
             PROVE  \/ \E r \in Requests : Loose!Submit(r) \/ Loose!Finish(r)
                    \/ \E S \in SUBSET Requests : Loose!Discard(S)
                    \/ \E l \in Listeners : Works(l)
                    \/ UNCHANGED Loose!vars
  OBVIOUS
<1>1. CASE UNCHANGED <<dirs, history>>
  BY <1>1, StatusKept DEF Loose!vars, history
<1>2. ASSUME NEW r \in Requests, SendRequest(r) PROVE Loose!Submit(r)
  <2>1. StatusOf(r) = "new" /\ StatusOf(r)' = "open"
    BY <1>2 DEF SendRequest, StatusOf, Sent
  <2>2. \A s \in Requests \ {r} : StatusOf(s)' = StatusOf(s)
    BY <1>2 DEF SendRequest, StatusOf
  <2>3. UNCHANGED history
    BY <1>2 DEF SendRequest
  <2> QED
    BY <2>1, <2>2, <2>3 DEF Loose!Submit, history
<1>3. ASSUME NEW l \in Listeners, ReapStaleProcessing(l)
      PROVE  UNCHANGED Loose!vars
  <2>1. \A s \in Requests : StatusOf(s)' = StatusOf(s)
    BY <1>3 DEF ReapStaleProcessing, StatusOf
  <2> QED
    BY <1>3, <2>1 DEF ReapStaleProcessing, Loose!vars, history
<1>4. ASSUME NEW l \in Listeners, ListRequests(l)
      PROVE  UNCHANGED Loose!vars \/ \E r \in Requests : Loose!Discard({r})
  <2>1. UNCHANGED history
    BY <1>4 DEF ListRequests
  <2>2. CASE \A s \in Requests : StatusOf(s)' = StatusOf(s)
    BY <2>1, <2>2 DEF Loose!vars, history
  <2>3. ASSUME NEW r \in pending,
               pending' = pending \ {r}, deadletter' = deadletter \union {r},
               UNCHANGED <<inflight, processed>>
        PROVE  Loose!Discard({r})
    <3>1. r \in Requests /\ StatusOf(r) = "open" /\ StatusOf(r)' = "dead"
      BY <2>3 DEF StatusOf, Inv1, TypeOK, NoRequestLost
    <3>2. \A s \in Requests \ {r} : StatusOf(s)' = StatusOf(s)
      BY <2>3 DEF StatusOf
    <3> QED
      BY <2>1, <3>1, <3>2 DEF Loose!Discard, history
  <2>4. \/ \A s \in Requests : StatusOf(s)' = StatusOf(s)
        \/ \E r \in pending :
             /\ pending' = pending \ {r} /\ deadletter' = deadletter \union {r}
             /\ UNCHANGED <<inflight, processed>>
    BY <1>4 DEF ListRequests, Oldest, dirs, StatusOf
  <2> QED
    BY <2>2, <2>3, <2>4 DEF Inv1, TypeOK
<1>5. ASSUME NEW l \in Listeners, MarkProcessed(l)
      PROVE  UNCHANGED Loose!vars \/ \E r \in Requests : Loose!Finish(r)
  <2>1. UNCHANGED history
    BY <1>5 DEF MarkProcessed
  <2>2. PICK r \in Requests : r = cur[l]
    BY <1>5 DEF MarkProcessed, Inv1, CurIsRequest, Busy
  <2>3. CASE r \in inflight
    <3>1. StatusOf(r) = "open" /\ StatusOf(r)' = "done"
      BY <1>5, <2>2, <2>3 DEF MarkProcessed, StatusOf, Inv1, TypeOK,
         NoRequestLost
    <3>2. \A s \in Requests \ {r} : StatusOf(s)' = StatusOf(s)
      BY <1>5, <2>2, <2>3 DEF MarkProcessed, StatusOf
    <3>3. r \in answered
      BY <1>5, <2>2 DEF MarkProcessed, Inv3, Progress
    <3> QED
      BY <2>1, <3>1, <3>2, <3>3 DEF Loose!Finish, history
  <2>4. CASE r \notin inflight
    <3>1. \A s \in Requests : StatusOf(s)' = StatusOf(s)
      BY <1>5, <2>2, <2>4 DEF MarkProcessed, StatusOf
    <3> QED
      BY <2>1, <3>1 DEF Loose!vars, history
  <2> QED
    BY <2>3, <2>4
<1>6. ASSUME NEW l \in Listeners, HandlerFails(l)
      PROVE  UNCHANGED Loose!vars \/ \E r \in Requests : Loose!Discard({r})
  <2>1. UNCHANGED history
    BY <1>6 DEF HandlerFails
  <2>2. PICK r \in Requests : r = cur[l]
    BY <1>6 DEF HandlerFails, Inv1, CurIsRequest, Busy
  <2>3. CASE r \in inflight
    <3>1. StatusOf(r) = "open" /\ StatusOf(r)' = "dead"
      BY <1>6, <2>2, <2>3 DEF HandlerFails, StatusOf, Inv1, TypeOK,
         NoRequestLost
    <3>2. \A s \in Requests \ {r} : StatusOf(s)' = StatusOf(s)
      BY <1>6, <2>2, <2>3 DEF HandlerFails, StatusOf
    <3> QED
      BY <2>1, <3>1, <3>2 DEF Loose!Discard, history
  <2>4. CASE r \notin inflight
    <3>1. \A s \in Requests : StatusOf(s)' = StatusOf(s)
      BY <1>6, <2>2, <2>4 DEF HandlerFails, StatusOf
    <3> QED
      BY <2>1, <3>1 DEF Loose!vars, history
  <2> QED
    BY <2>3, <2>4
<1>7. ASSUME NEW l \in Listeners, HandleRequest(l)
      PROVE  Works(l) \/ UNCHANGED <<dirs, history>>
  <2>1. handled[cur[l]] \in 0..MaxRuns /\ handled \in [Requests -> 0..MaxRuns]
        /\ cur[l] \in Requests
    BY <1>7 DEF HandleRequest, Inv1, TypeOK, CurIsRequest, Busy
  <2> QED
    BY <1>7, <2>1, BusAssumption
    DEF HandleRequest, Works, history, Counted
<1>8. ASSUME NEW l \in Listeners, SendResponse(l) PROVE Works(l)
  BY <1>8 DEF SendResponse, Works
<1>9. ASSUME NEW r \in Requests, CallerStep(r) \/ CallerDies(r)
      PROVE  UNCHANGED <<dirs, history>>
  BY <1>9 DEF CallerStep, CallerDies, ClaimResponse, ReadResponse, Timeout
<1>10. ASSUME NEW l \in Listeners,
              \/ Start(l) \/ LoopTop(l) \/ ReapStaleResponses(l)
              \/ ArchiveResponse(l) \/ NextClaimed(l) \/ Signal(l) \/ Crash(l)
       PROVE  UNCHANGED <<dirs, history>>
  BY <1>10 DEF Start, LoopTop, ReapStaleResponses, ArchiveResponse,
     NextClaimed, Signal, Crash
<1>11. CASE Tick \/ UNCHANGED vars
  BY <1>1, <1>11 DEF Tick, vars
<1> QED
  BY <1>1, <1>2, <1>3, <1>4, <1>5, <1>6, <1>7, <1>8, <1>9, <1>10, <1>11
  DEF Next, ListenerStep, ScanStep, WorkStep

(* The bus implements the loose contract, whatever the listeners, their    *)
(* reclaims and their crashes do: a request is answered only after it was  *)
(* run, and its final state, done or dead, never changes.                  *)
THEOREM LooseContractKept == Spec => KeepsLooseContract
<1>1. Init => Loose!Init
  BY DEF Init, Loose!Init, StatusOf
<1>2. Inv1 /\ NoRequestLost /\ Inv3 /\ InHand /\ [Next]_vars
        => [Loose!Next]_Loose!vars
  <2> SUFFICES ASSUME Inv1, NoRequestLost, Inv3, InHand, [Next]_vars
               PROVE  [Loose!Next]_Loose!vars
    OBVIOUS
  <2>1. ASSUME NEW l \in Listeners, Works(l)
        PROVE  \E r \in Requests : Loose!Run(r) \/ Loose!Answer(r)
    <3>1. PICK r \in Requests : r = cur[l]
      BY <2>1 DEF Works, Inv1, CurIsRequest, Busy
    <3>2. StatusOf(r) \in {"open", "done", "dead"}
      BY <2>1, <3>1 DEF Works, InHand, Sent, StatusOf
    <3>3. UNCHANGED [s \in Requests |-> StatusOf(s)]
      BY <2>1, StatusKept DEF Works
    <3>4. CASE pc[l] = "apply"
      BY <2>1, <3>1, <3>2, <3>3, <3>4
      DEF Works, Loose!Run, Loose!Workable, Loose!Final
    <3>5. CASE pc[l] = "reply"
      BY <2>1, <3>1, <3>2, <3>3, <3>5
      DEF Works, Loose!Answer, Loose!Workable, Loose!Final, Inv3, Progress
    <3> QED
      BY <2>1, <3>4, <3>5 DEF Works
  <2> QED
    BY <2>1, ContractStep DEF Loose!Next
<1> QED
  BY <1>1, <1>2, Inv1Always, NoRequestLostAlways, Inv3Always, InHandAlways,
     PTL DEF Spec, KeepsLooseContract, Loose!Spec

-----------------------------------------------------------------------------
(* One listener.  NotYetRun says that a request still in the queue, and    *)
(* not in the hands of a listener that has just executed it, has been      *)
(* executed at most once per outage; only an outage can separate the       *)
(* execution from the archiving, because the listener reclaims stale files *)
(* only when it holds none (HoldsNothing).                                 *)
SingleListener == \A k, l \in Listeners : k = l

HasRun(r) == \E l \in Listeners : pc[l] \in {"reply", "close"} /\ cur[l] = r

NotYetRun ==
  \A r \in Requests :
    /\ r \in pending \union inflight /\ ~HasRun(r) => handled[r] <= outages
    /\ r \notin Sent => handled[r] = 0

HoldsNothing ==
  \A l \in Listeners :
    pc[l] \in {"down", "ready", "reap", "reapReplies", "archive"}
      => batch[l] = {}

Inv4 == NoRequestLost /\ ClaimIsHeld /\ HoldsNothing /\ NotYetRun
        /\ RunsBoundedByOutages

(* With one listener, a request is executed at most once plus once per     *)
(* outage, and what the listener has claimed stays claimed.                *)
THEOREM OneListenerRuns ==
  SingleListener => (Spec => [](RunsBoundedByOutages /\ ClaimIsHeld))
<1> SUFFICES ASSUME SingleListener
             PROVE  Spec => [](RunsBoundedByOutages /\ ClaimIsHeld)
  OBVIOUS
<1>1. Init => Inv4
  BY DEF Init, Inv4, NoRequestLost, ClaimIsHeld, HoldsNothing, NotYetRun,
     RunsBoundedByOutages, Sent, HasRun
<1>2. Inv1 /\ Inv4 /\ [Next]_vars => Inv4'
  <2> SUFFICES ASSUME Inv1, Inv4, [Next]_vars PROVE Inv4'
    OBVIOUS
  <2>0. NoRequestLost'
    BY NoRequestLostStep DEF Inv4
  <2> USE <2>0 DEF Inv1, Inv4, TypeOK, CurIsRequest, Busy, ClaimIsHeld,
          HoldsNothing, NotYetRun, HasRun, RunsBoundedByOutages, Sent,
          SingleListener, Goto, dirs, replyDirs, listener, callers, history,
          clocks, vars
  <2>1. ASSUME NEW r \in Requests, SendRequest(r) PROVE Inv4'
    BY <2>1 DEF SendRequest
  <2>2. ASSUME NEW r \in Requests, CallerStep(r) \/ CallerDies(r)
        PROVE  Inv4'
    BY <2>2 DEF CallerStep, CallerDies, ClaimResponse, ReadResponse, Timeout
  <2>3. ASSUME NEW l \in Listeners, ReapStaleProcessing(l) PROVE Inv4'
    BY <2>3 DEF ReapStaleProcessing
  <2>4. ASSUME NEW l \in Listeners, ListRequests(l) PROVE Inv4'
    BY <2>4 DEF ListRequests, Oldest, NoRequestLost
  <2>5. ASSUME NEW l \in Listeners, NextClaimed(l) PROVE Inv4'
    BY <2>5 DEF NextClaimed, Oldest
  <2>6. ASSUME NEW l \in Listeners, HandleRequest(l) PROVE Inv4'
    BY <2>6, CountedType DEF HandleRequest
  <2>7. ASSUME NEW l \in Listeners, MarkProcessed(l) PROVE Inv4'
    BY <2>7 DEF MarkProcessed, NoRequestLost
  <2>8. ASSUME NEW l \in Listeners, HandlerFails(l) PROVE Inv4'
    BY <2>8 DEF HandlerFails, NoRequestLost
  <2>9. ASSUME NEW l \in Listeners, Crash(l) PROVE Inv4'
    BY <2>9 DEF Crash
  <2>10. ASSUME NEW l \in Listeners,
                \/ Start(l) \/ LoopTop(l) \/ ReapStaleResponses(l)
                \/ ArchiveResponse(l)
         PROVE  Inv4'
    BY <2>10 DEF Start, LoopTop, ReapStaleResponses, ArchiveResponse
  <2>11. ASSUME NEW l \in Listeners, SendResponse(l) \/ Signal(l) PROVE Inv4'
    BY <2>11 DEF SendResponse, Signal
  <2>12. CASE Tick \/ UNCHANGED vars
    BY <2>12 DEF Tick
  <2> QED
    BY <2>1, <2>2, <2>3, <2>4, <2>5, <2>6, <2>7, <2>8, <2>9, <2>10, <2>11,
       <2>12 DEF Next, ListenerStep, ScanStep, WorkStep
<1> QED
  BY <1>1, <1>2, Inv1Always, PTL DEF Spec, Inv4

(* So no reclaim takes a claimed request away from the one listener while  *)
(* it works on it.                                                         *)
THEOREM OneListenerHolds == SingleListener => (Spec => []ClaimIsHeld)
BY OneListenerRuns, PTL

(* The bus implements the exclusive contract with one listener: no request *)
(* is run or answered again once it is done or dead.                       *)
THEOREM StrictContractKept == SingleListener => (Spec => KeepsStrictContract)
<1> SUFFICES ASSUME SingleListener PROVE Spec => KeepsStrictContract
  OBVIOUS
<1>1. Init => Strict!Init
  BY DEF Init, Strict!Init, StatusOf
<1>2. Inv1 /\ NoRequestLost /\ Inv3 /\ InHand /\ ClaimIsHeld /\ [Next]_vars
        => [Strict!Next]_Strict!vars
  <2> SUFFICES ASSUME Inv1, NoRequestLost, Inv3, InHand, ClaimIsHeld,
                      [Next]_vars
               PROVE  [Strict!Next]_Strict!vars
    OBVIOUS
  <2>1. ASSUME NEW l \in Listeners, Works(l)
        PROVE  \E r \in Requests : Strict!Run(r) \/ Strict!Answer(r)
    <3>1. PICK r \in Requests : r = cur[l]
      BY <2>1 DEF Works, Inv1, CurIsRequest, Busy
    <3>2. StatusOf(r) = "open"
      BY <2>1, <3>1 DEF Works, ClaimIsHeld, NoRequestLost, StatusOf
    <3>3. UNCHANGED [s \in Requests |-> StatusOf(s)]
      BY <2>1, StatusKept DEF Works
    <3>4. CASE pc[l] = "apply"
      BY <2>1, <3>1, <3>2, <3>3, <3>4 DEF Works, Strict!Run, Strict!Workable
    <3>5. CASE pc[l] = "reply"
      BY <2>1, <3>1, <3>2, <3>3, <3>5
      DEF Works, Strict!Answer, Strict!Workable, Inv3, Progress
    <3> QED
      BY <2>1, <3>4, <3>5 DEF Works
  <2>2. ASSUME NEW r \in Requests, Loose!Submit(r) \/ Loose!Finish(r)
        PROVE  Strict!Submit(r) \/ Strict!Finish(r)
    BY <2>2 DEF Loose!Submit, Loose!Finish, Strict!Submit, Strict!Finish
  <2>3. ASSUME NEW S \in SUBSET Requests, Loose!Discard(S)
        PROVE  Strict!Discard(S)
    BY <2>3 DEF Loose!Discard, Strict!Discard
  <2>4. UNCHANGED Loose!vars => UNCHANGED Strict!vars
    BY DEF Loose!vars, Strict!vars
  <2> QED
    BY <2>1, <2>2, <2>3, <2>4, ContractStep DEF Strict!Next
<1>3. Spec => []ClaimIsHeld
  BY OneListenerRuns, PTL
<1> QED
  BY <1>1, <1>2, <1>3, Inv1Always, NoRequestLostAlways, Inv3Always,
     InHandAlways, PTL DEF Spec, KeepsStrictContract, Strict!Spec

(* Without outages an answered request is archived, or about to be.        *)
AnsweredIsClosing ==
  outages = 0 =>
    \A r \in answered :
      r \in processed \/ \E l \in Listeners : pc[l] = "close" /\ cur[l] = r

(* With one listener that never fails in between, a request that ends in   *)
(* the dead-letter directory was never answered.                           *)
THEOREM OneListenerDeadLetters ==
  SingleListener => (Spec => []DeadLetterIsUnanswered)
<1> SUFFICES ASSUME SingleListener PROVE Spec => []DeadLetterIsUnanswered
  OBVIOUS
<1>1. Init => AnsweredIsClosing
  BY DEF Init, AnsweredIsClosing
<1>2. Inv1 /\ NoRequestLost /\ ClaimIsHeld /\ AnsweredIsClosing /\ [Next]_vars
        => AnsweredIsClosing'
  <2> SUFFICES ASSUME Inv1, NoRequestLost, ClaimIsHeld, AnsweredIsClosing,
                      [Next]_vars, outages' = 0
               PROVE  AnsweredIsClosing'
    BY DEF AnsweredIsClosing
  <2> USE DEF Inv1, TypeOK, AnsweredIsClosing, Goto, dirs, replyDirs, listener,
          callers, history, clocks, vars
  <2>1. CASE UNCHANGED <<processed, answered, pc, cur, outages>>
    BY <2>1
  <2>2. ASSUME NEW r \in Requests,
               SendRequest(r) \/ CallerStep(r) \/ CallerDies(r)
        PROVE  UNCHANGED <<processed, answered, pc, cur, outages>>
    BY <2>2 DEF SendRequest, CallerStep, CallerDies, ClaimResponse,
       ReadResponse, Timeout
  <2>3. ASSUME NEW l \in Listeners,
               \/ Start(l) \/ LoopTop(l) \/ ReapStaleProcessing(l)
               \/ ReapStaleResponses(l) \/ ArchiveResponse(l)
               \/ ListRequests(l) \/ NextClaimed(l) \/ HandleRequest(l)
               \/ HandlerFails(l)
        PROVE  AnsweredIsClosing'
    <3>1. UNCHANGED <<processed, answered, outages>>
      BY <2>3 DEF Start, LoopTop, ReapStaleProcessing, ReapStaleResponses,
         ArchiveResponse, ListRequests, NextClaimed, HandleRequest,
         HandlerFails
    <3>2. \A k \in Listeners : pc[k] = "close" =>
             pc'[k] = pc[k] /\ cur'[k] = cur[k]
      BY <2>3 DEF Start, LoopTop, ReapStaleProcessing, ReapStaleResponses,
         ArchiveResponse, ListRequests, NextClaimed, HandleRequest,
         HandlerFails
    <3> QED
      BY <3>1, <3>2
  <2>4. ASSUME NEW l \in Listeners, SendResponse(l) PROVE AnsweredIsClosing'
    BY <2>4 DEF SendResponse, SingleListener
  <2>5. ASSUME NEW l \in Listeners, MarkProcessed(l) PROVE AnsweredIsClosing'
    BY <2>5 DEF MarkProcessed, ClaimIsHeld, SingleListener
  <2>6. ASSUME NEW l \in Listeners, Signal(l) \/ Crash(l)
        PROVE  outages' # 0
    BY <2>6 DEF Signal, Crash
  <2>7. CASE Tick \/ UNCHANGED vars
    BY <2>7 DEF Tick
  <2> QED
    BY <2>1, <2>2, <2>3, <2>4, <2>5, <2>6, <2>7
    DEF Next, ListenerStep, ScanStep, WorkStep
<1>3. NoRequestLost /\ ClaimIsHeld /\ AnsweredIsClosing
        => DeadLetterIsUnanswered
  BY DEF NoRequestLost, ClaimIsHeld, AnsweredIsClosing, DeadLetterIsUnanswered
<1>4. Spec => []ClaimIsHeld
  BY OneListenerRuns, PTL
<1> QED
  BY <1>1, <1>2, <1>3, <1>4, Inv1Always, NoRequestLostAlways, PTL DEF Spec
-----------------------------------------------------------------------------
(* How long a response stays.  The two clocks of a response that is        *)
(* awaited run against each other: what its file has aged, its caller has  *)
(* waited.                                                                 *)
AnsweredIsSent == answered \subseteq Sent

FreshWhileAwaited ==
  \A r \in Requests :
    /\ patience[r] <= WaitTicks
    /\ caller[r] = "waiting" /\ patience[r] > 0 /\ r \in replies
         => replyAge[r] + patience[r] <= WaitTicks

Inv5 == AnsweredIsSent /\ FreshWhileAwaited

(* When no caller waits longer than a response may lie around, no reaper   *)
(* of any listener takes a response away from a caller that still waits.   *)
THEOREM AnswerWaits ==
  WaitTicks <= ResponseTTL => (Spec => AnswerWaitsForCaller)
<1> SUFFICES ASSUME WaitTicks <= ResponseTTL
             PROVE  Spec => AnswerWaitsForCaller
  OBVIOUS
<1>1. Init => Inv5
  BY BusAssumption DEF Init, Inv5, AnsweredIsSent, FreshWhileAwaited
<1>2. Inv1 /\ Inv3 /\ InHand /\ Inv5 /\ [Next]_vars => Inv5'
  <2> SUFFICES ASSUME Inv1, Inv3, InHand, Inv5, [Next]_vars PROVE Inv5'
    OBVIOUS
  <2>1. AnsweredIsSent'
    <3>1. Sent \subseteq Sent'
      BY SentGrows
    <3>2. answered' = answered \/ \E l \in Listeners : SendResponse(l)
      BY DEF Next, ListenerStep, ScanStep, WorkStep, CallerStep, CallerDies,
         ClaimResponse, ReadResponse, Timeout, SendRequest, Start, LoopTop,
         ReapStaleProcessing, ReapStaleResponses, ArchiveResponse,
         ListRequests, NextClaimed, HandleRequest, MarkProcessed,
         HandlerFails, Signal, Crash, Tick, history, vars
    <3> QED
      BY <3>1, <3>2 DEF SendResponse, InHand, Inv5, AnsweredIsSent
  <2>2. FreshWhileAwaited'
    <3> USE BusAssumption DEF Inv1, TypeOK, Inv5, FreshWhileAwaited
    <3>1. ASSUME NEW r \in Requests, SendRequest(r) PROVE FreshWhileAwaited'
      BY <3>1 DEF SendRequest, replyDirs, callers, Inv3, AnswersAreEarned,
         AnsweredIsSent
    <3>2. ASSUME NEW r \in Requests, CallerStep(r) \/ CallerDies(r)
          PROVE  FreshWhileAwaited'
      BY <3>2 DEF CallerStep, CallerDies, ClaimResponse, ReadResponse, Timeout,
         replyDirs, clocks
    <3>3. CASE Tick
      <4>1. ASSUME NEW r \in Requests
            PROVE  /\ patience'[r] \in Nat /\ replyAge'[r] \in Nat
                   /\ patience'[r] <= WaitTicks
                   /\ patience'[r] > 0 => patience'[r] = patience[r] - 1
                   /\ replyAge'[r] <= replyAge[r] + 1
        BY <3>3 DEF Tick, Older
      <4> QED
        BY <3>3, <4>1 DEF Tick, replyDirs
    <3>4. ASSUME NEW l \in Listeners, SendResponse(l) PROVE FreshWhileAwaited'
      BY <3>4 DEF SendResponse, callers
    <3>5. ASSUME NEW l \in Listeners, ReapStaleResponses(l)
          PROVE  FreshWhileAwaited'
      BY <3>5 DEF ReapStaleResponses, callers
    <3>6. ASSUME UNCHANGED <<callers, replies, replyAge>>
          PROVE  FreshWhileAwaited'
      BY <3>6 DEF callers
    <3>7. ASSUME NEW l \in Listeners,
                 \/ Start(l) \/ LoopTop(l) \/ ReapStaleProcessing(l)
                 \/ ArchiveResponse(l) \/ ListRequests(l) \/ NextClaimed(l)
                 \/ HandleRequest(l) \/ MarkProcessed(l) \/ HandlerFails(l)
                 \/ Signal(l) \/ Crash(l)
          PROVE  UNCHANGED <<callers, replies, replyAge>>
      BY <3>7 DEF Start, LoopTop, ReapStaleProcessing, ArchiveResponse,
         ListRequests, NextClaimed, HandleRequest, MarkProcessed, HandlerFails,
         Signal, Crash, replyDirs, clocks
    <3>8. UNCHANGED vars => UNCHANGED <<callers, replies, replyAge>>
      BY DEF vars, replyDirs, clocks
    <3> QED
      BY <3>1, <3>2, <3>3, <3>4, <3>5, <3>6, <3>7, <3>8
      DEF Next, ListenerStep, ScanStep, WorkStep
  <2> QED
    BY <2>1, <2>2 DEF Inv5
<1>3. Inv1 /\ Inv5 /\ [Next]_vars
        => \A r \in Requests :
             caller[r] = "waiting" /\ patience[r] > 0 /\ r \in replies
               => r \in replies' \/ caller'[r] \in {"reading", "dead"}
  <2> SUFFICES ASSUME Inv1, Inv5, [Next]_vars, NEW r \in Requests,
                      caller[r] = "waiting", patience[r] > 0, r \in replies,
                      r \notin replies'
               PROVE  caller'[r] = "reading"
    OBVIOUS
  <2>1. replyAge[r] <= ResponseTTL
    BY BusAssumption DEF Inv1, TypeOK, Inv5, FreshWhileAwaited
  <2>2. \/ ClaimResponse(r)
        \/ \E s \in Requests : ClaimResponse(s)
        \/ \E l \in Listeners : ReapStaleResponses(l)
    BY DEF Next, ListenerStep, ScanStep, WorkStep, CallerStep, CallerDies,
       ReadResponse, Timeout, SendRequest, Start, LoopTop,
       ReapStaleProcessing, ArchiveResponse, ListRequests, NextClaimed,
       HandleRequest, SendResponse, MarkProcessed, HandlerFails, Signal, Crash,
       Tick, replyDirs, vars
  <2> QED
    BY <2>1, <2>2, BusAssumption
    DEF ClaimResponse, ReapStaleResponses, Inv1, TypeOK
<1> QED
  BY <1>1, <1>2, <1>3, Inv1Always, Inv3Always, InHandAlways,
     PTL DEF Spec, AnswerWaitsForCaller

-----------------------------------------------------------------------------
(* Executions with any number of listeners.  A history variable counts how *)
(* often the claim of each request was taken back.                         *)
VARIABLE reclaims

CountReclaims ==
  reclaims' = [r \in Requests |->
    IF r \in inflight /\ r \in pending' THEN reclaims[r] + 1 ELSE reclaims[r]]

CountedSpec ==
  /\ Spec
  /\ reclaims = [r \in Requests |-> 0] /\ [][CountReclaims]_<<vars, reclaims>>

(* A request is executed at most once, and once more for each time its     *)
(* claim was taken back: a listener that lost its claim may still be at    *)
(* work on it.                                                             *)
RunsBoundedByReclaims == \A r \in Requests : handled[r] <= 1 + reclaims[r]

(* A request can still be executed by every listener that has it in its    *)
(* batch or is about to execute it, and once more while its file waits to  *)
(* be claimed.                                                             *)
Holders(r) ==
  {l \in Listeners : r \in batch[l] \/ (pc[l] = "apply" /\ cur[l] = r)}

Unclaimed(r) == IF r \in pending \/ r \notin Sent THEN 1 ELSE 0

HoldsOnce ==
  \A l \in Listeners :
    /\ pc[l] \notin {"scan", "work", "apply", "reply", "close"}
         => batch[l] = {}
    /\ pc[l] = "scan" => todo[l] \intersect batch[l] = {}
    /\ pc[l] = "apply" => cur[l] \notin batch[l]

RunsLeft(r) ==
  /\ IsFiniteSet(Holders(r))
  /\ handled[r] + Cardinality(Holders(r)) + Unclaimed(r) <= 1 + reclaims[r]

Inv6 ==
  /\ reclaims \in [Requests -> Nat]
  /\ HoldsOnce
  /\ \A r \in Requests : RunsLeft(r)

(* An archived or dead-lettered request stays where it is.                 *)
LEMMA FinalGrows ==
  [Next]_vars => processed \subseteq processed' /\ deadletter \subseteq deadletter'
<1> SUFFICES ASSUME [Next]_vars
             PROVE  /\ processed \subseteq processed'
                    /\ deadletter \subseteq deadletter'
  OBVIOUS
<1>1. ASSUME NEW r \in Requests,
             SendRequest(r) \/ CallerStep(r) \/ CallerDies(r)
      PROVE  UNCHANGED <<processed, deadletter>>
  BY <1>1 DEF SendRequest, CallerStep, CallerDies, ClaimResponse,
     ReadResponse, Timeout, dirs
<1>2. ASSUME NEW l \in Listeners,
             \/ Start(l) \/ LoopTop(l) \/ ReapStaleProcessing(l)
             \/ ReapStaleResponses(l) \/ ArchiveResponse(l) \/ NextClaimed(l)
             \/ HandleRequest(l) \/ SendResponse(l) \/ Signal(l) \/ Crash(l)
      PROVE  UNCHANGED <<processed, deadletter>>
  BY <1>2 DEF Start, LoopTop, ReapStaleProcessing, ReapStaleResponses,
     ArchiveResponse, NextClaimed, HandleRequest, SendResponse, Signal, Crash,
     dirs
<1>3. ASSUME NEW l \in Listeners,
             ListRequests(l) \/ MarkProcessed(l) \/ HandlerFails(l)
      PROVE  /\ processed \subseteq processed'
             /\ deadletter \subseteq deadletter'
  BY <1>3 DEF ListRequests, MarkProcessed, HandlerFails, dirs
<1>4. CASE Tick \/ UNCHANGED vars
  BY <1>4 DEF Tick, vars, dirs
<1> QED
  BY <1>1, <1>2, <1>3, <1>4 DEF Next, ListenerStep, ScanStep, WorkStep

(* A file returns to the queue only by a reclaim, and that is counted.     *)
LEMMA UnclaimedStep ==
  ASSUME NoRequestLost, NoRequestLost', [Next]_vars, CountReclaims,
         reclaims \in [Requests -> Nat], NEW r \in Requests
  PROVE  /\ reclaims'[r] \in Nat
         /\ Unclaimed(r)' + reclaims[r] <= Unclaimed(r) + reclaims'[r]
<1>1. /\ reclaims[r] \in Nat
      /\ r \in inflight /\ r \in pending' => reclaims'[r] = reclaims[r] + 1
      /\ ~(r \in inflight /\ r \in pending') => reclaims'[r] = reclaims[r]
  BY DEF CountReclaims
<1>2. Sent \subseteq Sent'
  BY SentGrows
<1>3. r \in pending' /\ r \notin inflight => r \in pending \/ r \notin Sent
  BY FinalGrows DEF NoRequestLost, Sent
<1>4. CASE r \in pending' /\ r \in inflight
  BY <1>1, <1>4 DEF Unclaimed
<1>5. CASE ~(r \in pending' /\ r \in inflight)
  <2>1. Unclaimed(r)' = 1 => Unclaimed(r) = 1
    BY <1>2, <1>3, <1>5 DEF Unclaimed
  <2> QED
    BY <1>1, <1>5, <2>1 DEF Unclaimed
<1> QED
  BY <1>4, <1>5

(* A step that gives r to nobody and executes nothing keeps the bound.     *)
LEMMA FewerHolders ==
  ASSUME Inv1, Inv6, NoRequestLost, NoRequestLost', [Next]_vars,
         CountReclaims, NEW r \in Requests,
         Holders(r)' \subseteq Holders(r), handled'[r] = handled[r]
  PROVE  RunsLeft(r)'
<1>1. /\ IsFiniteSet(Holders(r)')
      /\ Cardinality(Holders(r)') <= Cardinality(Holders(r))
      /\ Cardinality(Holders(r)') \in Nat /\ Cardinality(Holders(r)) \in Nat
  BY FS_Subset, FS_CardinalityType DEF Inv6, RunsLeft
<1>2. Unclaimed(r) \in Nat /\ Unclaimed(r)' \in Nat
  BY DEF Unclaimed
<1>3. handled[r] \in Nat /\ reclaims[r] \in Nat
  BY BusAssumption DEF Inv1, TypeOK, Inv6
<1>4. /\ reclaims'[r] \in Nat
      /\ Unclaimed(r)' + reclaims[r] <= Unclaimed(r) + reclaims'[r]
  BY UnclaimedStep DEF Inv6
<1>5. handled[r] + Cardinality(Holders(r)) + Unclaimed(r) <= 1 + reclaims[r]
  BY DEF Inv6, RunsLeft
<1> QED
  BY <1>1, <1>2, <1>3, <1>4, <1>5 DEF RunsLeft

(* A claim gives a waiting request to one listener that did not hold it.   *)
LEMMA ClaimKeepsBound ==
  ASSUME Inv1, Inv6, NoRequestLost, NoRequestLost', [Next]_vars,
         CountReclaims, NEW r \in Requests,
         NEW l \in Listeners, ListRequests(l)
  PROVE  RunsLeft(r)'
<1> USE DEF Inv1, TypeOK, Goto
<1>1. handled'[r] = handled[r]
  BY DEF ListRequests, history
<1>2. CASE batch'[l] \subseteq batch[l] \/ r \notin batch'[l]
  <2>1. Holders(r)' \subseteq Holders(r)
    BY <1>2 DEF ListRequests, Holders
  <2> QED
    BY <1>1, <2>1, FewerHolders
<1>3. CASE ~(batch'[l] \subseteq batch[l]) /\ r \in batch'[l]
  <2>1. PICK s \in Oldest(todo[l]) :
          /\ s \in pending /\ batch' = [batch EXCEPT ![l] = @ \union {s}]
          /\ pending' = pending \ {s} /\ inflight' = inflight \union {s}
          /\ pc[l] = "scan" /\ UNCHANGED <<pc, cur>>
    BY <1>3 DEF ListRequests
  <2>2. CASE r # s
    <3>1. Holders(r)' \subseteq Holders(r)
      BY <2>1, <2>2 DEF Holders
    <3> QED
      BY <1>1, <3>1, FewerHolders
  <2>3. CASE r = s
    <3>1. Holders(r)' = Holders(r) \union {l} /\ l \notin Holders(r)
      BY <2>1, <2>3 DEF Holders, Inv6, HoldsOnce, Oldest
    <3>2. IsFiniteSet(Holders(r)) /\ Cardinality(Holders(r)) \in Nat
      BY FS_CardinalityType DEF Inv6, RunsLeft
    <3>3. /\ Cardinality(Holders(r) \union {l}) = Cardinality(Holders(r)) + 1
          /\ IsFiniteSet(Holders(r) \union {l})
      BY ZenonT(40), <3>1, <3>2, FS_AddElement
    <3>4. Unclaimed(r) = 1 /\ Unclaimed(r)' = 0
      BY <2>1, <2>3 DEF Unclaimed, Sent
    <3>5. reclaims'[r] = reclaims[r] /\ reclaims[r] \in Nat
          /\ handled[r] \in Nat
      BY <2>1, <2>3, BusAssumption DEF CountReclaims, Inv6
    <3>6. handled[r] + Cardinality(Holders(r)) + Unclaimed(r)
            <= 1 + reclaims[r]
      BY DEF Inv6, RunsLeft
    <3> QED
      BY <1>1, <3>1, <3>2, <3>3, <3>4, <3>5, <3>6 DEF RunsLeft
  <2> QED
    BY <2>2, <2>3
<1> QED
  BY <1>2, <1>3

(* An execution uses up the hold of the listener that does it.             *)
LEMMA RunKeepsBound ==
  ASSUME Inv1, Inv6, NoRequestLost, NoRequestLost', [Next]_vars,
         CountReclaims, NEW r \in Requests,
         NEW l \in Listeners, HandleRequest(l)
  PROVE  RunsLeft(r)'
<1> USE DEF Inv1, TypeOK, Goto
<1>1. CASE r # cur[l]
  <2>1. Holders(r)' \subseteq Holders(r) /\ handled'[r] = handled[r]
    BY <1>1 DEF HandleRequest, Holders
  <2> QED
    BY <2>1, FewerHolders
<1>2. CASE r = cur[l]
  <2>1. l \in Holders(r) /\ Holders(r)' = Holders(r) \ {l}
    BY <1>2 DEF HandleRequest, Holders, Inv6, HoldsOnce
  <2>2. IsFiniteSet(Holders(r))
    BY DEF Inv6, RunsLeft
  <2>3. /\ IsFiniteSet(Holders(r)')
        /\ Cardinality(Holders(r)') = Cardinality(Holders(r)) - 1
        /\ Cardinality(Holders(r)) \in Nat /\ Cardinality(Holders(r)') \in Nat
    BY <2>1, <2>2, FS_RemoveElement, FS_CardinalityType
  <2>4. /\ handled[r] \in Nat /\ reclaims[r] \in Nat /\ handled'[r] \in Nat
        /\ handled'[r] <= handled[r] + 1
    BY <1>2, CountedType, BusAssumption DEF HandleRequest, Inv6
  <2>5. /\ reclaims'[r] \in Nat
        /\ Unclaimed(r)' + reclaims[r] <= Unclaimed(r) + reclaims'[r]
    BY UnclaimedStep DEF Inv6
  <2>6. Unclaimed(r) \in Nat /\ Unclaimed(r)' \in Nat
    BY DEF Unclaimed
  <2>7. handled[r] + Cardinality(Holders(r)) + Unclaimed(r) <= 1 + reclaims[r]
    BY DEF Inv6, RunsLeft
  <2> QED
    BY <2>3, <2>4, <2>5, <2>6, <2>7 DEF RunsLeft
<1> QED
  BY <1>1, <1>2

(* The scan of a listener and its batch stay apart: no listener claims a   *)
(* request that it already has.                                            *)
LEMMA HoldsOnceStep == Inv1 /\ HoldsOnce /\ [Next]_vars => HoldsOnce'
<1> SUFFICES ASSUME Inv1, HoldsOnce, [Next]_vars PROVE HoldsOnce'
  OBVIOUS
<1> USE DEF Inv1, TypeOK, HoldsOnce, Goto, listener, vars
<1>1. ASSUME UNCHANGED listener PROVE HoldsOnce'
  BY <1>1
<1>2. ASSUME NEW r \in Requests,
             SendRequest(r) \/ CallerStep(r) \/ CallerDies(r)
      PROVE  UNCHANGED listener
  BY <1>2 DEF SendRequest, CallerStep, CallerDies, ClaimResponse,
     ReadResponse, Timeout
<1>3. ASSUME NEW l \in Listeners, Start(l) \/ LoopTop(l) \/ Crash(l)
      PROVE  HoldsOnce'
  BY <1>3 DEF Start, LoopTop, Crash
<1>4. ASSUME NEW l \in Listeners,
             \/ ReapStaleProcessing(l) \/ ReapStaleResponses(l)
             \/ ArchiveResponse(l)
      PROVE  HoldsOnce'
  BY <1>4 DEF ReapStaleProcessing, ReapStaleResponses, ArchiveResponse
<1>5. ASSUME NEW l \in Listeners, ListRequests(l) PROVE HoldsOnce'
  BY <1>5 DEF ListRequests, Oldest
<1>6. ASSUME NEW l \in Listeners, NextClaimed(l) PROVE HoldsOnce'
  BY <1>6 DEF NextClaimed, Oldest
<1>7. ASSUME NEW l \in Listeners,
             \/ HandleRequest(l) \/ SendResponse(l) \/ MarkProcessed(l)
             \/ HandlerFails(l) \/ Signal(l)
      PROVE  HoldsOnce'
  BY <1>7 DEF HandleRequest, SendResponse, MarkProcessed, HandlerFails, Signal
<1>8. Tick \/ UNCHANGED vars => UNCHANGED listener
  BY DEF Tick
<1> QED
  BY <1>1, <1>2, <1>3, <1>4, <1>5, <1>6, <1>7, <1>8
  DEF Next, ListenerStep, ScanStep, WorkStep

(* For any number of listeners, crashes included, a request is executed at *)
(* most once, plus once for each time a stale claim on it was renamed back *)
(* into the queue.                                                         *)
THEOREM RunsBounded == CountedSpec => []RunsBoundedByReclaims
<1>1. Init /\ reclaims = [r \in Requests |-> 0] => Inv6
  <2> SUFFICES ASSUME Init, reclaims = [r \in Requests |-> 0] PROVE Inv6
    OBVIOUS
  <2>1. HoldsOnce /\ reclaims \in [Requests -> Nat]
    BY DEF Init, HoldsOnce
  <2>2. ASSUME NEW r \in Requests PROVE RunsLeft(r)
    <3>1. Holders(r) = {}
      BY DEF Init, Holders
    <3>2. Unclaimed(r) = 1 /\ handled[r] = 0 /\ reclaims[r] = 0
      BY DEF Init, Unclaimed, Sent
    <3> QED
      BY <3>1, <3>2, FS_EmptySet DEF RunsLeft
  <2> QED
    BY <2>1, <2>2 DEF Inv6
<1>2. Inv1 /\ NoRequestLost /\ NoRequestLost' /\ Inv6 /\ [Next]_vars
        /\ [CountReclaims]_<<vars, reclaims>> => Inv6'
  <2> SUFFICES ASSUME Inv1, NoRequestLost, NoRequestLost', Inv6, [Next]_vars,
                      [CountReclaims]_<<vars, reclaims>>
               PROVE  Inv6'
    OBVIOUS
  <2>1. CASE UNCHANGED <<vars, reclaims>>
    BY <2>1 DEF Inv6, HoldsOnce, RunsLeft, Holders, Unclaimed, Sent, vars,
       dirs, listener, history
  <2>2. CASE CountReclaims
    <3>1. reclaims' \in [Requests -> Nat]
      BY <2>2 DEF Inv6, CountReclaims
    <3>2. HoldsOnce'
      BY HoldsOnceStep DEF Inv6
    <3>3. ASSUME NEW r \in Requests PROVE RunsLeft(r)'
      <4>0. ASSUME Holders(r)' \subseteq Holders(r), handled'[r] = handled[r]
            PROVE  RunsLeft(r)'
        BY <2>2, <4>0, FewerHolders
      <4>1. ASSUME NEW l \in Listeners, ListRequests(l) \/ HandleRequest(l)
            PROVE  RunsLeft(r)'
        BY <2>2, <4>1, ClaimKeepsBound, RunKeepsBound
      <4> USE DEF Inv1, TypeOK, CurIsRequest, Goto, Holders, listener,
              history, vars
      <4>2. ASSUME NEW s \in Requests,
                   SendRequest(s) \/ CallerStep(s) \/ CallerDies(s)
            PROVE  RunsLeft(r)'
        BY <4>0, <4>2 DEF SendRequest, CallerStep, CallerDies, ClaimResponse,
           ReadResponse, Timeout
      <4>3. ASSUME NEW l \in Listeners,
                   \/ Start(l) \/ LoopTop(l) \/ ReapStaleProcessing(l)
                   \/ ReapStaleResponses(l) \/ ArchiveResponse(l)
            PROVE  RunsLeft(r)'
        BY <4>0, <4>3 DEF Start, LoopTop, ReapStaleProcessing,
           ReapStaleResponses, ArchiveResponse
      <4>4. ASSUME NEW l \in Listeners, NextClaimed(l) PROVE RunsLeft(r)'
        BY <4>0, <4>4 DEF NextClaimed, Oldest
      <4>5. ASSUME NEW l \in Listeners,
                   \/ SendResponse(l) \/ MarkProcessed(l) \/ HandlerFails(l)
                   \/ Signal(l) \/ Crash(l)
            PROVE  RunsLeft(r)'
        BY <4>0, <4>5 DEF SendResponse, MarkProcessed, HandlerFails, Signal,
           Crash
      <4>6. CASE Tick \/ UNCHANGED vars
        BY <4>0, <4>6 DEF Tick
      <4> QED
        BY <4>1, <4>2, <4>3, <4>4, <4>5, <4>6
        DEF Next, ListenerStep, ScanStep, WorkStep
    <3> QED
      BY <3>1, <3>2, <3>3 DEF Inv6
  <2> QED
    BY <2>1, <2>2
<1>3. Inv1 /\ Inv6 => RunsBoundedByReclaims
  <2> SUFFICES ASSUME Inv1, Inv6, NEW r \in Requests
               PROVE  handled[r] <= 1 + reclaims[r]
    BY DEF RunsBoundedByReclaims
  <2>1. handled[r] \in Nat /\ reclaims[r] \in Nat
    BY BusAssumption DEF Inv1, TypeOK, Inv6
  <2>2. Cardinality(Holders(r)) \in Nat /\ Unclaimed(r) \in Nat
    BY FS_CardinalityType DEF Inv6, RunsLeft, Unclaimed
  <2> QED
    BY <2>1, <2>2 DEF Inv6, RunsLeft
<1> QED
  BY <1>1, <1>2, <1>3, Inv1Always, NoRequestLostAlways,
     PTL DEF Spec, CountedSpec

=============================================================================
