----------------------------- MODULE SqliteBus -----------------------------
(***************************************************************************)
(* The SQLite message bus (shared/bus_db.py, JARVIS_BUS_BACKEND=sqlite)    *)
(* with the same listeners and callers as FsBus.  A message is one row of  *)
(* one table; the response replaces the row of its request.                *)
(*                                                                         *)
(* Python's sqlite3 opens a transaction at the first write.                *)
(* list_requests_for_me starts with an UPDATE, so everything it reads is   *)
(* read under the write lock and it is one step; wait_for_response and     *)
(* _rotate_processed start with a SELECT and are two.  An UPDATE that      *)
(* names only the request_id changes the row whatever its status has       *)
(* become.                                                                 *)
(***************************************************************************)
EXTENDS Naturals, FiniteSets

CONSTANTS
  Requests,   \* request ids; each is sent at most once
  Urgent,     \* those sent with priority high, the others are normal
  Listeners,  \* processes running Kingofyadav/app.py
  NoReq,      \* "no request"
  Stale,      \* _STALE_PROCESSING_SECONDS, in ticks
  RequestTTL, \* _REQUEST_TTL_SECONDS
  WaitTicks,  \* timeout of wait_for_response
  Keep,       \* _PROCESSED_KEEP: processed rows that are kept
  MaxRuns,    \* bound: executions and reclaims of a request that are counted
  MaxOutages, \* bound: listener crashes and stop signals
  MaxLocked   \* bound: "database is locked" errors in mark_processed

ASSUME SqliteAssumption ==
  /\ Urgent \subseteq Requests
  /\ IsFiniteSet(Requests) /\ NoReq \notin Requests
  /\ IsFiniteSet(Listeners)
  /\ Stale \in Nat /\ RequestTTL \in Nat /\ WaitTicks \in Nat
  /\ Keep \in Nat
  /\ MaxRuns \in Nat \ {0}
  /\ MaxOutages \in Nat /\ MaxLocked \in Nat

VARIABLES
  row,      \* status of each request's row; "none" before it is inserted
  sentAge,  \* age of created_at of the request
  heldAge,  \* age of updated_at
  pc,       \* where each listener is in its loop
  running,  \* the listener's _running flag
  batch,    \* claimed requests not yet looked at
  cur,      \* the request the listener is busy with
  excess,   \* processed rows the listener has decided to delete
  caller,   \* state of the process that sent each request
  patience, \* ticks left before that process's deadline
  handled,  \* times handle_request returned for each request
  reclaims, \* times a stale claim of each request was taken back
  outages,  \* crashes and stop signals so far
  locked    \* lock errors so far

rows     == <<row, sentAge, heldAge>>
listener == <<pc, running, batch, cur, excess>>
callers  == <<caller, patience>>
history  == <<handled, reclaims>>
faults   == <<outages, locked>>
vars == <<rows, listener, callers, history, faults>>

PC == {"down", "ready", "work", "apply", "reply", "close", "rotate",
       "delete"}
Status == {"none", "pending", "processing", "response", "processed",
           "deadletter", "deleted"}
CallerState == {"idle", "waiting", "reading", "answered", "none", "dead"}

TypeOK ==
  /\ row \in [Requests -> Status]
  /\ sentAge \in [Requests -> 0..RequestTTL + 1]
  /\ heldAge \in [Requests -> 0..Stale + 1]
  /\ pc \in [Listeners -> PC] /\ running \in [Listeners -> BOOLEAN]
  /\ batch \in [Listeners -> SUBSET Requests]
  /\ cur \in [Listeners -> Requests \union {NoReq}]
  /\ excess \in [Listeners -> 0..Cardinality(Requests)]
  /\ caller \in [Requests -> CallerState]
  /\ patience \in [Requests -> 0..WaitTicks]
  /\ handled \in [Requests -> 0..MaxRuns]
  /\ reclaims \in [Requests -> 0..MaxRuns]
  /\ outages \in 0..MaxOutages /\ locked \in 0..MaxLocked

Init ==
  /\ row = [r \in Requests |-> "none"]
  /\ sentAge = [r \in Requests |-> 0] /\ heldAge = [r \in Requests |-> 0]
  /\ pc = [l \in Listeners |-> "down"]
  /\ running = [l \in Listeners |-> FALSE]
  /\ batch = [l \in Listeners |-> {}]
  /\ cur = [l \in Listeners |-> NoReq]
  /\ excess = [l \in Listeners |-> 0]
  /\ caller = [r \in Requests |-> "idle"]
  /\ patience = [r \in Requests |-> 0]
  /\ handled = [r \in Requests |-> 0] /\ reclaims = [r \in Requests |-> 0]
  /\ outages = 0 /\ locked = 0

In(status) == {r \in Requests : row[r] = status}

(* UPDATE messages SET status=..., updated_at=now for the requests in S.   *)
Update(S, status) ==
  /\ row' = [r \in Requests |-> IF r \in S THEN status ELSE row[r]]
  /\ heldAge' = [r \in Requests |-> IF r \in S THEN 0 ELSE heldAge[r]]

(* UPDATE ... WHERE request_id=?: no row, no effect.                       *)
UpdateById(r, status) == Update({r} \ (In("none") \union In("deleted")), status)

Counted(n) == IF n < MaxRuns THEN n + 1 ELSE n

-----------------------------------------------------------------------------
Older(n, limit) == IF n > limit THEN n ELSE n + 1

(* A tick ages the rows and brings every deadline nearer.  Ages count only *)
(* where the code compares them: created_at of a queued or claimed request,*)
(* updated_at of a claimed or a processed one.                             *)
Tick ==
  /\ sentAge' = [r \in Requests |->
       IF row[r] \in {"pending", "processing"}
       THEN Older(sentAge[r], RequestTTL) ELSE sentAge[r]]
  /\ heldAge' = [r \in Requests |->
       IF row[r] \in {"processing", "processed"}
       THEN Older(heldAge[r], Stale) ELSE heldAge[r]]
  /\ patience' = [r \in Requests |->
       IF patience[r] > 0 THEN patience[r] - 1 ELSE 0]
  /\ UNCHANGED <<row, listener, caller, history, faults>>

-----------------------------------------------------------------------------
(* The caller: send_request, then wait_for_response.                       *)

SendRequest(r) ==
  /\ row[r] = "none"
  /\ Update({r}, "pending")
  /\ caller' = [caller EXCEPT ![r] = "waiting"]
  /\ patience' = [patience EXCEPT ![r] = WaitTicks]
  /\ UNCHANGED <<sentAge, listener, history, faults>>

(* A poll before the deadline selects a row with status response ...       *)
FindResponse(r) ==
  /\ caller[r] = "waiting" /\ patience[r] > 0
  /\ row[r] = "response"
  /\ caller' = [caller EXCEPT ![r] = "reading"]
  /\ patience' = [patience EXCEPT ![r] = 0]
  /\ UNCHANGED <<rows, listener, history, faults>>

(* ... and then marks the row processed, by request_id alone.              *)
TakeResponse(r) ==
  /\ caller[r] = "reading"
  /\ UpdateById(r, "processed")
  /\ caller' = [caller EXCEPT ![r] = "answered"]
  /\ UNCHANGED <<sentAge, listener, patience, history, faults>>

Timeout(r) ==
  /\ caller[r] = "waiting" /\ patience[r] = 0
  /\ caller' = [caller EXCEPT ![r] = "none"]
  /\ UNCHANGED <<rows, listener, patience, history, faults>>

CallerDies(r) ==
  /\ caller[r] \in {"waiting", "reading"}
  /\ caller' = [caller EXCEPT ![r] = "dead"]
  /\ patience' = [patience EXCEPT ![r] = 0]
  /\ UNCHANGED <<rows, listener, history, faults>>

-----------------------------------------------------------------------------
(* The listener.                                                           *)

Goto(l, label) == pc' = [pc EXCEPT ![l] = label]

Start(l) ==
  /\ pc[l] = "down"
  /\ Goto(l, "ready")
  /\ running' = [running EXCEPT ![l] = TRUE]
  /\ UNCHANGED <<rows, batch, cur, excess, callers, history, faults>>

Stop(l) ==
  /\ pc[l] = "ready" /\ ~running[l]
  /\ Goto(l, "down")
  /\ UNCHANGED <<rows, running, batch, cur, excess, callers, history, faults>>

(* Mutant: the reclaim takes rows of any status ("status='processing'"     *)
(* dropped from the WHERE clause).                                         *)
ReclaimAnyStatus(l) ==
  LET stale == {r \in Requests \ In("none") : heldAge[r] > Stale}
      queued == stale \union In("pending")
  IN /\ pc[l] = "ready" /\ running[l]
     /\ Update(queued, "processing")
     /\ batch' = [batch EXCEPT ![l] = queued]
     /\ reclaims' = [r \in Requests |->
          IF r \in stale THEN Counted(reclaims[r]) ELSE reclaims[r]]
     /\ Goto(l, "work")
     /\ UNCHANGED <<sentAge, running, cur, excess, callers, handled, faults>>

(* Mutant: rows are claimed without leaving pending.                       *)
ClaimWithoutMark(l) ==
  /\ pc[l] = "ready" /\ running[l]
  /\ batch' = [batch EXCEPT ![l] = In("pending")]
  /\ Goto(l, "work")
  /\ UNCHANGED <<rows, running, cur, excess, callers, history, faults>>

(* Mutant: stale claims are not taken back.                                *)
ClaimOnlyPending(l) ==
  /\ pc[l] = "ready" /\ running[l]
  /\ Update(In("pending"), "processing")
  /\ batch' = [batch EXCEPT ![l] = In("pending")]
  /\ Goto(l, "work")
  /\ UNCHANGED <<sentAge, running, cur, excess, callers, history, faults>>

(* list_requests_for_me: take stale claims back, expire what is too old,   *)
(* claim the rest.  Rows that hold a response are addressed to the caller, *)
(* so the target=me of the three statements never selects them.            *)
ListRequests(l) ==
  LET stale  == {r \in In("processing") : heldAge[r] > Stale}
      queued == stale \union In("pending")
      old    == {r \in queued : sentAge[r] > RequestTTL}
  IN /\ pc[l] = "ready" /\ running[l]
     /\ row' = [r \in Requests |->
          IF r \in old THEN "deadletter"
          ELSE IF r \in queued THEN "processing" ELSE row[r]]
     /\ heldAge' = [r \in Requests |-> IF r \in queued THEN 0 ELSE heldAge[r]]
     /\ reclaims' = [r \in Requests |->
          IF r \in stale THEN Counted(reclaims[r]) ELSE reclaims[r]]
     /\ batch' = [batch EXCEPT ![l] = queued \ old]
     /\ Goto(l, "work")
     /\ UNCHANGED <<sentAge, running, cur, excess, callers, handled, faults>>

(* The rows came back ordered by priority, then created_at.                *)
First(S) ==
  {r \in S : \A s \in S : \/ r \in Urgent /\ s \notin Urgent
                          \/ (r \in Urgent <=> s \in Urgent)
                             /\ sentAge[r] >= sentAge[s]}

(* Head of the loop in _process_files.  The message was read when it was   *)
(* claimed: nothing looks at the row again.                                *)
NextClaimed(l) ==
  /\ pc[l] = "work"
  /\ IF batch[l] = {} \/ ~running[l]
     THEN /\ batch' = [batch EXCEPT ![l] = {}]
          /\ Goto(l, "ready")
          /\ UNCHANGED cur
     ELSE \E r \in First(batch[l]) :
            /\ batch' = [batch EXCEPT ![l] = @ \ {r}]
            /\ cur' = [cur EXCEPT ![l] = r]
            /\ Goto(l, "apply")
  /\ UNCHANGED <<rows, running, excess, callers, history, faults>>

HandleRequest(l) ==
  /\ pc[l] = "apply"
  /\ handled' = [handled EXCEPT ![cur[l]] = Counted(@)]
  /\ Goto(l, "reply")
  /\ UNCHANGED <<rows, running, batch, cur, excess, callers, reclaims, faults>>

(* send_response: INSERT OR REPLACE under the request_id of the request.   *)
SendResponse(l) ==
  /\ pc[l] = "reply"
  /\ Update({cur[l]}, "response")
  /\ Goto(l, "close")
  /\ UNCHANGED <<sentAge, running, batch, cur, excess, callers, history, faults>>

(* mark_processed sets the status of the row, now that of the response.    *)
MarkProcessed(l) ==
  /\ pc[l] = "close"
  /\ UpdateById(cur[l], "processed")
  /\ Goto(l, "rotate")
  /\ UNCHANGED <<sentAge, running, batch, cur, excess, callers, history, faults>>

(* _rotate_processed counts the processed rows ...                         *)
RotateProcessed(l) ==
  LET count == Cardinality(In("processed"))
  IN /\ pc[l] = "rotate"
     /\ IF count > Keep
        THEN /\ excess' = [excess EXCEPT ![l] = count - Keep]
             /\ Goto(l, "delete")
             /\ UNCHANGED cur
        ELSE /\ cur' = [cur EXCEPT ![l] = NoReq]
             /\ Goto(l, "work")
             /\ UNCHANGED excess
     /\ UNCHANGED <<rows, running, batch, callers, history, faults>>

(* ... and then deletes the excess it computed, oldest first, of the rows  *)
(* that are processed by now.  A locked database makes it give up.         *)
DeleteExcess(l) ==
  /\ pc[l] = "delete"
  /\ \/ /\ \E gone \in SUBSET In("processed") :
             /\ \/ Cardinality(gone) = excess[l]
                \/ Cardinality(gone) < excess[l] /\ gone = In("processed")
             /\ \A r \in gone, s \in In("processed") \ gone :
                  heldAge[r] >= heldAge[s]
             /\ Update(gone, "deleted")
        /\ UNCHANGED locked
     \/ /\ locked < MaxLocked
        /\ locked' = locked + 1
        /\ UNCHANGED <<row, heldAge>>
  /\ excess' = [excess EXCEPT ![l] = 0]
  /\ cur' = [cur EXCEPT ![l] = NoReq]
  /\ Goto(l, "work")
  /\ UNCHANGED <<sentAge, running, batch, callers, history, outages>>

(* Mutant: a request whose handler raises is marked processed.             *)
FailedIsProcessed(l) ==
  /\ pc[l] \in {"apply", "reply"}
  /\ UpdateById(cur[l], "processed")
  /\ cur' = [cur EXCEPT ![l] = NoReq]
  /\ Goto(l, "work")
  /\ UNCHANGED <<sentAge, running, batch, excess, callers, history, faults>>

(* handle_request, send_response or mark_processed raises, the last one    *)
(* only when the database stays locked: move_to_deadletter.                *)
HandlerFails(l) ==
  /\ \/ /\ pc[l] \in {"apply", "reply"}
        /\ UNCHANGED locked
     \/ /\ pc[l] = "close"
        /\ locked < MaxLocked
        /\ locked' = locked + 1
  /\ UpdateById(cur[l], "deadletter")
  /\ cur' = [cur EXCEPT ![l] = NoReq]
  /\ Goto(l, "work")
  /\ UNCHANGED <<sentAge, running, batch, excess, callers, history, outages>>

Signal(l) ==
  /\ outages < MaxOutages
  /\ pc[l] # "down" /\ running[l]
  /\ running' = [running EXCEPT ![l] = FALSE]
  /\ outages' = outages + 1
  /\ UNCHANGED <<rows, pc, batch, cur, excess, callers, history, locked>>

(* The process is killed, or a locked database makes                       *)
(* list_requests_for_me or move_to_deadletter raise out of the main loop.  *)
Crash(l) ==
  /\ outages < MaxOutages
  /\ pc[l] # "down"
  /\ Goto(l, "down")
  /\ running' = [running EXCEPT ![l] = FALSE]
  /\ batch' = [batch EXCEPT ![l] = {}]
  /\ cur' = [cur EXCEPT ![l] = NoReq]
  /\ excess' = [excess EXCEPT ![l] = 0]
  /\ outages' = outages + 1
  /\ UNCHANGED <<rows, callers, history, locked>>

-----------------------------------------------------------------------------
CallerStep(r) == FindResponse(r) \/ TakeResponse(r) \/ Timeout(r)

ListenerStep(l) ==
  \/ Start(l) \/ Stop(l) \/ ListRequests(l) \/ NextClaimed(l)
  \/ HandleRequest(l) \/ SendResponse(l) \/ MarkProcessed(l)
  \/ RotateProcessed(l) \/ DeleteExcess(l) \/ HandlerFails(l)

Next ==
  \/ Tick
  \/ \E r \in Requests : SendRequest(r) \/ CallerStep(r) \/ CallerDies(r)
  \/ \E l \in Listeners : ListenerStep(l) \/ Signal(l) \/ Crash(l)

Spec == Init /\ [][Next]_vars

(* As for the filesystem bus: listeners run and are restarted, callers     *)
(* that are alive poll, time passes.                                       *)
FairSpec ==
  /\ Spec
  /\ WF_vars(Tick)
  /\ \A l \in Listeners : WF_vars(ListenerStep(l))
  /\ \A r \in Requests : WF_vars(CallerStep(r))

-----------------------------------------------------------------------------
(* Properties.                                                             *)

Settled == In("processed") \union In("deadletter") \union In("deleted")

(* Whatever two listeners do to the same row, an answer that a caller got, *)
(* a response row and an archived row go back to an execution of that      *)
(* request.                                                                *)
AnswersAreEarned ==
  \A r \in Requests :
    row[r] \in {"response", "processed", "deleted"} \/ caller[r] = "answered"
      => handled[r] > 0

(* A claim is exclusive until it is taken back for its age: for any number *)
(* of listeners, crashes included, a request is executed at most once plus *)
(* once for each time its claim went stale.                                *)
RunsBoundedByReclaims == \A r \in Requests : handled[r] <= 1 + reclaims[r]

(* The rows a caller still needs survive the rotation and the late UPDATEs *)
(* of other listeners: a request on which nobody has acted to the end is   *)
(* never deleted, and one that was settled is never queued or claimed      *)
(* again.                                                                  *)
SettledStaysOutOfQueue ==
  [][\A r \in Requests :
       /\ r \in Settled => row'[r] \notin {"none", "pending", "processing"}
       /\ row'[r] = "deleted" => row[r] \in {"processed", "deleted"}]_vars

(* A request that is sent leaves the queue: it is answered or              *)
(* dead-lettered, also when the listener that claimed it is killed.        *)
RequestLeavesQueue ==
  \A r \in Requests :
    row[r] \in {"pending", "processing"}
      ~> row[r] \notin {"pending", "processing"}

(* A response is not taken away from a caller that still waits for it.     *)
(* bus_db.py calls itself a "drop-in replacement for the filesystem        *)
(* MessageBus", which keeps this; here mark_processed, called right after  *)
(* send_response, overwrites the status of the response.                   *)
AnswerWaitsForCaller ==
  [][\A r \in Requests :
       caller[r] = "waiting" /\ patience[r] > 0 /\ row[r] = "response"
         => row'[r] = "response"]_vars

=============================================================================
