------------------------------- MODULE FsBus -------------------------------
(***************************************************************************)
(* The filesystem message bus (shared/message_bus.py) together with the    *)
(* processes that use it: the HI-layer listeners (Kingofyadav/app.py),     *)
(* which claim, execute and answer requests, and the callers in Jarvis     *)
(* (send_hi_request), which write one request and wait for its reply.      *)
(*                                                                         *)
(* The bus is four directories and every operation on it is a rename, so   *)
(* a directory is the set of the requests whose file it holds.  A rename   *)
(* keeps st_mtime: the age of a request file counts from the moment it was *)
(* sent, wherever the file has been moved since.                           *)
(*                                                                         *)
(* Time is measured in ticks.  Only the age of a file matters to the code, *)
(* so ages are kept instead of dates and saturate just above the largest   *)
(* limit they are compared with.                                           *)
(***************************************************************************)
EXTENDS Naturals, FiniteSets

CONSTANTS
  Requests,    \* request ids; each is sent at most once
  Malformed,   \* those whose file does not validate
  Listeners,   \* processes running Kingofyadav/app.py
  NoReq,       \* "no request"
  Stale,       \* _STALE_PROCESSING_SECONDS, in ticks
  RequestTTL,  \* _REQUEST_TTL_SECONDS
  ResponseTTL, \* _RESPONSE_TTL_SECONDS
  WaitTicks,   \* timeout of wait_for_response
  MaxRuns,     \* bound: executions of one request that are counted
  MaxOutages   \* bound: listener crashes and stop signals

ASSUME BusAssumption ==
  /\ Malformed \subseteq Requests
  /\ NoReq \notin Requests
  /\ Stale \in Nat /\ RequestTTL \in Nat /\ ResponseTTL \in Nat
  /\ WaitTicks \in Nat
  /\ MaxRuns \in Nat \ {0}
  /\ MaxOutages \in Nat

VARIABLES
  pending,    \* requests/*.json
  inflight,   \* requests/*.processing
  processed,  \* request files in processed/
  deadletter, \* request files in deadletter/
  age,        \* age of each request file, while it is in requests/
  replies,    \* responses/<id>.json
  taken,      \* responses/<id>.processing
  archived,   \* response files in processed/
  replyAge,   \* age of each unclaimed response file
  pc,         \* where each listener is in its loop
  running,    \* the listener's _running flag
  todo,       \* what is left of the directory listing being walked
  batch,      \* claimed requests not yet looked at (claimed_paths)
  cur,        \* the file the listener is busy with
  caller,     \* state of the process that sent each request
  patience,   \* ticks left before that process's deadline
  handled,    \* times handle_request returned for each request
  answered,   \* requests for which a response was ever written
  outages     \* crashes and stop signals so far

dirs      == <<pending, inflight, processed, deadletter>>
replyDirs == <<replies, taken, archived>>
listener  == <<pc, running, todo, batch, cur>>
callers   == <<caller, patience>>
history   == <<handled, answered>>
clocks    == <<age, replyAge>>
vars == <<dirs, replyDirs, listener, callers, history, clocks, outages>>

PC == {"down", "ready", "reap", "reapReplies", "archive", "scan", "work",
       "apply", "reply", "close"}
CallerState == {"idle", "waiting", "reading", "answered", "none", "dead"}

TypeOK ==
  /\ pending \subseteq Requests /\ inflight \subseteq Requests
  /\ processed \subseteq Requests /\ deadletter \subseteq Requests
  /\ replies \subseteq Requests /\ taken \subseteq Requests
  /\ archived \subseteq Requests
  /\ age \in [Requests -> Nat] /\ replyAge \in [Requests -> Nat]
  /\ pc \in [Listeners -> PC] /\ running \in [Listeners -> BOOLEAN]
  /\ todo \in [Listeners -> SUBSET Requests]
  /\ batch \in [Listeners -> SUBSET Requests]
  /\ cur \in [Listeners -> Requests \union {NoReq}]
  /\ caller \in [Requests -> CallerState]
  /\ patience \in [Requests -> Nat]
  /\ handled \in [Requests -> 0..MaxRuns]
  /\ answered \subseteq Requests
  /\ outages \in 0..MaxOutages

Sent == pending \union inflight \union processed \union deadletter

Init ==
  /\ pending = {} /\ inflight = {} /\ processed = {} /\ deadletter = {}
  /\ replies = {} /\ taken = {} /\ archived = {}
  /\ age = [r \in Requests |-> 0] /\ replyAge = [r \in Requests |-> 0]
  /\ pc = [l \in Listeners |-> "down"]
  /\ running = [l \in Listeners |-> FALSE]
  /\ todo = [l \in Listeners |-> {}]
  /\ batch = [l \in Listeners |-> {}]
  /\ cur = [l \in Listeners |-> NoReq]
  /\ caller = [r \in Requests |-> "idle"]
  /\ patience = [r \in Requests |-> 0]
  /\ handled = [r \in Requests |-> 0]
  /\ answered = {}
  /\ outages = 0

-----------------------------------------------------------------------------
(* Time.                                                                   *)

Older(n, limit) == IF n > limit THEN n ELSE n + 1

(* Mutant: the deadline is counted down without a floor.                   *)
TickPastDeadline ==
  /\ patience' = [r \in Requests |->
       IF caller[r] = "waiting" THEN patience[r] - 1 ELSE patience[r]]
  /\ UNCHANGED <<dirs, replyDirs, listener, caller, history, clocks, outages>>

(* A tick ages every file that exists and brings every deadline nearer.    *)
Tick ==
  /\ age' = [r \in Requests |->
       IF r \in pending \union inflight
       THEN Older(age[r], IF Stale < RequestTTL THEN RequestTTL ELSE Stale)
       ELSE age[r]]
  /\ replyAge' = [r \in Requests |->
       IF r \in replies THEN Older(replyAge[r], ResponseTTL) ELSE replyAge[r]]
  /\ patience' = [r \in Requests |->
       IF patience[r] > 0 THEN patience[r] - 1 ELSE 0]
  /\ UNCHANGED <<dirs, replyDirs, listener, caller, history, outages>>

-----------------------------------------------------------------------------
(* The caller: send_request, then wait_for_response.                       *)

SendRequest(r) ==
  /\ r \notin Sent
  /\ pending' = pending \union {r}
  /\ age' = [age EXCEPT ![r] = 0]
  /\ IF r \in Malformed
     THEN UNCHANGED callers        \* dropped in by hand: nobody waits
     ELSE /\ caller' = [caller EXCEPT ![r] = "waiting"]
          /\ patience' = [patience EXCEPT ![r] = WaitTicks]
  /\ UNCHANGED <<inflight, processed, deadletter, replyDirs, listener,
                 history, replyAge, outages>>

(* A poll before the deadline finds responses/<id>.json and claims it.     *)
ClaimResponse(r) ==
  /\ caller[r] = "waiting" /\ patience[r] > 0
  /\ r \in replies
  /\ replies' = replies \ {r}
  /\ taken' = taken \union {r}
  /\ replyAge' = [replyAge EXCEPT ![r] = 0]
  /\ caller' = [caller EXCEPT ![r] = "reading"]
  /\ patience' = [patience EXCEPT ![r] = 0]
  /\ UNCHANGED <<dirs, archived, listener, history, age, outages>>

(* Read the claimed file and archive it.  When it is gone, reading or      *)
(* archiving raises, there is nothing to dead-letter and None is returned. *)
ReadResponse(r) ==
  /\ caller[r] = "reading"
  /\ \/ /\ r \in taken
        /\ taken' = taken \ {r}
        /\ archived' = archived \union {r}
        /\ caller' = [caller EXCEPT ![r] = "answered"]
     \/ /\ r \notin taken
        /\ caller' = [caller EXCEPT ![r] = "none"]
        /\ UNCHANGED <<taken, archived>>
  /\ UNCHANGED <<dirs, replies, listener, patience, history, clocks, outages>>

Timeout(r) ==
  /\ caller[r] = "waiting" /\ patience[r] = 0
  /\ caller' = [caller EXCEPT ![r] = "none"]
  /\ UNCHANGED <<dirs, replyDirs, listener, patience, history, clocks, outages>>

(* The calling process is interrupted while it waits or reads.             *)
CallerDies(r) ==
  /\ caller[r] \in {"waiting", "reading"}
  /\ caller' = [caller EXCEPT ![r] = "dead"]
  /\ patience' = [patience EXCEPT ![r] = 0]
  /\ UNCHANGED <<dirs, replyDirs, listener, history, clocks, outages>>

-----------------------------------------------------------------------------
(* The listener.                                                           *)

Goto(l, label) == pc' = [pc EXCEPT ![l] = label]

Start(l) ==
  /\ pc[l] = "down"
  /\ Goto(l, "ready")
  /\ running' = [running EXCEPT ![l] = TRUE]
  /\ UNCHANGED <<dirs, replyDirs, todo, batch, cur, callers, history, clocks,
                 outages>>

(* Top of the main loop: leave it after a signal, else start a scan with   *)
(* the listing of requests/*.processing.                                   *)
LoopTop(l) ==
  /\ pc[l] = "ready"
  /\ IF running[l]
     THEN Goto(l, "reap") /\ todo' = [todo EXCEPT ![l] = inflight]
     ELSE Goto(l, "down") /\ UNCHANGED todo
  /\ UNCHANGED <<dirs, replyDirs, running, batch, cur, callers, history,
                 clocks, outages>>

(* Mutant: the stale claim is copied back instead of renamed.              *)
ReapByCopy(l) ==
  /\ pc[l] = "reap"
  /\ pending' = pending \union {r \in inflight : age[r] > Stale}
  /\ todo' = [todo EXCEPT ![l] = replies]
  /\ Goto(l, "reapReplies")
  /\ UNCHANGED <<inflight, processed, deadletter, replyDirs, running, batch,
                 cur, callers, history, clocks, outages>>

(* Mutant: stale claims are not reclaimed.                                 *)
ReapNothing(l) ==
  /\ pc[l] = "reap"
  /\ todo' = [todo EXCEPT ![l] = replies]
  /\ Goto(l, "reapReplies")
  /\ UNCHANGED <<dirs, replyDirs, running, batch, cur, callers, history,
                 clocks, outages>>

(* _reap_stale_processing: any file whose mtime is too old goes back, and  *)
(* the mtime is that of the send.                                          *)
ReapStaleProcessing(l) ==
  /\ pc[l] = "reap"
  /\ \/ \E r \in todo[l] :
          /\ todo' = [todo EXCEPT ![l] = @ \ {r}]
          /\ IF r \in inflight /\ age[r] > Stale
             THEN /\ inflight' = inflight \ {r}
                  /\ pending' = pending \union {r}
             ELSE UNCHANGED <<inflight, pending>>
          /\ UNCHANGED pc
     \/ /\ todo[l] = {}
        /\ todo' = [todo EXCEPT ![l] = replies]
        /\ Goto(l, "reapReplies")
        /\ UNCHANGED <<inflight, pending>>
  /\ UNCHANGED <<processed, deadletter, replyDirs, running, batch, cur,
                 callers, history, clocks, outages>>

(* Mutant: abandoned responses are left alone.                             *)
KeepResponses(l) ==
  /\ pc[l] = "reapReplies"
  /\ todo' = [todo EXCEPT ![l] = pending]
  /\ Goto(l, "scan")
  /\ UNCHANGED <<dirs, replyDirs, running, batch, cur, callers, history,
                 clocks, outages>>

(* Mutant: every response found is archived, whatever its age.             *)
ReapFreshResponses(l) ==
  /\ pc[l] = "reapReplies"
  /\ taken' = taken \union replies
  /\ replies' = {}
  /\ todo' = [todo EXCEPT ![l] = pending]
  /\ Goto(l, "scan")
  /\ UNCHANGED <<dirs, archived, running, batch, cur, callers, history,
                 clocks, outages>>

(* reap_stale_responses, first half: claim an old response.                *)
ReapStaleResponses(l) ==
  /\ pc[l] = "reapReplies"
  /\ \/ \E r \in todo[l] :
          /\ todo' = [todo EXCEPT ![l] = @ \ {r}]
          /\ IF r \in replies /\ replyAge[r] > ResponseTTL
             THEN /\ replies' = replies \ {r}
                  /\ replyAge' = [replyAge EXCEPT ![r] = 0]
                  /\ taken' = taken \union {r}
                  /\ cur' = [cur EXCEPT ![l] = r]
                  /\ Goto(l, "archive")
             ELSE UNCHANGED <<replies, replyAge, taken, cur, pc>>
     \/ /\ todo[l] = {}
        /\ todo' = [todo EXCEPT ![l] = pending]
        /\ Goto(l, "scan")
        /\ UNCHANGED <<replies, replyAge, taken, cur>>
  /\ UNCHANGED <<dirs, archived, running, batch, callers, history, age,
                 outages>>

(* reap_stale_responses, second half: mark_processed.  A file that is gone *)
(* makes it raise; the error is logged and the loop goes on.               *)
ArchiveResponse(l) ==
  /\ pc[l] = "archive"
  /\ IF cur[l] \in taken
     THEN /\ taken' = taken \ {cur[l]}
          /\ archived' = archived \union {cur[l]}
     ELSE UNCHANGED <<taken, archived>>
  /\ cur' = [cur EXCEPT ![l] = NoReq]
  /\ Goto(l, "reapReplies")
  /\ UNCHANGED <<dirs, replies, running, todo, batch, callers, history,
                 clocks, outages>>

(* File names start with the timestamp: a sorted walk meets the oldest     *)
(* file first.                                                             *)
Oldest(S) == {r \in S : \A s \in S : age[s] <= age[r]}

(* list_requests_for_me, one file: dead-letter it when it does not         *)
(* validate or is too old, else claim it; skip it when another listener    *)
(* was faster.                                                             *)
ListRequests(l) ==
  /\ pc[l] = "scan"
  /\ \/ \E r \in Oldest(todo[l]) :
          /\ todo' = [todo EXCEPT ![l] = @ \ {r}]
          /\ \/ /\ r \notin pending
                /\ UNCHANGED <<dirs, age, batch>>
             \/ /\ r \in pending
                /\ r \in Malformed \/ age[r] > RequestTTL
                /\ pending' = pending \ {r}
                /\ deadletter' = deadletter \union {r}
                /\ age' = [age EXCEPT ![r] = 0]
                /\ UNCHANGED <<inflight, processed, batch>>
             \/ /\ r \in pending \ Malformed
                /\ age[r] <= RequestTTL
                /\ pending' = pending \ {r}
                /\ inflight' = inflight \union {r}
                /\ batch' = [batch EXCEPT ![l] = @ \union {r}]
                /\ UNCHANGED <<processed, deadletter, age>>
          /\ UNCHANGED pc
     \/ /\ todo[l] = {}
        /\ Goto(l, "work")
        /\ UNCHANGED <<dirs, age, todo, batch>>
  /\ UNCHANGED <<replyDirs, running, cur, callers, history, replyAge,
                 outages>>

(* Mutant: the bus is scanned again before the batch is finished.          *)
RescanWithBatch(l) ==
  /\ pc[l] = "work"
  /\ \/ /\ Goto(l, "ready")
        /\ UNCHANGED <<batch, cur>>
     \/ /\ running[l]
        /\ \E r \in Oldest(batch[l]) :
             /\ batch' = [batch EXCEPT ![l] = @ \ {r}]
             /\ Goto(l, "apply") /\ cur' = [cur EXCEPT ![l] = r]
  /\ UNCHANGED <<dirs, replyDirs, running, todo, callers, history, clocks,
                 outages>>

(* _process_files, head of the loop over the claimed paths.  A signal      *)
(* abandons the rest of the batch; a file that is gone cannot be read and  *)
(* is skipped (move_to_deadletter finds nothing to move).                  *)
NextClaimed(l) ==
  /\ pc[l] = "work"
  /\ \/ /\ batch[l] = {} \/ ~running[l]
        /\ batch' = [batch EXCEPT ![l] = {}]
        /\ Goto(l, "ready")
        /\ UNCHANGED cur
     \/ /\ running[l]
        /\ \E r \in Oldest(batch[l]) :
             /\ batch' = [batch EXCEPT ![l] = @ \ {r}]
             /\ IF r \in inflight
                THEN Goto(l, "apply") /\ cur' = [cur EXCEPT ![l] = r]
                ELSE UNCHANGED <<pc, cur>>
  /\ UNCHANGED <<dirs, replyDirs, running, todo, callers, history, clocks,
                 outages>>

Counted(n) == IF n < MaxRuns THEN n + 1 ELSE n

(* Mutant: the request is archived as soon as it has been executed, before *)
(* it is answered.                                                         *)
ArchiveThenAnswer(l) ==
  /\ pc[l] = "apply"
  /\ handled' = [handled EXCEPT ![cur[l]] = Counted(@)]
  /\ inflight' = inflight \ {cur[l]}
  /\ processed' = processed \union ({cur[l]} \intersect inflight)
  /\ Goto(l, "reply")
  /\ UNCHANGED <<pending, deadletter, replyDirs, running, todo, batch, cur,
                 callers, answered, clocks, outages>>

(* handle_request returns.                                                 *)
HandleRequest(l) ==
  /\ pc[l] = "apply"
  /\ handled' = [handled EXCEPT ![cur[l]] = Counted(@)]
  /\ Goto(l, "reply")
  /\ UNCHANGED <<dirs, replyDirs, running, todo, batch, cur, callers,
                 answered, clocks, outages>>

SendResponse(l) ==
  /\ pc[l] = "reply"
  /\ replies' = replies \union {cur[l]}
  /\ replyAge' = [replyAge EXCEPT ![cur[l]] = 0]
  /\ answered' = answered \union {cur[l]}
  /\ Goto(l, "close")
  /\ UNCHANGED <<dirs, taken, archived, running, todo, batch, cur, callers,
                 handled, age, outages>>

(* Mutant: the answered request is left in requests/.                      *)
LeaveInRequests(l) ==
  /\ pc[l] = "close"
  /\ cur' = [cur EXCEPT ![l] = NoReq]
  /\ Goto(l, "work")
  /\ UNCHANGED <<dirs, replyDirs, running, todo, batch, callers, history,
                 clocks, outages>>

(* mark_processed(path).  When another listener has put the file back in   *)
(* the queue the move raises and, again, there is nothing to dead-letter.  *)
MarkProcessed(l) ==
  /\ pc[l] = "close"
  /\ IF cur[l] \in inflight
     THEN /\ inflight' = inflight \ {cur[l]}
          /\ processed' = processed \union {cur[l]}
          /\ age' = [age EXCEPT ![cur[l]] = 0]
     ELSE UNCHANGED <<inflight, processed, age>>
  /\ cur' = [cur EXCEPT ![l] = NoReq]
  /\ Goto(l, "work")
  /\ UNCHANGED <<pending, deadletter, replyDirs, running, todo, batch,
                 callers, history, replyAge, outages>>

(* Mutant: the failed request is archived (mark_processed in a finally).   *)
ArchiveFailed(l) ==
  /\ pc[l] \in {"apply", "reply"}
  /\ inflight' = inflight \ {cur[l]}
  /\ processed' = processed \union ({cur[l]} \intersect inflight)
  /\ cur' = [cur EXCEPT ![l] = NoReq]
  /\ Goto(l, "work")
  /\ UNCHANGED <<pending, deadletter, replyDirs, running, todo, batch,
                 callers, history, clocks, outages>>

(* Mutant: an error after the response was written still dead-letters.     *)
FailsAfterAnswer(l) ==
  /\ pc[l] \in {"apply", "reply", "close"}
  /\ inflight' = inflight \ {cur[l]}
  /\ deadletter' = deadletter \union ({cur[l]} \intersect inflight)
  /\ cur' = [cur EXCEPT ![l] = NoReq]
  /\ Goto(l, "work")
  /\ UNCHANGED <<pending, processed, replyDirs, running, todo, batch,
                 callers, history, clocks, outages>>

(* handle_request or send_response raises: move_to_deadletter.             *)
HandlerFails(l) ==
  /\ pc[l] \in {"apply", "reply"}
  /\ IF cur[l] \in inflight
     THEN /\ inflight' = inflight \ {cur[l]}
          /\ deadletter' = deadletter \union {cur[l]}
          /\ age' = [age EXCEPT ![cur[l]] = 0]
     ELSE UNCHANGED <<inflight, deadletter, age>>
  /\ cur' = [cur EXCEPT ![l] = NoReq]
  /\ Goto(l, "work")
  /\ UNCHANGED <<pending, processed, replyDirs, running, todo, batch,
                 callers, history, replyAge, outages>>

(* SIGTERM or SIGINT: only the flag changes.                               *)
Signal(l) ==
  /\ outages < MaxOutages
  /\ pc[l] # "down" /\ running[l]
  /\ running' = [running EXCEPT ![l] = FALSE]
  /\ outages' = outages + 1
  /\ UNCHANGED <<dirs, replyDirs, pc, todo, batch, cur, callers, history,
                 clocks>>

(* The process is killed; the files stay where they are.                   *)
Crash(l) ==
  /\ outages < MaxOutages
  /\ pc[l] # "down"
  /\ Goto(l, "down")
  /\ running' = [running EXCEPT ![l] = FALSE]
  /\ todo' = [todo EXCEPT ![l] = {}]
  /\ batch' = [batch EXCEPT ![l] = {}]
  /\ cur' = [cur EXCEPT ![l] = NoReq]
  /\ outages' = outages + 1
  /\ UNCHANGED <<dirs, replyDirs, callers, history, clocks>>

-----------------------------------------------------------------------------
ScanStep(l) ==
  LoopTop(l) \/ ReapStaleProcessing(l) \/ ReapStaleResponses(l)
  \/ ArchiveResponse(l) \/ ListRequests(l)

WorkStep(l) ==
  NextClaimed(l) \/ HandleRequest(l) \/ SendResponse(l) \/ MarkProcessed(l)
  \/ HandlerFails(l)

ListenerStep(l) == Start(l) \/ ScanStep(l) \/ WorkStep(l)

CallerStep(r) == ClaimResponse(r) \/ ReadResponse(r) \/ Timeout(r)

Next ==
  \/ Tick
  \/ \E r \in Requests : SendRequest(r) \/ CallerStep(r) \/ CallerDies(r)
  \/ \E l \in Listeners : ListenerStep(l) \/ Signal(l) \/ Crash(l)

Spec == Init /\ [][Next]_vars

(* A listener keeps running and is restarted after an outage               *)
(* (Restart=always in jarvis-kingofyadav.service, watchdog.sh), a caller   *)
(* that is alive keeps polling, and time passes.                           *)
Fairness ==
  /\ WF_vars(Tick)
  /\ \A l \in Listeners : WF_vars(ListenerStep(l))
  /\ \A r \in Requests : WF_vars(CallerStep(r))

FairSpec == Spec /\ Fairness

-----------------------------------------------------------------------------
(* Properties.                                                             *)

(* The file of a request that was sent is in exactly one directory,        *)
(* whatever the listeners, their crashes and their reclaims did to it: no  *)
(* interleaving of the renames loses it or leaves it in two.               *)
NoRequestLost ==
  /\ pending \intersect inflight = {}
  /\ (pending \union inflight) \intersect (processed \union deadletter) = {}
  /\ processed \intersect deadletter = {}
  /\ \A r \in Requests : caller[r] # "idle" => r \in Sent

(* A caller that returns an answer, an archived request and a response     *)
(* file all go back to an execution of that very request; and a response   *)
(* that was written is still in responses/ or in the archive.              *)
AnswersAreEarned ==
  /\ answered = replies \union taken \union archived
  /\ processed \subseteq answered
  /\ \A r \in answered : handled[r] > 0
  /\ \A r \in Requests : caller[r] = "answered" => r \in archived

(* With one listener, a request is executed at most once, plus at most     *)
(* once for every time the listener was killed between executing a         *)
(* request and archiving it: the reclaim of stale claims never makes a     *)
(* listener overtake itself.                                               *)
RunsBoundedByOutages == \A r \in Requests : handled[r] <= 1 + outages

(* With one listener, the files it has claimed stay claimed until it moves *)
(* them itself, although its own next scan would reclaim them by age.      *)
ClaimIsHeld ==
  \A l \in Listeners :
    /\ batch[l] \subseteq inflight
    /\ pc[l] \in {"apply", "reply", "close"} => cur[l] \in inflight \ batch[l]

(* With one listener that never fails in between, a request that ends in   *)
(* the dead-letter directory was never answered.                           *)
DeadLetterIsUnanswered == outages = 0 => deadletter \intersect answered = {}

(* The bus keeps the contract: loosely with any number of listeners, and   *)
(* exclusively with one.                                                   *)
StatusOf(r) ==
  IF r \in processed THEN "done"
  ELSE IF r \in deadletter THEN "dead"
  ELSE IF r \in pending \union inflight THEN "open" ELSE "new"

Loose == INSTANCE RequestContract WITH
           Exclusive <- FALSE, runs <- handled, answers <- answered,
           status <- [r \in Requests |-> StatusOf(r)]

Strict == INSTANCE RequestContract WITH
           Exclusive <- TRUE, runs <- handled, answers <- answered,
           status <- [r \in Requests |-> StatusOf(r)]

KeepsLooseContract == Loose!Spec
KeepsStrictContract == Strict!Spec

(* A response is not taken away from a caller that still waits for it: the *)
(* reaper's age limit exceeds the caller's timeout, and a second listener  *)
(* that answers the same request writes a fresh file.                      *)
AnswerWaitsForCaller ==
  [][\A r \in Requests :
       caller[r] = "waiting" /\ patience[r] > 0 /\ r \in replies
         => r \in replies' \/ caller'[r] \in {"reading", "dead"}]_vars

(* Every request that is sent is eventually archived or dead-lettered,     *)
(* also when listeners keep taking a stale claim from each other and when  *)
(* a listener dies with the file claimed.                                  *)
RequestSettles ==
  \A r \in Requests : r \in Sent ~> r \in processed \union deadletter

(* A response nobody waits for any more does not stay in responses/.       *)
RepliesDrain == \A r \in Requests : r \in replies ~> r \notin replies

(* A claim of the documentation that the code does not keep.               *)

(* shared/README.md: renaming to .processing "prevents double-processing". *)
NoDoubleProcessing == \A r \in Requests : handled[r] <= 1

=============================================================================
