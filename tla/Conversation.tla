---------------------------- MODULE Conversation ----------------------------
(***************************************************************************)
(* The voice conversation of the dashboard: conversation_manager keeps one *)
(* module-wide state for all browser sessions and a thread that listens    *)
(* (voice_input), asks the router and speaks (tts_client).  What is said   *)
(* is left out; an answer is always spoken.                                *)
(***************************************************************************)
EXTENDS Integers, FiniteSets

CONSTANTS
  Sessions, Loops,   \* browser sessions; threads that may be started
  NoThread,
  Retries,  \* retries of a capture
  MaxErrors \* _MAX_CONSECUTIVE_HW_ERRORS

VARIABLES
  click,  \* where each session is in start_conversation
  thread, \* _thread
  stop,   \* _stop_event
  status, \* _state["status"]
  loop,   \* what each thread does
  voice,  \* the speech worker of each thread
  player  \* _tts_proc: whose speech it is

convVars == <<click, thread, stop, status, loop, voice, player>>

ASSUME ConversationAssumption ==
  /\ IsFiniteSet(Sessions) /\ IsFiniteSet(Loops)
  /\ Loops \intersect {"none", "clear", "create"} = {}
  /\ Retries \in Nat /\ MaxErrors \in Nat \ {0}

Places == {"off", "created", "begin", "check", "open", "listen", "heard",
           "asked", "say", "speak", "end", "dead"}
Active == {"starting", "listening", "processing", "speaking"}
Fresh == [at |-> "off", device |-> "own", tries |-> 0, errors |-> 0]

ConvTypeOK ==
  /\ click \in [Sessions -> {"none", "clear", "create"} \union Loops]
  /\ thread \in Loops \union {NoThread} /\ stop \in BOOLEAN
  /\ status \in Active \union {"idle", "stopped", "error"}
  /\ loop \in [Loops -> [at : Places, device : {"own", "default"},
                         tries : 0..Retries, errors : 0..(MaxErrors - 1)]]
  /\ voice \in [Loops -> {"none", "making", "playing"}]
  /\ player \in Loops \union {NoThread}

ConvInit ==
  /\ click = [s \in Sessions |-> "none"] /\ thread = NoThread /\ stop = FALSE
  /\ status = "idle" /\ loop = [t \in Loops |-> Fresh]
  /\ voice = [t \in Loops |-> "none"] /\ player = NoThread

Alive(t) == t \in {u \in Loops : loop[u].at \notin {"off", "created", "dead"}}
Go(t, at) == loop' = [loop EXCEPT ![t].at = at]
LeaveCapture(t, at, errors) ==
  loop' = [loop EXCEPT ![t] = [Fresh EXCEPT !.at = at, !.errors = errors]]

(* _set_status: "stopped" does not replace "idle".                         *)
SetStatus(s) == status' = IF s = "stopped" /\ status = "idle" THEN status ELSE s

-----------------------------------------------------------------------------
(* The dashboard.                                                          *)

(* Bound: threads that are left for a further start.                       *)
ThreadsLeft ==
  Cardinality({s \in Sessions : click[s] \in {"clear", "create"}})
    < Cardinality({t \in Loops : loop[t].at = "off"})

(* Mutant: the stop event is cleared before looking for a live thread.     *)
StartUnstopped(s) ==
  /\ click[s] = "none" /\ stop' = FALSE
  /\ IF Alive(thread) THEN UNCHANGED <<click, status>>
     ELSE /\ ThreadsLeft
          /\ click' = [click EXCEPT ![s] = "clear"] /\ status' = "starting"
  /\ UNCHANGED <<thread, loop, voice, player>>

(* start_conversation: the check, clearing the event, the new thread and   *)
(* its start are four steps.                                               *)
StartConversation(s) ==
  /\ click[s] = "none" /\ ~Alive(thread) /\ ThreadsLeft
  /\ click' = [click EXCEPT ![s] = "clear"] /\ status' = "starting"
  /\ UNCHANGED <<thread, stop, loop, voice, player>>

ClearStop(s) ==
  /\ click[s] = "clear" /\ click' = [click EXCEPT ![s] = "create"]
  /\ stop' = FALSE /\ UNCHANGED <<thread, status, loop, voice, player>>

CreateThread(s) ==
  /\ click[s] = "create"
  /\ LET t == CHOOSE u \in Loops : loop[u].at = "off" IN  \* a new one
       Go(t, "created") /\ thread' = t /\ click' = [click EXCEPT ![s] = t]
  /\ UNCHANGED <<stop, status, voice, player>>

StartThread(s) ==
  /\ click[s] \in Loops /\ Go(click[s], "begin")
  /\ click' = [click EXCEPT ![s] = "none"]
  /\ UNCHANGED <<thread, stop, status, voice, player>>

(* stop_conversation sets the event before it sets the status.             *)
StopConversation ==
  /\ stop' = TRUE /\ status' = "stopped"
  /\ UNCHANGED <<click, thread, loop, voice, player>>

ClearConversation ==
  status' = "idle" /\ UNCHANGED <<click, thread, stop, loop, voice, player>>

-----------------------------------------------------------------------------
(* The thread.                                                             *)

Quiet == UNCHANGED <<click, thread, voice, player>>

(* Without a speech library the thread ends at once.                       *)
Begin(t) ==
  /\ loop[t].at = "begin"
  /\ \/ SetStatus("error") /\ Go(t, "dead")
     \/ SetStatus("listening") /\ Go(t, "check")
  /\ stop' = stop /\ Quiet

(* The head of the loop, and which microphone to use.  A look at the event *)
(* and the status that is set after it are one step, here and in Heard.    *)
Check(t) ==
  /\ loop[t].at = "check"
  /\ \/ stop /\ Go(t, "end") /\ status' = status
     \/ /\ ~stop /\ SetStatus("listening")
        /\ \E d \in {"own", "default"} :
             loop' = [loop EXCEPT ![t].at = "open", ![t].device = d]
  /\ stop' = stop /\ Quiet

(* The exceptions that leave capture_speech.  A timeout does not end the   *)
(* run of hardware errors.                                                 *)
Failed(t, why) ==
  \/ /\ why \in {"timeout", "unclear"} /\ SetStatus("listening")
     /\ LeaveCapture(t, "check", IF why = "timeout" THEN loop[t].errors ELSE 0)
  \/ why = "service" /\ SetStatus("error") /\ LeaveCapture(t, "end", 0)
  \/ /\ why = "hardware" /\ SetStatus("error")
     /\ IF loop[t].errors + 1 >= MaxErrors THEN LeaveCapture(t, "end", 0)
        ELSE LeaveCapture(t, "check", loop[t].errors + 1)

(* A device that fails for good: the preferred one is followed by the      *)
(* default one, whose last error is reported.                              *)
NextDevice(t, why) ==
  IF loop[t].device = "own"
  THEN /\ loop' = [loop EXCEPT ![t].at = "open", ![t].device = "default",
                               ![t].tries = 0]
       /\ status' = status
  ELSE Failed(t, why)

OpenMicrophone(t) ==
  /\ loop[t].at = "open"
  /\ \/ Go(t, "listen") /\ status' = status
     \/ NextDevice(t, "hardware")
  /\ stop' = stop /\ Quiet

(* One attempt.  vosk and whisper have one device and no retries: what they*)
(* raise (also for an empty transcript) is that of the default device.     *)
Listen(t) ==
  /\ loop[t].at = "listen"
  /\ \/ LeaveCapture(t, "heard", 0) /\ status' = status
     \/ \E why \in {"timeout", "unclear"} :
          IF loop[t].tries < Retries
          THEN loop' = [loop EXCEPT ![t].tries = @ + 1] /\ status' = status
          ELSE NextDevice(t, why)
     \/ \E why \in {"service", "hardware"} : NextDevice(t, why)
  /\ stop' = stop /\ Quiet

(* Stopped meanwhile; "goodbye"; no wake phrase; or a question, which goes *)
(* to the router.                                                          *)
Heard(t) ==
  /\ loop[t].at = "heard"
  /\ \/ Go(t, "end") /\ stop' = TRUE /\ status' = status
     \/ ~stop /\ Go(t, "check") /\ UNCHANGED <<stop, status>>
     \/ ~stop /\ SetStatus("processing") /\ Go(t, "asked") /\ stop' = stop
  /\ Quiet

Replied(t) ==
  /\ loop[t].at = "asked" /\ Go(t, IF stop THEN "end" ELSE "say")
  /\ UNCHANGED <<stop, status>> /\ Quiet

(* Bound: a thread has one speech worker at a time.                        *)
Say(t) ==
  /\ loop[t].at = "say" /\ voice[t] = "none"
  /\ SetStatus("speaking") /\ Go(t, "speak")
  /\ voice' = [voice EXCEPT ![t] = "making"]
  /\ UNCHANGED <<click, thread, stop, player>>

(* stop_speaking ends the speech of the process that is registered, be it  *)
(* another thread's, and no speech that is still being made.               *)
Interrupt(t) ==
  /\ loop[t].at = "speak" /\ stop /\ voice[t] # "none" /\ Go(t, "check")
  /\ voice' = [u \in Loops |-> IF u = player THEN "none" ELSE voice[u]]
  /\ player' = NoThread /\ UNCHANGED <<click, thread, stop, status>>

Spoken(t) ==
  /\ loop[t].at = "speak" /\ voice[t] = "none" /\ Go(t, "check")
  /\ UNCHANGED <<stop, status>> /\ Quiet

End(t) ==
  /\ loop[t].at = "end" /\ SetStatus("stopped")
  /\ LeaveCapture(t, "dead", 0)
  /\ stop' = stop /\ Quiet

LoopStep(t) ==
  \/ Begin(t) \/ Check(t) \/ OpenMicrophone(t) \/ Listen(t) \/ Heard(t)
  \/ Replied(t) \/ Say(t) \/ Interrupt(t) \/ Spoken(t) \/ End(t)

(* The speech worker: synthesis over the network (or none), then a process *)
(* that plays.  At its end it forgets whatever process is registered.      *)
Play(t) ==
  /\ voice[t] = "making" /\ voice' = [voice EXCEPT ![t] = "playing"]
  /\ player' = t /\ UNCHANGED <<click, thread, stop, status, loop>>

Played(t) ==
  /\ voice[t] = "playing" /\ voice' = [voice EXCEPT ![t] = "none"]
  /\ player' = NoThread /\ UNCHANGED <<click, thread, stop, status, loop>>

SessionStep(s) == ClearStop(s) \/ CreateThread(s) \/ StartThread(s)

ConvNext ==
  \/ \E s \in Sessions : StartConversation(s) \/ SessionStep(s)
  \/ StopConversation \/ ClearConversation
  \/ \E t \in Loops : LoopStep(t) \/ Play(t) \/ Played(t)

(* Threads run: listening, the router and synthesis have timeouts, and a   *)
(* played reply ends.  Nobody is obliged to click.                         *)
ConvFairness ==
  /\ \A s \in Sessions : WF_convVars(SessionStep(s))
  /\ \A t \in Loops : WF_convVars(LoopStep(t)) /\ WF_convVars(Play(t) \/ Played(t))

ConvSpec == ConvInit /\ [][ConvNext]_convVars /\ ConvFairness

-----------------------------------------------------------------------------
(* Properties.                                                             *)

(* Once the conversation was stopped, by a click or by voice, its thread   *)
(* ends, whatever it is doing, and although sessions click start meanwhile *)
(* or are half way through an earlier start, which may put a new thread in *)
(* its place.                                                              *)
StopIsObeyed ==
  \A t \in Loops :
    (stop /\ thread = t /\ Alive(t)) ~> (loop[t].at = "dead" \/ thread # t)

=============================================================================
