------------------------------ MODULE Services ------------------------------
(***************************************************************************)
(* Device sync, the live class, the website chat, the dashboard's voice    *)
(* conversation, the live feeds and the voice loop share no state.  A run  *)
(* of this module picks one of them at the start, so that its states are   *)
(* those of all side by side.  Connections and pages of LiveFeed only share*)
(* the state they read: a run has one or the other.                        *)
(***************************************************************************)
EXTENDS DeviceSync, LiveClass, PublicChat, Conversation, LiveFeed,
        VoiceLoop

VARIABLE service

vars ==
  <<syncVars, classVars, chatVars, convVars, feedVars, voiceVars, service>>

TypeOK ==
  /\ SyncTypeOK /\ ClassTypeOK /\ ChatTypeOK /\ ConvTypeOK /\ FeedTypeOK
  /\ VoiceTypeOK

Init ==
  /\ SyncInit /\ ClassInit /\ ChatInit /\ ConvInit /\ FeedInit /\ VoiceInit
  /\ service \in {"sync", "class", "chat", "conversation", "feed", "page",
                  "voice"}
  /\ service \in {"feed", "page"} \/ kept = Unreadable
  /\ service = "voice" \/ wakeNeeded
  /\ service = "chat" \/ config = [enabled |-> TRUE, fallback |-> TRUE]

Next ==
  /\ service' = service
  /\ \/ /\ service = "sync" /\ SyncNext
        /\ UNCHANGED <<classVars, chatVars, convVars, feedVars, voiceVars>>
     \/ /\ service = "class" /\ ClassNext
        /\ UNCHANGED <<syncVars, chatVars, convVars, feedVars, voiceVars>>
     \/ /\ service = "chat" /\ ChatNext
        /\ UNCHANGED <<syncVars, classVars, convVars, feedVars, voiceVars>>
     \/ /\ service = "conversation" /\ ConvNext
        /\ UNCHANGED <<syncVars, classVars, chatVars, feedVars, voiceVars>>
     \/ /\ \/ service = "feed" /\ UNCHANGED dashCache /\ FeedNext
           \/ service = "page" /\ UNCHANGED feed /\ FeedNext
        /\ UNCHANGED <<syncVars, classVars, chatVars, convVars, voiceVars>>
     \/ /\ service = "voice" /\ VoiceNext
        /\ UNCHANGED <<syncVars, classVars, chatVars, convVars, feedVars>>

(* The fairness of each service, when it is the one that runs.             *)
Fairness ==
  /\ \A s \in Syncers : WF_syncVars(service = "sync" /\ SyncStep(s))
  /\ \A s \in Syncers : \A p \in Devices :
       s[2] = "agent" => SF_syncVars(service = "sync" /\ BeginSync(s, p))
  /\ \A v \in Viewers : WF_classVars(service = "class" /\ Send(v))
  /\ \A q \in Questions :
       /\ WF_chatVars(service = "chat" /\ ThreadStep(q))
       /\ SF_chatVars(service = "chat" /\ (Ask(q) \/ AskByToken(q)))
  /\ WF_chatVars(service = "chat" /\ TakeCall)
  /\ WF_chatVars(service = "chat" /\ Tick)
  /\ \A s \in Sessions : WF_convVars(service = "conversation" /\ SessionStep(s))
  /\ \A t \in Loops :
       /\ WF_convVars(service = "conversation" /\ LoopStep(t))
       /\ WF_convVars(service = "conversation" /\ (Play(t) \/ Played(t)))
  /\ \A c \in Feeds : WF_feedVars(service = "feed" /\ FeedStep(c))
  /\ \A p \in Pages : WF_feedVars(service = "page" /\ Render(p))
  /\ WF_feedVars(service = "page" /\ CacheAges)
  /\ WF_voiceVars(service = "voice" /\ VoiceStep)

Spec == Init /\ [][Next]_vars /\ Fairness

(* Whoever looks on comes to see what is: the class its board, browsers and*)
(* dashboard pages the HI state.                                           *)
ViewersCatchUp ==
  BoardsCatchUp /\ ConnectionsCatchUp /\ PagesCatchUp

(* Who asks for an end gets it: in the dashboard's conversation by a click,*)
(* in the voice loop by a word.                                            *)
StopsAreObeyed == StopIsObeyed /\ ExitWordEndsLoop

(* Nobody gets in or through whom the code means to keep out: a client with*)
(* a revoked token, words that were said before the wake phrase.           *)
OnlyTheMeantIsDone == RevokedTokenStops /\ OnlyWokenCommandsRun

=============================================================================
