------------------------------ MODULE VoiceLoop ------------------------------
(***************************************************************************)
(* voice_input.py --loop: listen, look for the wake phrase, route what     *)
(* follows it, speak the answer.  speak does not wait, so the microphone   *)
(* also hears what the loop itself says.  Speech is a sequence of words.   *)
(***************************************************************************)
EXTENDS Integers, FiniteSets, Sequences, SequencesExt

CONSTANTS
  Phrase,    \* wake_phrase of the profile, in words
  Letters,   \* word -> number of its letters
  ExitWords, \* "exit", "quit", "stop"
  Replies,   \* what the loop may say
  MaxWords   \* bound: words of one utterance

VARIABLES
  wakeNeeded, \* --loop without --no-wake-phrase
  round,      \* where the loop is
  said,       \* the transcript of the round
  command,    \* what was routed in it
  speech      \* the answer that is being played

voiceVars == <<wakeNeeded, round, said, command, speech>>

ASSUME VoiceAssumption ==
  /\ MaxWords \in Nat /\ Phrase \in Seq(DOMAIN Letters)
  /\ Replies \subseteq Seq(DOMAIN Letters) \ {<< >>}

Utterances == BoundedSeq(DOMAIN Letters, MaxWords) \ {<< >>}

VoiceTypeOK ==
  /\ wakeNeeded \in BOOLEAN
  /\ round \in {"capture", "heard", "routed", "ignored", "over"}
  /\ said \in Utterances \union Replies \union {<< >>}
  /\ command = << >> \/ (round # "capture" /\ IsSuffix(command, said))
  /\ speech \in Replies \union {<< >>}

VoiceInit ==
  /\ wakeNeeded \in BOOLEAN /\ round = "capture"
  /\ said = << >> /\ command = << >> /\ speech = << >>

-----------------------------------------------------------------------------
(* _wake_word_match.  What is left after the phrase, or NoMatch.           *)

NoMatch == <<"no match">>
From(words, i) == SubSeq(words, i, Len(words))

(* Three quarters of the words of the phrase are among the first words, in *)
(* any order; wake_fuzzy_threshold of the profile is at its default.       *)
WakeWindow == Len(Phrase) + 2
Near(words) ==
  LET window == ToSet(SubSeq(words, 1, Min({WakeWindow, Len(words)}))) IN
  4 * Cardinality({i \in DOMAIN Phrase : Phrase[i] \in window})
    >= 3 * Len(Phrase)

(* The letters and blanks before the i-th word.                            *)
Offset(words, i) ==
  FoldLeft(LAMBDA n, w : n + Letters[w] + 1, 0, SubSeq(words, 1, i - 1))

(* The phrase begins in the first half of what was said.                   *)
Starts(words) ==
  {i \in DOMAIN words :
     /\ IsPrefix(Phrase, From(words, i))
     /\ Offset(words, i) <= (Offset(words, Len(words) + 1) - 1) \div 2}

(* Mutant: the words after the phrase are counted from its length.         *)
WakeMatchShort(words) ==
  IF IsPrefix(Phrase, words) \/ Near(words)
  THEN From(words, Len(Phrase) + 1) ELSE NoMatch

(* Near the start, the whole window is taken for the phrase: a short       *)
(* command behind a greeting is lost with it.                              *)
WakeMatch(words) ==
  IF IsPrefix(Phrase, words) THEN From(words, Len(Phrase) + 1)
  ELSE IF Near(words) THEN From(words, Min({WakeWindow, Len(words)}) + 1)
  ELSE IF Starts(words) # {}
       THEN From(words, Min(Starts(words)) + Len(Phrase))
  ELSE NoMatch

-----------------------------------------------------------------------------
(* One round.                                                              *)

(* Somebody speaks, or the answer is heard.                                *)
Capture ==
  /\ round = "capture"
  /\ said' \in Utterances \union ({speech} \ {<< >>})
  /\ round' = "heard" /\ UNCHANGED <<wakeNeeded, command, speech>>

(* Silence, no microphone, no answer of the service: the loop is left with *)
(* an error.  So it is when the router raises.                             *)
LoopFails ==
  /\ round \in {"capture", "heard"} /\ round' = "over"
  /\ UNCHANGED <<wakeNeeded, said, command, speech>>

Ignore == round' = "ignored" /\ UNCHANGED command
RouteWords(words) == round' = "routed" /\ command' = words

(* process_voice_command, with the call of the router.                     *)
ProcessVoice ==
  /\ round = "heard"
  /\ LET rest == IF Phrase = << >> THEN NoMatch ELSE WakeMatch(said) IN
     \/ rest = << >> /\ Ignore
     \/ rest \notin {<< >>, NoMatch} /\ RouteWords(rest)
     \/ /\ rest = NoMatch
        /\ IF wakeNeeded /\ Phrase # << >> THEN Ignore ELSE RouteWords(said)
  /\ UNCHANGED <<wakeNeeded, said, speech>>

(* What was routed is answered, over an answer that still plays.           *)
PrintResponse ==
  IF round = "ignored" THEN UNCHANGED speech ELSE speech' \in Replies

(* Mutant: an utterance that is ignored does not get to the exit words.    *)
EndRoundIgnored ==
  /\ round \in {"routed", "ignored"}
  /\ IF round = "routed" /\ Len(said) = 1 /\ said[1] \in ExitWords
     THEN round' = "over" /\ UNCHANGED speech
     ELSE /\ round' = "capture"
          /\ PrintResponse
  /\ said' = << >> /\ command' = << >> /\ UNCHANGED wakeNeeded

(* run_loop looks for the exit words in the whole transcript, after it was *)
(* routed.                                                                 *)
EndRound ==
  /\ round \in {"routed", "ignored"}
  /\ IF Len(said) = 1 /\ said[1] \in ExitWords
     THEN round' = "over" /\ UNCHANGED speech
     ELSE /\ round' = "capture"
          /\ PrintResponse
  /\ said' = << >> /\ command' = << >> /\ UNCHANGED wakeNeeded

SpeechEnds ==
  /\ speech # << >> /\ speech' = << >>
  /\ UNCHANGED <<wakeNeeded, round, said, command>>

VoiceStep == ProcessVoice \/ EndRound
VoiceNext == Capture \/ LoopFails \/ VoiceStep \/ SpeechEnds

(* What was heard is processed; somebody may or may not speak again.       *)
VoiceFairness == WF_voiceVars(VoiceStep)

VoiceSpec == VoiceInit /\ [][VoiceNext]_voiceVars /\ VoiceFairness

-----------------------------------------------------------------------------
(* Properties.                                                             *)

(* When the wake phrase is needed, what is routed was said after it and    *)
(* holds no word that was said before: not the phrase, nor a greeting.     *)
OnlyWokenCommandsRun ==
  [][(wakeNeeded /\ round' = "routed" /\ round = "heard") =>
       \E i \in 1..(Len(said) - 1) :
         /\ ToSet(Phrase) \subseteq ToSet(SubSeq(said, 1, i))
         /\ command' # << >>
         /\ IsSuffix(command', From(said, i + 1))]_voiceVars

(* A bare exit word ends the loop, also while it speaks.                   *)
ExitWordEndsLoop ==
  (round = "heard" /\ Len(said) = 1 /\ said[1] \in ExitWords) ~> round = "over"

=============================================================================
