---------------------------- MODULE AiConnector ----------------------------
(***************************************************************************)
(* Jarvis/ai_connector.py: a question to the AI provider.  Threads of the  *)
(* API, the dashboard and the command line share two files, the chosen     *)
(* provider and model and the history of exchanges; each process has its   *)
(* own ring of the latest exchanges.  What is asked and replied is left    *)
(* out.                                                                    *)
(***************************************************************************)
EXTENDS Integers, Sequences, SequencesExt

CONSTANTS
  Asks,       \* threads, each with one question
  ProcessOf,  \* thread -> the process it runs in
  Unlocked,   \* holder of a lock nobody holds
  MaxHistory, \* _MAX_HISTORY
  MaxChoices, \* bound: choices of a provider and model
  MaxStarts   \* bound: restarts of a process

VARIABLES
  choice,   \* the pair in ai_model_config.json: choices are numbered
  choosing, \* the file is being written
  asking,   \* thread -> where it is in ask_ai, and what it has read
  ring,     \* process -> _HISTORY
  history,  \* ai_history.jsonl
  historyLock,
  saved,    \* every exchange in the order it was saved
  starts

aiVars ==
  <<choice, choosing, asking, ring, history, historyLock, saved, starts>>

ASSUME AiAssumption ==
  /\ MaxHistory \in Nat \ {0} /\ MaxChoices \in Nat \ {0} /\ MaxStarts \in Nat
  /\ Asks \subseteq DOMAIN ProcessOf /\ Unlocked \notin Asks

Processes == Range(ProcessOf)
Lines == 2 * MaxHistory
Newest(s, n) == IF Len(s) > n THEN SubSeq(s, Len(s) - n + 1, Len(s)) ELSE s

(* The pair that get_model_config falls back to.                           *)
DefaultChoice == 0
Ready == [at |-> "new", since |-> 0, wrote |-> FALSE, provider |-> 0,
          model |-> 0, lines |-> << >>]

(* Exchanges of an earlier day fill the file.                              *)
Earlier == [i \in 1..Lines |-> "earlier"]
Exchanges == Asks \union {"earlier"}

AiTypeOK ==
  /\ choice \in 0..MaxChoices /\ choosing \in BOOLEAN
  /\ \A t \in Asks :
       /\ asking[t].at \in
            {"new", "status", "provider", "model", "call", "replied", "save",
             "trim", "done", "told", "failed"}
       /\ {asking[t].since, asking[t].provider, asking[t].model}
            \subseteq 0..MaxChoices
       /\ asking[t].lines \in Seq(Exchanges) /\ asking[t].wrote \in BOOLEAN
  /\ \A p \in Processes :
       ring[p] \in Seq(Exchanges) /\ Len(ring[p]) <= MaxHistory
  /\ history \in Seq(Exchanges) /\ Len(history) <= Lines + 1
  /\ historyLock \in Asks \union {Unlocked}
  /\ saved \in Seq(Exchanges) /\ starts \in 0..MaxStarts

AiInit ==
  /\ choice = 1 /\ choosing = FALSE /\ asking = [t \in Asks |-> Ready]
  /\ history \in {<< >>, Earlier} /\ saved = history /\ historyLock = Unlocked
  /\ ring = [p \in Processes |-> Newest(history, MaxHistory)] /\ starts = 0

Reading == {"status", "provider", "model", "call"}
Files == <<choice, choosing, history, historyLock, saved>>
Set(t, r) == asking' = [asking EXCEPT ![t] = r]
Goto(t, at) == Set(t, [asking[t] EXCEPT !.at = at])

-----------------------------------------------------------------------------
(* The model selector of the dashboard.                                    *)

(* Asks that are in the middle of reading notice a write.                  *)
Written ==
  asking' = [t \in Asks |->
               [asking[t] EXCEPT !.wrote = asking[t].at \in Reading]]

(* Another pair than that of the file is selected: write_text first empties*)
(* the file.                                                               *)
SelectModel ==
  /\ ~choosing /\ choice < MaxChoices /\ choosing' = TRUE /\ Written
  /\ UNCHANGED <<choice, ring, history, historyLock, saved, starts>>

(* set_model_config ends.                                                  *)
SetModelConfig ==
  /\ choosing /\ choosing' = FALSE /\ choice' = choice + 1 /\ Written
  /\ UNCHANGED <<ring, history, historyLock, saved, starts>>

(* Mutant: the configuration is read once, when the module is loaded.      *)
ConfigAtImport == 1

(* get_model_config takes no lock: it cannot parse an empty file.          *)
ModelConfig == IF choosing THEN DefaultChoice ELSE choice

-----------------------------------------------------------------------------
(* ask_ai, ask_ai_stream and plan_with_ai.                                 *)

AskAi(t) ==
  /\ asking[t].at = "new"
  /\ Set(t, [asking[t] EXCEPT !.at = "status", !.since = choice,
                              !.wrote = choosing])
  /\ UNCHANGED <<Files, ring, starts>>

(* ai_status: a provider that is not ready is the answer.                  *)
AiStatus(t) ==
  /\ asking[t].at = "status"
  /\ Goto(t, "provider") \/ Set(t, [Ready EXCEPT !.at = "told"])
  /\ UNCHANGED <<Files, ring, starts>>

(* Provider and model are two readings of the file.                        *)
ActiveProvider(t) ==
  /\ asking[t].at = "provider"
  /\ Set(t, [asking[t] EXCEPT !.at = "model", !.provider = ModelConfig])
  /\ UNCHANGED <<Files, ring, starts>>
ActiveModel(t) ==
  /\ asking[t].at = "model"
  /\ Set(t, [asking[t] EXCEPT !.at = "call", !.model = ModelConfig])
  /\ UNCHANGED <<Files, ring, starts>>

(* A call fails, or a stream's reader goes away: nothing is recorded.  A   *)
(* plan is not recorded either.                                            *)
Outcomes == {"replied", "done", "failed"}

(* The prompt is built and sent to the provider.                           *)
CallModel(t) ==
  /\ asking[t].at = "call"
  /\ \E to \in Outcomes : Set(t, [Ready EXCEPT !.at = to])
  /\ UNCHANGED <<Files, ring, starts>>

(* The exchange enters the ring of this process.                           *)
Remember(t) ==
  LET p == ProcessOf[t]
  IN /\ asking[t].at = "replied" /\ Goto(t, "save")
     /\ ring' = [ring EXCEPT ![p] = Newest(Append(@, t), MaxHistory)]
     /\ UNCHANGED <<Files, starts>>

(* Mutant: the file is appended to and trimmed without its lock.           *)
AppendUnlocked(t) ==
  /\ \/ /\ asking[t].at = "save" /\ history' = Append(history, t)
        /\ saved' = Append(saved, t)
        /\ Set(t, [asking[t] EXCEPT !.at = "trim", !.lines = history'])
     \/ /\ asking[t].at = "trim" /\ history' = Newest(asking[t].lines, Lines)
        /\ Set(t, [asking[t] EXCEPT !.at = "done", !.lines = << >>])
        /\ UNCHANGED saved
  /\ UNCHANGED <<choice, choosing, historyLock, ring, starts>>

(* _append_history_to_disk: the line is appended and the file read; then   *)
(* it is written again with the newest lines only.                         *)
AppendHistory(t) ==
  /\ \/ /\ asking[t].at = "save" /\ historyLock = Unlocked /\ historyLock' = t
        /\ history' = Append(history, t) /\ saved' = Append(saved, t)
        /\ Set(t, [asking[t] EXCEPT !.at = "trim", !.lines = history'])
     \/ /\ asking[t].at = "trim" /\ historyLock' = Unlocked
        /\ history' = Newest(asking[t].lines, Lines)
        /\ Set(t, [asking[t] EXCEPT !.at = "done", !.lines = << >>])
        /\ UNCHANGED saved
  /\ UNCHANGED <<choice, choosing, ring, starts>>

(* A process starts: _load_history_from_disk waits for the lock.  Bound:   *)
(* it starts when none of its threads is asking.                           *)
LoadHistoryFromDisk(p) ==
  /\ starts < MaxStarts /\ starts' = starts + 1 /\ historyLock = Unlocked
  /\ \A t \in Asks : ProcessOf[t] = p =>
       asking[t].at \in {"new", "done", "told", "failed"}
  /\ ring' = [ring EXCEPT ![p] = Newest(history, MaxHistory)]
  /\ UNCHANGED <<Files, asking>>

(* A stream and a plan take the steps of ask_ai.                           *)
AskStep(t) ==
  \/ AskAi(t) \/ AiStatus(t) \/ ActiveProvider(t) \/ ActiveModel(t)
  \/ CallModel(t) \/ Remember(t) \/ AppendHistory(t)

AiNext ==
  \/ SelectModel \/ SetModelConfig
  \/ \E t \in Asks : AskStep(t)
  \/ \E p \in Processes : LoadHistoryFromDisk(p)

AiSpec == AiInit /\ [][AiNext]_aiVars

-----------------------------------------------------------------------------
(* Properties.                                                             *)

(* Of all exchanges of all processes the history file holds the newest     *)
(* ones, in the order they ended: appending a line and trimming the file   *)
(* lose nothing that another process writes meanwhile.                     *)
ExchangesKept ==
  (\A t \in Asks : asking[t].at # "trim") => history = Newest(saved, Lines)

(* A question goes to a provider, and to a model, that was chosen no       *)
(* longer ago than when it was asked; to the default only if a choice was  *)
(* being written meanwhile.  (Provider and model may be of two choices.)   *)
UsesCurrentChoice ==
  \A t \in Asks : asking[t].at = "call" =>
    \A c \in {asking[t].provider, asking[t].model} :
      c >= asking[t].since \/ (c = DefaultChoice /\ asking[t].wrote)

=============================================================================
