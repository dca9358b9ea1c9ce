--------------------------- MODULE CommandHistory ---------------------------
(***************************************************************************)
(* The API's command history: a ring in memory, and a file that a restart  *)
(* reads it from.  run_command runs on the event loop, one command at a    *)
(* time; commands are numbered, and the newest Keep of them are kept.      *)
(***************************************************************************)
EXTENDS Integers, Sequences, SequencesExt

CONSTANTS
  Keep,       \* _HISTORY_KEEP
  MaxEntries, \* bound: commands
  MaxRestarts \* bound: restarts of the API

VARIABLES
  recent,      \* _CMD_HISTORY
  historyFile, \* the lines of the history file
  command,     \* the last command, and where run_command is with it
  answered,    \* commands whose answer was sent
  torn,        \* the commands answered before a rewrite was cut short
  restarts

historyVars == <<recent, historyFile, command, answered, torn, restarts>>

ASSUME HistoryAssumption ==
  Keep \in Nat \ {0} /\ MaxEntries \in Nat /\ MaxRestarts \in Nat

HistoryTypeOK ==
  /\ recent \in Seq(1..MaxEntries) /\ Len(recent) <= Keep
  /\ historyFile \in Seq(1..MaxEntries)
  /\ Len(historyFile) <= Keep + 1 + MaxRestarts
  /\ command \in [number : 0..MaxEntries,
                  at : {"down", "idle", "ran", "append", "count", "write",
                        "answer"}]
  /\ answered \subseteq 1..MaxEntries /\ torn \subseteq answered
  /\ restarts \in 0..MaxRestarts

HistoryInit ==
  /\ recent = << >> /\ historyFile = << >>
  /\ command = [number |-> 0, at |-> "idle"]
  /\ answered = {} /\ torn = {} /\ restarts = 0

NewestKept(s) ==
  IF Len(s) > Keep THEN SubSeq(s, Len(s) - Keep + 1, Len(s)) ELSE s
At(place) == command.at = place
GoOn(place) == command' = [command EXCEPT !.at = place]

(* The router runs the command; if the API dies in it, nothing is recorded.*)
RunCommand ==
  /\ At("idle") /\ command.number < MaxEntries
  /\ command' = [number |-> command.number + 1, at |-> "ran"]
  /\ UNCHANGED <<recent, historyFile, answered, torn, restarts>>

(* Mutant: the answer is sent before the command is recorded.              *)
RecordAfterAnswer ==
  /\ At("ran") /\ GoOn("append")
  /\ recent' = NewestKept(Append(recent, command.number))
  /\ answered' = answered \union {command.number}
  /\ UNCHANGED <<historyFile, torn, restarts>>

RecordCommand ==
  /\ At("ran") /\ GoOn("append")
  /\ recent' = NewestKept(Append(recent, command.number))
  /\ UNCHANGED <<historyFile, answered, torn, restarts>>

(* _save_history_entry, under the lock: the line is appended; of too many  *)
(* lines the newest are read and written again.  write_text first empties  *)
(* the file: at "write" the lines are in memory only.                      *)
SaveHistoryEntry ==
  /\ \/ /\ At("append") /\ GoOn("count")
        /\ historyFile' = Append(historyFile, command.number)
     \/ /\ At("count") /\ Len(historyFile) <= Keep
        /\ GoOn("answer") /\ UNCHANGED historyFile
     \/ /\ At("count") /\ Len(historyFile) > Keep
        /\ GoOn("write") /\ UNCHANGED historyFile
     \/ At("write") /\ historyFile' = NewestKept(historyFile) /\ GoOn("answer")
  /\ UNCHANGED <<recent, answered, torn, restarts>>

AnswerCommand ==
  /\ At("answer") /\ GoOn("idle")
  /\ answered' = answered \union {command.number}
  /\ UNCHANGED <<recent, historyFile, torn, restarts>>

(* The API is killed: the ring is gone, and so are lines to write again.   *)
KillApi ==
  /\ restarts < MaxRestarts /\ ~At("down") /\ restarts' = restarts + 1
  /\ recent' = << >> /\ GoOn("down")
  /\ IF At("write") THEN historyFile' = << >> /\ torn' = answered
                    ELSE UNCHANGED <<historyFile, torn>>
  /\ UNCHANGED answered

(* _load_history, at the start.                                            *)
LoadHistory ==
  /\ At("down") /\ recent' = NewestKept(historyFile) /\ GoOn("idle")
  /\ UNCHANGED <<historyFile, answered, torn, restarts>>

HistoryNext ==
  RunCommand \/ RecordCommand \/ SaveHistoryEntry \/ AnswerCommand \/ KillApi
  \/ LoadHistory

HistorySpec == HistoryInit /\ [][HistoryNext]_historyVars

-----------------------------------------------------------------------------
(* A command whose answer was sent is in the history that /api/history     *)
(* shows, across restarts, unless Keep newer ones are or the API was       *)
(* killed between emptying the file and writing it again.                  *)
AnsweredIsRemembered ==
  At("idle") =>
    \A c \in answered \ torn :
      \/ Contains(recent, c)
      \/ Len(recent) = Keep /\ \A d \in ToSet(recent) : d > c

=============================================================================
