------------------------------ MODULE Records ------------------------------
(***************************************************************************)
(* The operator's console, and the records kept beside it that share no    *)
(* state with it or each other: the event journal, the command history,    *)
(* the form logs, the exchanges with the AI provider and the memory graph. *)
(* A run picks one of them at the start, so that its states are those of   *)
(* the six side by side.                                                   *)
(***************************************************************************)
EXTENDS Console, EventJournal, CommandHistory, FormLogs, AiConnector,
        MemoryGraph

VARIABLE part

recordVars == <<journalVars, historyVars, formVars, aiVars, graphVars>>

PartsInit ==
  /\ Init /\ JournalInit /\ HistoryInit /\ FormInit /\ AiInit /\ GraphInit
  /\ part \in {"console", "journal", "history", "forms", "ai", "graph"}
  /\ part = "ai" \/ history = << >>

PartsNext ==
  /\ part' = part
  /\ \/ /\ part = "console" /\ Next /\ UNCHANGED recordVars
     \/ /\ part = "journal" /\ JournalNext
        /\ UNCHANGED <<consoleVars, historyVars, formVars, aiVars, graphVars>>
     \/ /\ part = "history" /\ HistoryNext
        /\ UNCHANGED <<consoleVars, journalVars, formVars, aiVars, graphVars>>
     \/ /\ part = "forms" /\ FormNext
        /\ UNCHANGED <<consoleVars, journalVars, historyVars, aiVars,
                       graphVars>>
     \/ /\ part = "ai" /\ AiNext
        /\ UNCHANGED <<consoleVars, journalVars, historyVars, formVars,
                       graphVars>>
     \/ /\ part = "graph" /\ GraphNext
        /\ UNCHANGED <<consoleVars, journalVars, historyVars, formVars,
                       aiVars>>

(* Only the console has steps that have to happen.                         *)
PartsSpec ==
  PartsInit /\ [][PartsNext]_<<consoleVars, recordVars, part>> /\ Fairness

PartsTypeOK ==
  /\ TypeOK /\ JournalTypeOK /\ HistoryTypeOK /\ FormTypeOK /\ AiTypeOK
  /\ GraphTypeOK

(* No answer is older than it may be: neither a query of the journal nor a *)
(* question to the AI provider.                                            *)
NothingStaleIsUsed == BehindByATick /\ UsesCurrentChoice

(* What was answered as done is still there: commands, forms, exchanges,   *)
(* links made by hand and, in an archive, what was expired.  And all parts *)
(* are well typed.                                                         *)
RecordsKept ==
  /\ PartsTypeOK
  /\ AnsweredIsRemembered /\ AcceptedIsShown /\ ExchangesKept
  /\ LinksStay /\ ExpiredIsArchived

=============================================================================
