------------------------------ MODULE FormLogs ------------------------------
(***************************************************************************)
(* The two logs that the API's forms fill and the dashboard shows:         *)
(* shared/public_intake.py (enquiries and sign-ups) and                    *)
(* shared/local_admin_registry.py (who administers this site from which    *)
(* browser), which the dashboard's Admin page can reset.  A record is a    *)
(* number; its session says whose record it is.                            *)
(***************************************************************************)
EXTENDS Integers, Sequences, SequencesExt, FiniteSets, FiniteSetsExt

CONSTANTS
  Submitters, \* threads and processes that append
  Unheld,     \* holder of a lock nobody holds
  Accounts,   \* session keys: a user name and a device
  Show,       \* the limit of a reader, in lines
  MaxRecords, \* bound: records
  MaxResets   \* bound: resets of the registry

VARIABLES
  lines,    \* log -> the records of the file under its name
  inode,    \* log -> which file has its name (a reset unlinks it)
  lock,     \* log -> who holds its lock file
  submit,   \* submitter -> its record, and the file it has opened
  accepted, \* log -> records whose form was answered since the last reset
  records, resets

formVars == <<lines, inode, lock, submit, accepted, records, resets>>

ASSUME FormAssumption ==
  /\ Show \in Nat \ {0} /\ MaxRecords \in Nat /\ MaxResets \in Nat
  /\ Unheld \notin Submitters

Logs == {"intake", "users"}
FreshForm == [at |-> "none", log |-> "intake", number |-> 0, inode |-> 0,
              account |-> "none"]
FormRecord == [number : 1..MaxRecords, account : Accounts]

FormTypeOK ==
  /\ lines \in [Logs -> Seq(FormRecord)]
  /\ inode \in [Logs -> 0..MaxResets]
  /\ lock \in [Logs -> Submitters \union {Unheld}]
  /\ submit \in [Submitters ->
                   [at : {"none", "wait", "open", "written"}, log : Logs,
                    number : 0..MaxRecords, inode : 0..MaxResets,
                    account : Accounts \union {"none"}]]
  /\ accepted \in [Logs -> SUBSET FormRecord]
  /\ records \in 0..MaxRecords /\ resets \in 0..MaxResets

FormInit ==
  /\ lines = [l \in Logs |-> << >>] /\ inode = [l \in Logs |-> 0]
  /\ lock = [l \in Logs |-> Unheld]
  /\ submit = [s \in Submitters |-> FreshForm]
  /\ accepted = [l \in Logs |-> {}] /\ records = 0 /\ resets = 0

RecordOf(s) == [number |-> submit[s].number, account |-> submit[s].account]

-----------------------------------------------------------------------------
(* Those who append.                                                       *)

NewForm(s, l) ==
  /\ submit[s].at = "none" /\ records < MaxRecords /\ records' = records + 1
  /\ \E a \in Accounts :
       submit' = [submit EXCEPT ![s] = [at |-> "wait", log |-> l,
                    number |-> records', inode |-> 0, account |-> a]]
  /\ UNCHANGED <<lines, inode, lock, accepted, resets>>

(* submit_public_enquiry and submit_public_signup make a record.           *)
SubmitIntake(s) == NewForm(s, "intake")

(* record_local_admin_user, for /api/local-admin-sync.                     *)
SyncUser(s) == NewForm(s, "users")

(* _append_record waits for the lock, then opens the file for appending.   *)
OpenLog(s) ==
  LET l == submit[s].log
  IN /\ submit[s].at = "wait" /\ lock[l] = Unheld
     /\ lock' = [lock EXCEPT ![l] = s]
     /\ submit' = [submit EXCEPT ![s].at = "open", ![s].inode = inode[l]]
     /\ UNCHANGED <<lines, inode, accepted, records, resets>>

(* The line goes to the file that was opened, and the lock is released.    *)
WriteLine(s) ==
  LET l == submit[s].log
  IN /\ submit[s].at = "open" /\ lock' = [lock EXCEPT ![l] = Unheld]
     /\ lines' = IF submit[s].inode = inode[l]
                 THEN [lines EXCEPT ![l] = Append(@, RecordOf(s))] ELSE lines
     /\ submit' = [submit EXCEPT ![s].at = "written"]
     /\ accepted' = [accepted EXCEPT ![l] = @ \union {RecordOf(s)}]
     /\ UNCHANGED <<inode, records, resets>>

(* The form is answered.                                                   *)
AnswerForm(s) ==
  /\ submit[s].at = "written"
  /\ submit' = [submit EXCEPT ![s] = FreshForm]
  /\ UNCHANGED <<lines, inode, lock, accepted, records, resets>>

(* Mutant: the reset does not wait for the lock.                           *)
ClearUsersUnlocked ==
  /\ resets < MaxResets /\ resets' = resets + 1
  /\ lines' = [lines EXCEPT !["users"] = << >>]
  /\ inode' = [inode EXCEPT !["users"] = @ + 1]
  /\ accepted' = [accepted EXCEPT !["users"] = {}]
  /\ UNCHANGED <<lock, submit, records>>

(* clear_local_admin_users unlinks the log under its lock.                 *)
ClearUsers ==
  /\ lock["users"] = Unheld /\ resets < MaxResets /\ resets' = resets + 1
  /\ lines' = [lines EXCEPT !["users"] = << >>]
  /\ inode' = [inode EXCEPT !["users"] = @ + 1]
  /\ accepted' = [accepted EXCEPT !["users"] = {}]
  /\ UNCHANGED <<lock, submit, records>>

-----------------------------------------------------------------------------
(* Those who read: no lock is taken, and no line is half written.          *)

LastLines(l) ==
  LET n == Len(lines[l]) IN SubSeq(lines[l], Max({1, n - Show + 1}), n)

(* read_public_intake: the newest first.                                   *)
ReadIntake == Reverse(LastLines("intake"))

(* get_local_admin_users: the latest record of every session among the     *)
(* lines read.                                                             *)
Users ==
  LET read == LastLines("users")
      latest(a) == Max({i \in DOMAIN read : read[i].account = a})
  IN {read[latest(a)] : a \in {read[i].account : i \in DOMAIN read}}

FormNext ==
  \/ \E s \in Submitters : SubmitIntake(s) \/ SyncUser(s) \/ OpenLog(s)
                           \/ WriteLine(s) \/ AnswerForm(s)
  \/ ClearUsers

FormSpec == FormInit /\ [][FormNext]_formVars

-----------------------------------------------------------------------------
(* Properties.                                                             *)

(* What a visitor was told is received is shown, whatever forms are sent   *)
(* and the registry's reset do at the same time: of the records since the  *)
(* last reset the inbox lists each one, and the registry the latest of     *)
(* each session, unless Show newer lines are in its log.                   *)
AcceptedIsShown ==
  /\ \A r \in accepted["intake"] :
       Contains(ReadIntake, r) \/ Len(ReadIntake) = Show
  /\ \A r \in accepted["users"] :
       \/ \E u \in Users : u.account = r.account
       \/ Len(LastLines("users")) = Show

=============================================================================
