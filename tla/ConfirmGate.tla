----------------------------- MODULE ConfirmGate -----------------------------
(***************************************************************************)
(* The confirmation gate of Jarvis (Jarvis/router.py).  The web API, the   *)
(* dashboard, voice and the command line all run commands against one      *)
(* session in profiles.json.  A command of high risk is stored there, field*)
(* by field, until `confirm` executes it, `cancel` discards it or five     *)
(* minutes have passed.  Each access to the file is one locked load and    *)
(* save; between two of them other interfaces run.                         *)
(***************************************************************************)
EXTENDS Integers, FiniteSets

CONSTANTS
  Clients,     \* interfaces that run commands
  Phrases,     \* what is typed or said
  Exact,       \* phrase -> action of the table of aliases, or None
  Prefix,      \* phrase -> action of the prefix rules ("error": bad value)
  Nearest,     \* phrase -> action of the alias a typo is close to, or None
  HighRisk,    \* actions of risk tier "high"
  None,
  TTL,         \* _CONFIRM_TTL_SECONDS in ticks
  MaxCommands, \* bound: commands run
  MaxKills     \* bound: interfaces killed within a command

(* "None" is no time.                                                      *)
ASSUME GateAssumption ==
  /\ TTL \in Nat /\ None \notin Nat
  /\ MaxCommands \in Nat /\ MaxKills \in Nat

VARIABLES
  session,  \* the pending_* fields of profiles.json
  at,       \* where each client is in process_intent
  cmd,      \* the action and payload each client has in hand
  armed,    \* ticks since pending_action was written, TTL + 1 if never
  halfway,  \* a client was killed between the fields of one command
  commands, \* commands run so far
  kills

gateVars == <<session, at, cmd, armed, halfway, commands, kills>>

Empty == [action |-> None, payload |-> None, command |-> None, since |-> None]
Idle  == [action |-> None, payload |-> None, phrase |-> None]

(* The updates of the pending fields, in the order process_intent makes    *)
(* them; a client at one of them is about to make it.                      *)
Storing == {"action", "payload", "command", "since"}

GateTypeOK ==
  /\ session.action \in HighRisk \union {None}
  /\ session.payload \in Phrases \union {None}
  /\ session.command \in Phrases \union {None}
  /\ session.since \in 0..TTL + 1 \union {None}
  /\ at \in [Clients -> Storing \union {"idle", "confirm", "expired",
                                         "confirmed", "execute"}]
  /\ armed \in 0..TTL + 1 /\ halfway \in BOOLEAN
  /\ commands \in 0..MaxCommands /\ kills \in 0..MaxKills

GateInit ==
  /\ session = Empty
  /\ at = [w \in Clients |-> "idle"] /\ cmd = [w \in Clients |-> Idle]
  /\ armed = TTL + 1 /\ halfway = FALSE /\ commands = 0 /\ kills = 0

-----------------------------------------------------------------------------

(* The aliases of the registry and of the skills; the prefix rules, whose  *)
(* value may be refused ("error"); the alias a typo is close to.           *)
Alias(p)      == Exact[p]
PrefixRule(p) == Prefix[p]
Fuzzy(p)      == Nearest[p]

(* interpret_intent: the first that matches, else a question for the AI.   *)
Interpret(p) ==
  IF Alias(p) # None THEN Alias(p)
  ELSE IF PrefixRule(p) # None THEN PrefixRule(p)
  ELSE IF Fuzzy(p) # None THEN Fuzzy(p) ELSE "ai"

(* Aliases carry no payload, prefix rules and questions their text.        *)
Payload(p) ==
  IF Alias(p) = None /\ (PrefixRule(p) # None \/ Fuzzy(p) = None)
  THEN p ELSE None

(* get_risk_profile                                                        *)
RequiresConfirmation(a) == a \in HighRisk

(* process_intent: errors end here; `confirm` and risky commands go to the *)
(* session first, all others are executed.                                 *)
Submit(w, p) ==
  /\ at[w] = "idle" /\ commands < MaxCommands
  /\ commands' = commands + 1
  /\ LET a == Interpret(p) IN
     IF a = "error" THEN UNCHANGED <<at, cmd>>
     ELSE /\ cmd' = [cmd EXCEPT ![w] = [action |-> a, payload |-> Payload(p),
                                        phrase |-> p]]
          /\ at' = [at EXCEPT ![w] =
                      IF a = "confirm" THEN "confirm"
                      ELSE IF RequiresConfirmation(a) THEN "action"
                      ELSE "execute"]
  /\ UNCHANGED <<session, armed, halfway, kills>>

(* The four updates of a risky command; the fourth ends it with the answer *)
(* "confirmation required".                                                *)
StoreAction(w) ==
  /\ at[w] = "action" /\ at' = [at EXCEPT ![w] = "payload"]
  /\ session' = [session EXCEPT !.action = cmd[w].action]
  /\ armed' = 0
  /\ UNCHANGED <<cmd, halfway, commands, kills>>

StorePayload(w) ==
  /\ at[w] = "payload" /\ at' = [at EXCEPT ![w] = "command"]
  /\ session' = [session EXCEPT !.payload = cmd[w].payload]
  /\ UNCHANGED <<cmd, armed, halfway, commands, kills>>

StoreCommand(w) ==
  /\ at[w] = "command" /\ at' = [at EXCEPT ![w] = "since"]
  /\ session' = [session EXCEPT !.command = cmd[w].phrase]
  /\ UNCHANGED <<cmd, armed, halfway, commands, kills>>

(* Mutant: the time of a command is not stored.                            *)
StoreSinceForgotten(w) ==
  /\ at[w] = "since" /\ at' = [at EXCEPT ![w] = "idle"]
  /\ cmd' = [cmd EXCEPT ![w] = Idle]
  /\ UNCHANGED <<session, armed, halfway, commands, kills>>

StoreSince(w) ==
  /\ at[w] = "since" /\ at' = [at EXCEPT ![w] = "idle"]
  /\ session' = [session EXCEPT !.since = 0]
  /\ cmd' = [cmd EXCEPT ![w] = Idle]
  /\ UNCHANGED <<armed, halfway, commands, kills>>

Expired == session.since # None /\ session.since > TTL

(* `confirm` reads the session; without a pending action it ends here.  A  *)
(* pending action without a time does not expire.                          *)
ReadPending(w) ==
  /\ at[w] = "confirm"
  /\ IF session.action = None
     THEN at' = [at EXCEPT ![w] = "idle"] /\ cmd' = [cmd EXCEPT ![w] = Idle]
     ELSE IF Expired
     THEN at' = [at EXCEPT ![w] = "expired"] /\ UNCHANGED cmd
     ELSE /\ at' = [at EXCEPT ![w] = "confirmed"]
          /\ cmd' = [cmd EXCEPT ![w] = [action  |-> session.action,
                                        payload |-> session.payload,
                                        phrase  |-> session.command]]
  /\ UNCHANGED <<session, armed, halfway, commands, kills>>

(* clear_pending_confirmation, also reset_session                          *)
Clear == session' = Empty /\ armed' = TTL + 1

ClearPending(w) ==
  /\ at[w] \in {"expired", "confirmed"}
  /\ Clear
  /\ at' = [at EXCEPT ![w] = IF @ = "expired" THEN "idle" ELSE "execute"]
  /\ cmd' = [cmd EXCEPT ![w] = IF at[w] = "expired" THEN Idle ELSE @]
  /\ UNCHANGED <<halfway, commands, kills>>

(* execute_action, or a request to the HI layer; `cancel` and              *)
(* `reset_session` are actions like any other.                             *)
Discards(a) == a \in {"cancel", "reset_session"}

Execute(w) ==
  /\ at[w] = "execute"
  /\ IF Discards(cmd[w].action) THEN Clear ELSE UNCHANGED <<session, armed>>
  /\ at' = [at EXCEPT ![w] = "idle"] /\ cmd' = [cmd EXCEPT ![w] = Idle]
  /\ UNCHANGED <<halfway, commands, kills>>

(* The process of a client is killed.                                      *)
Kill(w) ==
  /\ at[w] # "idle" /\ kills < MaxKills
  /\ kills' = kills + 1
  /\ halfway' = (halfway \/ at[w] \in Storing)
  /\ at' = [at EXCEPT ![w] = "idle"] /\ cmd' = [cmd EXCEPT ![w] = Idle]
  /\ UNCHANGED <<session, armed, commands>>

(* A tick is long: the updates of one command fall within it.              *)
GateTick ==
  /\ \A w \in Clients : at[w] \notin Storing
  /\ armed' = IF armed <= TTL THEN armed + 1 ELSE armed
  /\ session' = IF session.since = None THEN session
                ELSE [session EXCEPT !.since = IF @ <= TTL THEN @ + 1 ELSE @]
  /\ UNCHANGED <<at, cmd, halfway, commands, kills>>

(* Everything but the execution, which Console ties to what is executed.   *)
GateStep(w) ==
  \/ \E p \in Phrases : Submit(w, p)
  \/ StoreAction(w) \/ StorePayload(w) \/ StoreCommand(w) \/ StoreSince(w)
  \/ ReadPending(w) \/ ClearPending(w)
  \/ Kill(w)

GateNext == GateTick \/ \E w \in Clients : GateStep(w) \/ Execute(w)

-----------------------------------------------------------------------------
(* Properties.                                                             *)

(* What `confirm` picks up was stored within the last five minutes and not *)
(* cleared since by a cancel, a reset or another confirm, whatever updates *)
(* of two interfaces interleave.                                           *)
ConfirmTakesLiveCommand ==
  [][\A w \in Clients :
       (at[w] = "confirm" /\ at'[w] = "confirmed" /\ ~halfway) => armed <= TTL
    ]_gateVars

=============================================================================
