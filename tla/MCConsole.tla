------------------------------ MODULE MCConsole ------------------------------
(* Instance of Console: the phrases are exact aliases, commands with a     *)
(* prefix, one of them without its value, a typo and a question.           *)
EXTENDS Console

MCExact == [p \in Phrases |->
  CASE p = "automation start"          -> "automation_start"
    [] p = "automation stop"           -> "automation_stop"
    [] p = "automation enable"         -> "automation_enable"
    [] p = "automation disable"        -> "automation_disable"
    [] p = "emergency stop automation" -> "automation_emergency_stop"
    [] p = "cancel"                    -> "cancel"
    [] OTHER -> None]

MCPrefix == [p \in Phrases |->
  CASE p = "automation approve x" -> "automation_approve"
    [] p = "automation deny x"    -> "automation_deny"
    [] p = "run ls"               -> "shell"
    [] p = "run "                 -> "error"
    [] OTHER -> None]

MCNearest == [p \in Phrases |-> IF p = "confrm" THEN "confirm" ELSE None]

=============================================================================
