------------------------------- MODULE Console -------------------------------
(***************************************************************************)
(* Operator commands reach the automation daemon through the router: what  *)
(* a client executes is a handler of the automation skill, and those of    *)
(* high risk pass the confirmation gate first.                             *)
(***************************************************************************)
EXTENDS AutomationControl

consoleVars == <<gateVars, controlVars>>

TypeOK == GateTypeOK /\ ControlTypeOK
Init == GateInit /\ ControlInit

(* The actions the automation skill registers.                             *)
PluginActions == {"automation_start", "automation_stop", "automation_enable",
                  "automation_disable", "automation_approve",
                  "automation_deny", "automation_emergency_stop"}

(* The handler of a plugin action.  The rule id of an approval is the value*)
(* behind the prefix.                                                      *)
Handler(w, a) ==
  \/ a = "automation_start"          /\ Start(w)
  \/ a = "automation_stop"           /\ Stop(w)
  \/ a = "automation_enable"         /\ Enable(w)
  \/ a = "automation_disable"        /\ Disable(w)
  \/ a = "automation_approve"        /\ \E r \in Rules : Approve(w, r)
  \/ a = "automation_deny"           /\ \E r \in Rules : Deny(w, r)
  \/ a = "automation_emergency_stop" /\ EmergencyStop(w)

ClientStep(w) ==
  \/ op[w] = NoOp /\ GateStep(w) /\ UNCHANGED controlVars
  \/ /\ op[w] = NoOp /\ Execute(w)
     /\ IF cmd[w].action \in PluginActions THEN Handler(w, cmd[w].action)
        ELSE UNCHANGED controlVars
  \/ HandlerStep(w) /\ UNCHANGED gateVars

Next ==
  \/ \E w \in Clients : ClientStep(w)
  \/ GateTick /\ UNCHANGED controlVars
  \/ \E d \in Daemons : (DaemonStep(d) \/ CrashDaemon(d)) /\ UNCHANGED gateVars

(* A client finishes the command it runs and a daemon takes its steps.     *)
(* Each tick of the scheduler goes over all rules, so no rule is passed    *)
(* over for ever.  No one is obliged to type `confirm`.                    *)
Running(w) == at[w] # "idle" /\ ClientStep(w) /\ kills' = kills

Fairness ==
  /\ \A w \in Clients : /\ WF_consoleVars(Running(w))
                        /\ WF_consoleVars(HandlerStep(w) /\ UNCHANGED gateVars)
  /\ \A d \in Daemons :
       /\ WF_consoleVars((WritePid(d) \/ QueueTruncate(d) \/ QueueWrite(d)
                           \/ ExitDaemon(d)) /\ UNCHANGED gateVars)
       /\ \A r \in Rules : SF_consoleVars(Queue(d, r) /\ UNCHANGED gateVars)

Spec == Init /\ [][Next]_consoleVars /\ Fairness

(* Pressing "Emergency Stop" halts automation: the skill and the dashboard *)
(* promise it at once.  The router stores the command for a confirmation   *)
(* that may never come.                                                    *)
EmergencyStopHalts ==
  \A w \in Clients :
    (/\ cmd[w].action = "automation_emergency_stop"
     /\ \E d \in Daemons : daemon[d] = "running") ~> stopFile

=============================================================================
