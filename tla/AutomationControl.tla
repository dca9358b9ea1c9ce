-------------------------- MODULE AutomationControl --------------------------
(***************************************************************************)
(* Control of the automation daemon (automation/app.py) by the operator    *)
(* commands of Jarvis/skills/automation_skill.py: the PID file, SIGTERM,   *)
(* the STOP file and the approval file automation_pending.json, which the  *)
(* daemon and the commands read, change and rewrite without a lock.        *)
(* JobScheduler models what the daemon does with its jobs; the clients are *)
(* those of the confirmation gate.                                         *)
(***************************************************************************)
EXTENDS ConfirmGate

CONSTANTS
  Daemons,   \* process ids of the daemon, one per start
  Rules,     \* high-risk rules, which wait for approval
  MaxCrashes \* bound: daemons killed without a signal handler

ASSUME ControlAssumption == MaxCrashes \in Nat

VARIABLES
  daemon,   \* state of each daemon process
  pidFile,  \* logs/automation.pid
  stopFile, \* logs/automation.STOP exists
  pending,  \* rules in automation_pending.json; {} while truncated
  op,       \* the handler a client is in
  held,     \* the list each client and daemon is about to save
  hasty,    \* a start came while another start or a stop was under way
  crashes

controlVars == <<daemon, pidFile, stopFile, pending, op, held, hasty, crashes>>

NoOp == [do |-> "none", rule |-> None]
Steps == {"none", "spawn", "dispatch", "remove", "truncate", "write"}

ControlTypeOK ==
  /\ daemon \in [Daemons -> {"off", "starting", "running", "queueing",
                             "writing", "stopping", "gone"}]
  /\ pidFile \in Daemons \union {None} /\ stopFile \in BOOLEAN
  /\ pending \subseteq Rules
  /\ op \in [Clients -> [do : Steps, rule : Rules \union {None}]]
  /\ held \in [Clients \union Daemons -> SUBSET Rules]
  /\ hasty \in BOOLEAN /\ crashes \in 0..MaxCrashes

ControlInit ==
  /\ daemon = [d \in Daemons |-> "off"] /\ pidFile = None /\ stopFile = FALSE
  /\ pending = {} /\ op = [w \in Clients |-> NoOp]
  /\ held = [x \in Clients \union Daemons |-> {}]
  /\ hasty = FALSE /\ crashes = 0

-----------------------------------------------------------------------------
(* Operator commands.  Each handler runs in the process of a client.       *)

Exists(d) == daemon[d] \notin {"off", "gone"}

(* _daemon_alive: the PID file names a process that exists.                *)
DaemonAlive == \E d \in Daemons : pidFile = d /\ Exists(d)

Enter(w, do, r) == op' = [op EXCEPT ![w] = [do |-> do, rule |-> r]]
Leave(w) == op' = [op EXCEPT ![w] = NoOp]

(* Between the check of `start` and the PID file the new daemon writes, and*)
(* between SIGTERM and the exit, a further start sees no daemon.           *)
Overlap ==
  \/ \E w \in Clients : op[w].do = "spawn"
  \/ \E d \in Daemons : daemon[d] \in {"starting", "stopping"}

(* Mutant: the daemon is started whether one is alive or not.              *)
StartUnchecked(w) ==
  /\ Enter(w, "spawn", None)
  /\ hasty' = (hasty \/ Overlap)
  /\ UNCHANGED <<daemon, pidFile, stopFile, pending, held, crashes>>

(* start: Popen unless the daemon is alive.                                *)
Start(w) ==
  /\ IF DaemonAlive THEN op' = op ELSE Enter(w, "spawn", None)
  /\ hasty' = (hasty \/ Overlap)
  /\ UNCHANGED <<daemon, pidFile, stopFile, pending, held, crashes>>

Spawn(w) ==
  /\ op[w].do = "spawn" /\ Leave(w)
  /\ \E d \in Daemons :
       /\ daemon[d] = "off" /\ daemon' = [daemon EXCEPT ![d] = "starting"]
  /\ UNCHANGED <<pidFile, stopFile, pending, held, hasty, crashes>>

(* SIGTERM to the daemon of the PID file.  The handler removes the PID file*)
(* and raises SystemExit; the scheduler thread then has ten seconds.       *)
Terminate ==
  IF DaemonAlive /\ daemon[pidFile] # "stopping"
  THEN daemon' = [daemon EXCEPT ![pidFile] = "stopping"] /\ pidFile' = None
  ELSE UNCHANGED <<daemon, pidFile>>

Stop(w) ==
  Terminate /\ UNCHANGED <<stopFile, pending, op, held, hasty, crashes>>

Disable(w) ==
  /\ stopFile' = TRUE
  /\ UNCHANGED <<daemon, pidFile, pending, op, held, hasty, crashes>>

(* enable: remove the STOP file, then start.                               *)
Enable(w) ==
  /\ stopFile' = FALSE
  /\ IF DaemonAlive THEN op' = op ELSE Enter(w, "spawn", None)
  /\ hasty' = (hasty \/ Overlap)
  /\ UNCHANGED <<daemon, pidFile, pending, held, crashes>>

EmergencyStop(w) ==
  stopFile' = TRUE /\ Terminate /\ UNCHANGED <<pending, op, held, hasty, crashes>>

(* approve_pending and deny_pending load the list; the first executes the  *)
(* action before both save what remains.                                   *)
Decide(w, do, r) ==
  /\ IF r \in pending
     THEN Enter(w, do, r) /\ held' = [held EXCEPT ![w] = pending \ {r}]
     ELSE UNCHANGED <<op, held>>
  /\ UNCHANGED <<daemon, pidFile, stopFile, pending, hasty, crashes>>

Approve(w, r) == Decide(w, "dispatch", r)
Deny(w, r) == Decide(w, "truncate", r)

Dispatch(w) ==
  /\ op[w].do = "dispatch" /\ Enter(w, "truncate", op[w].rule)
  /\ UNCHANGED <<daemon, pidFile, stopFile, pending, held, hasty, crashes>>

(* _save_pending: write_text truncates the file, then writes it.  A reader *)
(* in between finds no JSON and takes the list for empty.                  *)
Truncate(w) ==
  /\ op[w].do = "truncate" /\ Enter(w, "write", op[w].rule)
  /\ pending' = {}
  /\ UNCHANGED <<daemon, pidFile, stopFile, held, hasty, crashes>>

Write(w) ==
  /\ op[w].do = "write" /\ Leave(w)
  /\ pending' = held[w] /\ held' = [held EXCEPT ![w] = {}]
  /\ UNCHANGED <<daemon, pidFile, stopFile, hasty, crashes>>

HandlerStep(w) == Spawn(w) \/ Dispatch(w) \/ Truncate(w) \/ Write(w)

-----------------------------------------------------------------------------
(* The daemon.                                                             *)

WritePid(d) ==
  /\ daemon[d] = "starting" /\ daemon' = [daemon EXCEPT ![d] = "running"]
  /\ pidFile' = d
  /\ UNCHANGED <<stopFile, pending, op, held, hasty, crashes>>

(* add_pending_approval by the scheduler thread: load, unless it is queued *)
(* already, truncate, write.                                               *)
(* Mutant: a rule is taken for queued when any rule is.                    *)
QueueUnlessAny(d, r) ==
  /\ daemon[d] = "running" /\ ~stopFile /\ pending = {}
  /\ daemon' = [daemon EXCEPT ![d] = "queueing"]
  /\ held' = [held EXCEPT ![d] = pending \union {r}]
  /\ UNCHANGED <<pidFile, stopFile, pending, op, hasty, crashes>>

Queue(d, r) ==
  /\ daemon[d] = "running" /\ ~stopFile /\ r \notin pending
  /\ daemon' = [daemon EXCEPT ![d] = "queueing"]
  /\ held' = [held EXCEPT ![d] = pending \union {r}]
  /\ UNCHANGED <<pidFile, stopFile, pending, op, hasty, crashes>>

QueueTruncate(d) ==
  /\ daemon[d] = "queueing" /\ daemon' = [daemon EXCEPT ![d] = "writing"]
  /\ pending' = {}
  /\ UNCHANGED <<pidFile, stopFile, op, held, hasty, crashes>>

QueueWrite(d) ==
  /\ daemon[d] = "writing" /\ daemon' = [daemon EXCEPT ![d] = "running"]
  /\ pending' = held[d] /\ held' = [held EXCEPT ![d] = {}]
  /\ UNCHANGED <<pidFile, stopFile, op, hasty, crashes>>

(* main's finally: the PID file is removed once more, whoever wrote it.    *)
ExitDaemon(d) ==
  /\ daemon[d] = "stopping" /\ daemon' = [daemon EXCEPT ![d] = "gone"]
  /\ pidFile' = None /\ held' = [held EXCEPT ![d] = {}]
  /\ UNCHANGED <<stopFile, pending, op, hasty, crashes>>

(* kill -9, or power lost: the PID file stays.                             *)
CrashDaemon(d) ==
  /\ Exists(d) /\ crashes < MaxCrashes /\ crashes' = crashes + 1
  /\ daemon' = [daemon EXCEPT ![d] = "gone"]
  /\ held' = [held EXCEPT ![d] = {}]
  /\ UNCHANGED <<pidFile, stopFile, pending, op, hasty>>

DaemonStep(d) ==
  \/ WritePid(d) \/ QueueTruncate(d) \/ QueueWrite(d) \/ ExitDaemon(d)
  \/ \E r \in Rules : Queue(d, r)

-----------------------------------------------------------------------------
(* Properties.                                                             *)

(* As long as nobody starts the daemon while another start or a stop is    *)
(* under way, there is one daemon, and the PID file through which it is    *)
(* found and stopped names it, whatever crashes and stale PID files there  *)
(* were before.                                                            *)
OneDaemonAndFound ==
  ~hasty => /\ Cardinality({d \in Daemons : Exists(d)}) <= 1
            /\ \A d \in Daemons :
                 daemon[d] \in {"running", "queueing", "writing"} => pidFile = d

(* A high-risk rule of a running daemon is queued for approval again and   *)
(* again, although lists that others save at the same time may lose it.    *)
Working == \E d \in Daemons : daemon[d] \in {"running", "queueing", "writing"}

HighRiskGetsQueued ==
  \A r \in Rules : Working ~> (r \in pending \/ stopFile \/ ~Working)

=============================================================================
