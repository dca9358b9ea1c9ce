--------------------------- MODULE Records_proofs ---------------------------
(***************************************************************************)
(* Proofs about the operator's console (ConfirmGate, AutomationControl and *)
(* their composition Console) and the records beside it: the event journal *)
(* and its cache (EventJournal), questions to the AI provider              *)
(* (AiConnector), the command history (CommandHistory) and the logs of     *)
(* forms (FormLogs), for any number of interfaces, daemons and threads and *)
(* any bounds; and that Records, which has them side by side with the      *)
(* memory graph, keeps what each keeps.                                    *)
(***************************************************************************)
EXTENDS Records, GraphWalk_proofs

-----------------------------------------------------------------------------
(* The console.                                                            *)

(* Every step of the console is one of the gate's, or none of them.        *)
LEMMA ConsoleStepsTheGate == [Next]_consoleVars => [GateNext]_gateVars
BY DEF Next, ClientStep, GateNext, consoleVars, gateVars

-----------------------------------------------------------------------------
(* Types.  What a client has in hand comes from a phrase or the session;   *)
(* only a risky action is on its way into the session.                     *)
Actions == {Interpret(p) : p \in Phrases} \union HighRisk \union {None}
Texts   == Phrases \union {None}

InHandTyped ==
  /\ session \in [action : HighRisk \union {None}, payload : Texts,
                  command : Texts, since : 0..TTL + 1 \union {None}]
  /\ cmd \in [Clients -> [action : Actions, payload : Texts, phrase : Texts]]
  /\ \A w \in Clients : at[w] = "action" => cmd[w].action \in HighRisk

GateInv == GateTypeOK /\ InHandTyped

(* A payload is a phrase or nothing.                                       *)
LEMMA PayloadType == ASSUME NEW p \in Phrases PROVE Payload(p) \in Texts
BY DEF Payload, Texts

(* The session, the clients' places and what they hold stay in their types.*)
LEMMA GateInvStep == GateInv /\ [GateNext]_gateVars => GateInv'
<1> SUFFICES ASSUME GateInv, [GateNext]_gateVars PROVE GateInv'
  OBVIOUS
<1> USE GateAssumption DEF GateInv, GateTypeOK, InHandTyped, Texts, Storing,
        gateVars
<1>1. CASE GateTick
  <2>1. armed' \in 0..TTL + 1
    BY <1>1 DEF GateTick
  <2>2. session' \in [action : HighRisk \union {None}, payload : Texts,
                      command : Texts, since : 0..TTL + 1 \union {None}]
    BY <1>1 DEF GateTick
  <2> QED
    BY <1>1, <2>1, <2>2 DEF GateTick
<1>2. ASSUME NEW w \in Clients, NEW p \in Phrases, Submit(w, p) PROVE GateInv'
  <2>1. Payload(p) \in Texts /\ Interpret(p) \in Actions
    BY PayloadType DEF Actions
  <2>2. cmd' \in [Clients -> [action : Actions, payload : Texts,
                              phrase : Texts]]
    BY <1>2, <2>1 DEF Submit
  <2>3. at' \in [Clients -> Storing \union {"idle", "confirm", "expired",
                                           "confirmed", "execute"}]
    BY <1>2 DEF Submit
  <2>4. \A v \in Clients : at'[v] = "action" => cmd'[v].action \in HighRisk
    BY <1>2 DEF Submit, RequiresConfirmation
  <2>5. commands' \in 0..MaxCommands
    BY <1>2 DEF Submit
  <2> QED
    BY <1>2, <2>2, <2>3, <2>4, <2>5 DEF Submit
<1>3. ASSUME NEW w \in Clients, StoreAction(w) PROVE GateInv'
  BY <1>3 DEF StoreAction
<1>4. ASSUME NEW w \in Clients, StorePayload(w) PROVE GateInv'
  BY <1>4 DEF StorePayload
<1>5. ASSUME NEW w \in Clients, StoreCommand(w) PROVE GateInv'
  BY <1>5 DEF StoreCommand
<1>6. ASSUME NEW w \in Clients, StoreSince(w) PROVE GateInv'
  BY <1>6 DEF StoreSince, Idle, Actions
<1>7. ASSUME NEW w \in Clients, ReadPending(w) PROVE GateInv'
  BY <1>7 DEF ReadPending, Idle, Actions
<1>8. ASSUME NEW w \in Clients, ClearPending(w) PROVE GateInv'
  BY <1>8 DEF ClearPending, Clear, Empty, Idle, Actions
<1>9. ASSUME NEW w \in Clients, Execute(w) PROVE GateInv'
  BY <1>9 DEF Execute, Clear, Empty, Idle, Actions
<1>10. ASSUME NEW w \in Clients, Kill(w) PROVE GateInv'
  BY <1>10 DEF Kill, Idle, Actions
<1>11. CASE UNCHANGED gateVars
  BY <1>11
<1> QED
  BY <1>1, <1>2, <1>3, <1>4, <1>5, <1>6, <1>7, <1>8, <1>9, <1>10, <1>11
  DEF GateNext, GateStep

(* So they do in every behaviour.                                          *)
LEMMA GateInvAlways == Spec => []GateInv
<1>1. Init => GateInv
  <2> SUFFICES ASSUME GateInit PROVE GateInv
    BY DEF Init
  <2>1. GateTypeOK
    <3>1. /\ session.action = None /\ session.payload = None
          /\ session.command = None /\ session.since = None
      BY DEF GateInit, Empty
    <3>2. at \in [Clients -> {"idle"}] /\ halfway = FALSE
      BY DEF GateInit
    <3>3. /\ armed \in 0..TTL + 1
          /\ commands \in 0..MaxCommands /\ kills \in 0..MaxKills
      BY GateAssumption DEF GateInit
    <3> QED
      BY <3>1, <3>2, <3>3 DEF GateTypeOK
  <2>2. /\ Idle \in [action : Actions, payload : Texts, phrase : Texts]
        /\ Empty \in [action : HighRisk \union {None}, payload : Texts,
                      command : Texts, since : 0..TTL + 1 \union {None}]
    BY DEF Idle, Empty, Actions, Texts
  <2>3. InHandTyped
    BY <2>2 DEF GateInit, InHandTyped
  <2> QED
    BY <2>1, <2>3 DEF GateInv
<1> QED
  BY <1>1, GateInvStep, ConsoleStepsTheGate, PTL DEF Spec

-----------------------------------------------------------------------------
(* The clock of the stored command.  While a client is between the first   *)
(* and the last field of a command no tick passes, so that the command is  *)
(* fresh or has been discarded; once the last field is written, the stored *)
(* time is the age of the command.                                         *)
Midway == \E w \in Clients : at[w] \in {"payload", "command", "since"}

AgeIsStored ==
  session.action # None /\ ~halfway =>
    IF Midway THEN armed = 0 ELSE session.since # None /\ session.since = armed

(* What `confirm` picks up was stored within the time limit and not        *)
(* cleared since, whatever updates of two interfaces interleave.           *)
THEOREM ConfirmTakesLive == Spec => ConfirmTakesLiveCommand
<1>1. Init => AgeIsStored
  BY DEF Init, GateInit, AgeIsStored, Empty
<1>2. GateInv /\ AgeIsStored /\ [GateNext]_gateVars => AgeIsStored'
  <2> SUFFICES ASSUME GateInv, AgeIsStored, [GateNext]_gateVars,
                      session'.action # None, ~halfway'
               PROVE  AgeIsStored'
    BY DEF AgeIsStored
  <2> USE GateAssumption DEF GateInv, GateTypeOK, InHandTyped, Storing,
          gateVars, AgeIsStored, Midway
  <2>1. CASE GateTick
    BY <2>1 DEF GateTick
  <2>2. ASSUME NEW w \in Clients, NEW p \in Phrases, Submit(w, p)
        PROVE  AgeIsStored'
    BY <2>2 DEF Submit
  <2>3. ASSUME NEW w \in Clients, StoreAction(w) PROVE AgeIsStored'
    BY <2>3 DEF StoreAction
  <2>4. ASSUME NEW w \in Clients, StorePayload(w) \/ StoreCommand(w)
        PROVE  AgeIsStored'
    BY <2>4 DEF StorePayload, StoreCommand
  <2>5. ASSUME NEW w \in Clients, StoreSince(w) PROVE AgeIsStored'
    BY <2>5 DEF StoreSince
  <2>6. ASSUME NEW w \in Clients, ReadPending(w) PROVE AgeIsStored'
    BY <2>6 DEF ReadPending
  <2>7. ASSUME NEW w \in Clients, ClearPending(w) \/ Execute(w)
        PROVE  AgeIsStored'
    BY <2>7 DEF ClearPending, Execute, Clear, Empty
  <2>8. ASSUME NEW w \in Clients, Kill(w) PROVE AgeIsStored'
    BY <2>8 DEF Kill
  <2>9. CASE UNCHANGED gateVars
    BY <2>9
  <2> QED
    BY <2>1, <2>2, <2>3, <2>4, <2>5, <2>6, <2>7, <2>8, <2>9
    DEF GateNext, GateStep
<1>3. GateInv /\ AgeIsStored /\ [GateNext]_gateVars
        => \A w \in Clients :
             (at[w] = "confirm" /\ at'[w] = "confirmed" /\ ~halfway)
               => armed <= TTL
  <2> SUFFICES ASSUME GateInv, AgeIsStored, [GateNext]_gateVars,
                      NEW w \in Clients, at[w] = "confirm",
                      at'[w] = "confirmed", ~halfway
               PROVE  armed <= TTL
    OBVIOUS
  <2> USE DEF GateInv, GateTypeOK, InHandTyped, Storing
  <2>1. ReadPending(w)
    BY DEF GateNext, GateStep, GateTick, Submit, StoreAction, StorePayload,
       StoreCommand, StoreSince, ReadPending, ClearPending, Execute, Kill,
       gateVars
  <2>2. session.action # None /\ ~Expired
    BY <2>1 DEF ReadPending
  <2> QED
    BY <2>2, GateAssumption DEF Expired, AgeIsStored
<1> QED
  BY <1>1, <1>2, <1>3, GateInvAlways, ConsoleStepsTheGate,
     PTL DEF Spec, ConfirmTakesLiveCommand

-----------------------------------------------------------------------------
(* The daemon's side.                                                      *)
ControlNext ==
  \/ \E w \in Clients : \/ op[w] = NoOp /\ \E a \in PluginActions : Handler(w, a)
                        \/ HandlerStep(w)
  \/ \E d \in Daemons : DaemonStep(d) \/ CrashDaemon(d)

(* Every step of the console is one of the daemon or of a handler, or      *)
(* touches neither.                                                        *)
LEMMA ConsoleStepsTheControl == [Next]_consoleVars => [ControlNext]_controlVars
BY DEF Next, ClientStep, ControlNext, consoleVars, controlVars

(* One step of a client or a daemon keeps the types of the control.        *)
LEMMA ControlTypeStep ==
  ControlTypeOK /\ [ControlNext]_controlVars => ControlTypeOK'
<1> SUFFICES ASSUME ControlTypeOK, [ControlNext]_controlVars
             PROVE  ControlTypeOK'
  OBVIOUS
<1> USE ControlAssumption DEF ControlTypeOK, Enter, Leave, NoOp, Steps,
        controlVars
<1>1. ASSUME NEW w \in Clients, Start(w) \/ Enable(w) PROVE ControlTypeOK'
  <2>1. hasty' \in BOOLEAN
    BY <1>1 DEF Start, Enable
  <2>2. op' \in [Clients -> [do : Steps, rule : Rules \union {None}]]
    BY <1>1 DEF Start, Enable
  <2> QED
    BY <1>1, <2>1, <2>2 DEF Start, Enable
<1>2. ASSUME NEW w \in Clients, Stop(w) \/ EmergencyStop(w)
      PROVE  ControlTypeOK'
  <2>1. /\ daemon' \in [Daemons -> {"off", "starting", "running", "queueing",
                                    "writing", "stopping", "gone"}]
        /\ pidFile' \in Daemons \union {None}
    BY <1>2 DEF Stop, EmergencyStop, Terminate, DaemonAlive
  <2> QED
    BY <1>2, <2>1 DEF Stop, EmergencyStop
<1>3. ASSUME NEW w \in Clients, Disable(w) PROVE ControlTypeOK'
  BY <1>3 DEF Disable
<1>4. ASSUME NEW w \in Clients, NEW r \in Rules, Approve(w, r) \/ Deny(w, r)
      PROVE  ControlTypeOK'
  BY <1>4 DEF Approve, Deny, Decide
<1>5. ASSUME NEW w \in Clients, Spawn(w) PROVE ControlTypeOK'
  BY <1>5 DEF Spawn
<1>6. ASSUME NEW w \in Clients, Dispatch(w) \/ Truncate(w)
      PROVE  ControlTypeOK'
  BY <1>6 DEF Dispatch, Truncate
<1>7. ASSUME NEW w \in Clients, Write(w) PROVE ControlTypeOK'
  BY <1>7 DEF Write
<1>8. ASSUME NEW d \in Daemons, WritePid(d) \/ QueueTruncate(d)
      PROVE  ControlTypeOK'
  BY <1>8 DEF WritePid, QueueTruncate
<1>9. ASSUME NEW d \in Daemons, NEW r \in Rules, Queue(d, r)
      PROVE  ControlTypeOK'
  BY <1>9 DEF Queue
<1>10. ASSUME NEW d \in Daemons, QueueWrite(d) PROVE ControlTypeOK'
  BY <1>10 DEF QueueWrite
<1>11. ASSUME NEW d \in Daemons, ExitDaemon(d) PROVE ControlTypeOK'
  BY <1>11 DEF ExitDaemon
<1>12. ASSUME NEW d \in Daemons, CrashDaemon(d) PROVE ControlTypeOK'
  BY <1>12 DEF CrashDaemon, Exists
<1>13. CASE UNCHANGED controlVars
  BY <1>13
<1> QED
  BY <1>1, <1>2, <1>3, <1>4, <1>5, <1>6, <1>7, <1>8, <1>9, <1>10, <1>11,
     <1>12, <1>13 DEF ControlNext, Handler, HandlerStep, DaemonStep

(* So the control keeps its types.                                         *)
LEMMA ControlTypeAlways == Spec => []ControlTypeOK
<1>1. Init => ControlTypeOK
  <2> SUFFICES ASSUME ControlInit PROVE ControlTypeOK
    BY DEF Init
  <2>1. NoOp \in [do : Steps, rule : Rules \union {None}]
    BY DEF NoOp, Steps
  <2>2. hasty \in BOOLEAN /\ stopFile \in BOOLEAN
    BY DEF ControlInit
  <2>3. crashes \in 0..MaxCrashes
    BY ControlAssumption DEF ControlInit
  <2> QED
    BY <2>1, <2>2, <2>3 DEF ControlInit, ControlTypeOK
<1> QED
  BY <1>1, ControlTypeStep, ConsoleStepsTheControl, PTL DEF Spec

(* The session, the files of the daemon and what every process holds stay  *)
(* in their types.                                                         *)
THEOREM ConsoleTyped == Spec => []TypeOK
BY GateInvAlways, ControlTypeAlways, PTL DEF TypeOK, GateInv

-----------------------------------------------------------------------------
(* One daemon.  While nobody is hasty, the process that exists or the      *)
(* start that is about to create one is the only one of its kind, and a    *)
(* daemon that works is the one the PID file names: the check of `start`   *)
(* therefore misses none.                                                  *)
Spawning(w) == op[w].do = "spawn"

OneActive ==
  /\ \A d, e \in Daemons : Exists(d) /\ Exists(e) => d = e
  /\ \A w, v \in Clients : Spawning(w) /\ Spawning(v) => w = v
  /\ \A w \in Clients, d \in Daemons : ~(Spawning(w) /\ Exists(d))

Found ==
  \A d \in Daemons :
    daemon[d] \in {"running", "queueing", "writing"} => pidFile = d

Orderly == ~hasty => OneActive /\ Found

(* As long as nobody starts the daemon while another start or a stop is    *)
(* under way, there is one daemon and the PID file names it, whatever      *)
(* crashes and stale PID files there were before.                          *)
THEOREM OneDaemon == Spec => []OneDaemonAndFound
<1>1. Init => Orderly
  BY DEF Init, ControlInit, Orderly, OneActive, Found, Exists, Spawning, NoOp
<1>2. ControlTypeOK /\ Orderly /\ [ControlNext]_controlVars => Orderly'
  <2> SUFFICES ASSUME ControlTypeOK, Orderly, [ControlNext]_controlVars,
                      ~hasty'
               PROVE  OneActive' /\ Found'
    BY DEF Orderly
  <2> USE DEF ControlTypeOK, Orderly, OneActive, Found, Exists, Spawning,
          Enter, Leave, NoOp, Steps, controlVars
  <2>1. ASSUME NEW w \in Clients, Start(w) \/ Enable(w)
        PROVE  OneActive' /\ Found'
    <3>1. ~hasty /\ ~Overlap /\ UNCHANGED <<daemon, pidFile>>
      BY <2>1 DEF Start, Enable
    <3>2. op' = op \/ (~DaemonAlive /\ Enter(w, "spawn", None))
      BY <2>1 DEF Start, Enable
    <3>3. ASSUME ~DaemonAlive, NEW d \in Daemons PROVE ~Exists(d)
      BY <3>1, <3>3 DEF DaemonAlive, Overlap
    <3>4. \A v \in Clients : ~Spawning(v)
      BY <3>1 DEF Overlap
    <3> QED
      BY <3>1, <3>2, <3>3, <3>4
  <2>2. ASSUME NEW w \in Clients, Stop(w) \/ EmergencyStop(w)
        PROVE  OneActive' /\ Found'
    BY <2>2 DEF Stop, EmergencyStop, Terminate, DaemonAlive
  <2>3. ASSUME NEW w \in Clients, Disable(w) PROVE OneActive' /\ Found'
    BY <2>3 DEF Disable
  <2>4. ASSUME NEW w \in Clients, NEW r \in Rules, Approve(w, r) \/ Deny(w, r)
        PROVE  OneActive' /\ Found'
    BY <2>4 DEF Approve, Deny, Decide
  <2>5. ASSUME NEW w \in Clients, Spawn(w) PROVE OneActive' /\ Found'
    BY <2>5 DEF Spawn
  <2>6. ASSUME NEW w \in Clients, Dispatch(w) \/ Truncate(w) \/ Write(w)
        PROVE  OneActive' /\ Found'
    BY <2>6 DEF Dispatch, Truncate, Write
  <2>7. ASSUME NEW d \in Daemons, WritePid(d) PROVE OneActive' /\ Found'
    BY <2>7 DEF WritePid
  <2>8. ASSUME NEW d \in Daemons, NEW r \in Rules, Queue(d, r)
        PROVE  OneActive' /\ Found'
    BY <2>8 DEF Queue
  <2>9. ASSUME NEW d \in Daemons, QueueTruncate(d) \/ QueueWrite(d)
        PROVE  OneActive' /\ Found'
    BY <2>9 DEF QueueTruncate, QueueWrite
  <2>10. ASSUME NEW d \in Daemons, ExitDaemon(d) \/ CrashDaemon(d)
         PROVE  OneActive' /\ Found'
    BY <2>10 DEF ExitDaemon, CrashDaemon
  <2>11. CASE UNCHANGED controlVars
    BY <2>11
  <2> QED
    BY <2>1, <2>2, <2>3, <2>4, <2>5, <2>6, <2>7, <2>8, <2>9, <2>10, <2>11
    DEF ControlNext, Handler, HandlerStep, DaemonStep
<1>3. Orderly => OneDaemonAndFound
  <2> SUFFICES ASSUME OneActive
               PROVE  Cardinality({d \in Daemons : Exists(d)}) <= 1
    BY DEF Orderly, OneDaemonAndFound, Found
  <2>1. CASE \E d \in Daemons : Exists(d)
    <3>1. PICK d \in Daemons : {e \in Daemons : Exists(e)} = {d}
      BY <2>1 DEF OneActive
    <3> QED
      BY <3>1, FS_Singleton
  <2>2. CASE {d \in Daemons : Exists(d)} = {}
    BY <2>2, FS_EmptySet
  <2> QED
    BY <2>1, <2>2
<1> QED
  BY <1>1, <1>2, <1>3, ControlTypeAlways, ConsoleStepsTheControl,
     PTL DEF Spec

-----------------------------------------------------------------------------
(* The event journal.                                                      *)

ReaderType == [at : {"idle", "looked", "load", "store", "done"},
               sig : 0..MaxTicks, seen : 0..MaxJournal, had : 0..MaxJournal]

(* The signature of the journal when it held n events.                     *)
SignatureAt(n) == IF n = 0 THEN NoSignature ELSE journal[n]

(* Events are in the order of the clock.                                   *)
InOrder ==
  /\ \A i, j \in 1..Len(journal) : i <= j => journal[i] <= journal[j]
  /\ \A i \in 1..Len(journal) : journal[i] <= tick

(* A signature in the cache is the one of a moment when the journal held   *)
(* no more events than are in the cache.                                   *)
CacheIsCovered ==
  /\ eventsCache.seen <= Len(journal)
  /\ eventsCache.sig # -1 =>
       \E n \in 0..eventsCache.seen : eventsCache.sig = SignatureAt(n)

ReaderIsCovered ==
  \A r \in Readers :
    /\ reader[r].had <= Len(journal) /\ reader[r].seen <= Len(journal)
    /\ reader[r].at \in {"looked", "load", "store"} =>
         reader[r].sig = SignatureAt(reader[r].had)
    /\ reader[r].at = "store" => reader[r].had <= reader[r].seen

JournalInv ==
  JournalTypeOK /\ InOrder /\ CacheIsCovered /\ ReaderIsCovered /\ BehindByATick

(* What was in the journal stays in its place.                             *)
LEMMA AppendKeepsPlaces ==
  ASSUME JournalInv, AppendEvent
  PROVE  /\ journal' \in Seq(1..MaxTicks) /\ Len(journal') = Len(journal) + 1
         /\ Len(journal) \in Nat
         /\ \A i \in 1..Len(journal) : journal'[i] = journal[i]
         /\ journal'[Len(journal) + 1] = tick
BY DEF JournalInv, JournalTypeOK, AppendEvent

(* A query whose signature is that of the cache may take what the cache    *)
(* holds: what it does not show is of the tick of the newest event shown.  *)
LEMMA SameSignatureSameTick ==
  ASSUME JournalInv, NEW r \in Readers, reader[r].at = "looked",
         eventsCache.sig = reader[r].sig,
         NEW i \in (eventsCache.seen + 1)..reader[r].had
  PROVE  eventsCache.seen > 0 /\ journal[i] = journal[eventsCache.seen]
<1> DEFINE seen == eventsCache.seen
           had == reader[r].had
<1>1. /\ seen \in Nat /\ had \in Nat /\ Len(journal) \in Nat
      /\ had <= Len(journal) /\ seen <= Len(journal)
      /\ \A j \in 1..Len(journal) : journal[j] \in Nat \ {0}
      /\ eventsCache.sig # -1
  <2>1. \A j \in 1..Len(journal) : journal[j] \in Nat \ {0}
    BY SMTT(30), JournalAssumption DEF JournalInv, JournalTypeOK
  <2>2. seen \in Nat /\ had \in Nat /\ Len(journal) \in Nat
    BY JournalAssumption DEF JournalInv, JournalTypeOK
  <2>3. had <= Len(journal) /\ seen <= Len(journal)
    BY DEF JournalInv, ReaderIsCovered, CacheIsCovered
  <2>4. reader[r].sig \in 0..MaxTicks
    BY DEF JournalInv, JournalTypeOK
  <2> QED
    BY <2>1, <2>2, <2>3, <2>4
<1>2. PICK n \in 0..seen : eventsCache.sig = SignatureAt(n)
  BY <1>1 DEF JournalInv, CacheIsCovered
<1>3. SignatureAt(n) = SignatureAt(had)
  BY <1>2 DEF JournalInv, ReaderIsCovered
<1>4. had \in 1..Len(journal) /\ i \in 1..Len(journal) /\ i <= had /\ seen < i
  BY <1>1
<1>5. n # 0 /\ journal[n] = journal[had]
  BY <1>1, <1>3, <1>4 DEF SignatureAt, NoSignature
<1>6. n \in 1..Len(journal) /\ n <= seen /\ seen \in 1..Len(journal)
  BY <1>1, <1>2, <1>5
<1>7. journal[n] <= journal[seen] /\ journal[seen] <= journal[i]
      /\ journal[i] <= journal[had]
  <2>1. \A k, j \in 1..Len(journal) : k <= j => journal[k] <= journal[j]
    BY DEF JournalInv, InOrder
  <2>2. seen <= i
    BY <1>1, <1>4
  <2> HIDE DEF seen, had
  <2>3. journal[n] <= journal[seen]
    BY <1>6, <2>1
  <2>4. journal[seen] <= journal[i] /\ journal[i] <= journal[had]
    BY <1>4, <1>6, <2>1, <2>2
  <2> QED
    BY <2>3, <2>4
<1> QED
  BY <1>1, <1>4, <1>5, <1>6, <1>7

(* No append, rotation or reader lets the cache claim too much.            *)
LEMMA JournalInvStep == JournalInv /\ [JournalNext]_journalVars => JournalInv'
<1> SUFFICES ASSUME JournalInv, [JournalNext]_journalVars PROVE JournalInv'
  OBVIOUS
<1>0. Len(journal) \in Nat /\ \A i \in 1..Len(journal) : journal[i] \in Nat \ {0}
  BY JournalAssumption DEF JournalInv, JournalTypeOK
<1>1. CASE AppendEvent
  <2>1. /\ tick' = tick /\ eventsCache' = eventsCache /\ reader' = reader
        /\ Len(journal) < MaxJournal
    BY <1>1 DEF AppendEvent
  <2>2. JournalTypeOK'
    BY <1>1, <2>1, AppendKeepsPlaces, JournalAssumption
    DEF JournalInv, JournalTypeOK
  <2>3. InOrder'
    <3>1. tick \in Nat
      BY JournalAssumption DEF JournalInv, JournalTypeOK
    <3> QED
      BY SMTT(30), <1>0, <1>1, <2>1, <3>1, AppendKeepsPlaces
      DEF JournalInv, InOrder
  <2>4. \A n \in 0..Len(journal) : SignatureAt(n)' = SignatureAt(n)
    BY <1>0, <1>1, AppendKeepsPlaces DEF SignatureAt
  <2>5. CacheIsCovered'
    <3>1. eventsCache.seen \in Nat
      BY DEF JournalInv, JournalTypeOK
    <3> QED
      BY <1>0, <1>1, <2>1, <2>4, <3>1, AppendKeepsPlaces
      DEF JournalInv, CacheIsCovered
  <2>6. ReaderIsCovered'
    <3>1. \A r \in Readers : reader[r].had \in Nat /\ reader[r].seen \in Nat
      BY DEF JournalInv, JournalTypeOK
    <3> QED
      BY <1>0, <1>1, <2>1, <2>4, <3>1, AppendKeepsPlaces
      DEF JournalInv, ReaderIsCovered
  <2>7. BehindByATick'
    <3>1. \A r \in Readers :
            /\ reader[r].had \in 0..Len(journal)
            /\ reader[r].seen \in 0..Len(journal)
      BY <1>0 DEF JournalInv, JournalTypeOK, ReaderIsCovered
    <3> SUFFICES ASSUME NEW r \in Readers, reader[r].at = "done",
                        NEW i \in (reader[r].seen + 1)..reader[r].had
                 PROVE  /\ reader[r].seen > 0
                        /\ journal'[i] = journal'[reader[r].seen]
      BY <2>1 DEF BehindByATick
    <3>2. reader[r].seen > 0 /\ journal[i] = journal[reader[r].seen]
      BY DEF JournalInv, BehindByATick
    <3>3. i \in 1..Len(journal) /\ reader[r].seen \in 1..Len(journal)
      BY <1>0, <3>1, <3>2
    <3> QED
      BY <1>1, <3>2, <3>3, AppendKeepsPlaces
  <2> QED
    BY <2>2, <2>3, <2>5, <2>6, <2>7 DEF JournalInv
<1>2. ASSUME NEW r \in Readers, Look(r) PROVE JournalInv'
  <2>1. /\ Signature \in 0..MaxTicks /\ Len(journal) \in 0..MaxJournal
        /\ Signature = SignatureAt(Len(journal))
    BY <1>0, JournalAssumption
    DEF JournalInv, JournalTypeOK, Signature, SignatureAt,
       NoSignature, Last
  <2>2. /\ UNCHANGED <<journal, tick, eventsCache>>
        /\ reader' = [reader EXCEPT ![r] =
             [at |-> "looked", sig |-> Signature, seen |-> 0,
              had |-> Len(journal)]]
    BY <1>2 DEF Look, Goes
  <2>3. JournalTypeOK' /\ InOrder' /\ CacheIsCovered'
    <3>1. [at |-> "looked", sig |-> Signature, seen |-> 0, had |-> Len(journal)]
            \in ReaderType
      BY <2>1, JournalAssumption DEF ReaderType
    <3>2. reader' \in [Readers -> ReaderType]
      BY <2>2, <3>1 DEF JournalInv, JournalTypeOK, ReaderType
    <3> QED
      BY <2>2, <3>2 DEF JournalInv, JournalTypeOK, ReaderType, InOrder,
         CacheIsCovered, SignatureAt
  <2>4. ReaderIsCovered'
    BY <2>1, <2>2 DEF JournalInv, JournalTypeOK, ReaderIsCovered, SignatureAt
  <2>5. BehindByATick'
    BY <2>2 DEF JournalInv, JournalTypeOK, BehindByATick
  <2> QED
    BY <2>3, <2>4, <2>5 DEF JournalInv
<1>3. ASSUME NEW r \in Readers, Compare(r) PROVE JournalInv'
  <2>1. /\ UNCHANGED <<journal, tick, eventsCache>> /\ reader[r].at = "looked"
        /\ eventsCache.seen \in 0..MaxJournal /\ eventsCache.seen <= Len(journal)
    BY <1>3 DEF Compare, JournalInv, JournalTypeOK, CacheIsCovered
  <2>2. CASE eventsCache.sig = reader[r].sig
    <3>1. reader' = [reader EXCEPT ![r] =
                       [[reader[r] EXCEPT !.at = "done"]
                          EXCEPT !.seen = eventsCache.seen]]
      BY <1>3, <2>2 DEF Compare, Goes, JournalInv, JournalTypeOK
    <3>2. \A i \in (eventsCache.seen + 1)..reader[r].had :
            eventsCache.seen > 0 /\ journal[i] = journal[eventsCache.seen]
      BY <2>1, <2>2, SameSignatureSameTick
    <3>3. /\ reader' \in [Readers -> ReaderType]
          /\ reader'[r].at = "done" /\ reader'[r].had = reader[r].had
          /\ reader'[r].seen = eventsCache.seen
          /\ \A s \in Readers \ {r} : reader'[s] = reader[s]
      BY <2>1, <3>1 DEF JournalInv, JournalTypeOK, ReaderType
    <3>4. JournalTypeOK' /\ InOrder' /\ CacheIsCovered'
      BY <2>1, <3>3 DEF JournalInv, JournalTypeOK, ReaderType, InOrder,
         CacheIsCovered, SignatureAt
    <3>5. ReaderIsCovered'
      BY <2>1, <3>3 DEF JournalInv, ReaderIsCovered, SignatureAt
    <3>6. BehindByATick'
      BY <2>1, <3>2, <3>3 DEF JournalInv, BehindByATick
    <3> QED
      BY <3>4, <3>5, <3>6 DEF JournalInv
  <2>3. CASE eventsCache.sig # reader[r].sig
    <3>1. reader' = [reader EXCEPT ![r] = [reader[r] EXCEPT !.at = "load"]]
      BY <1>3, <2>3 DEF Compare, Goes
    <3> QED
      BY <2>1, <3>1 DEF JournalInv, JournalTypeOK, InOrder, CacheIsCovered,
         ReaderIsCovered, BehindByATick, SignatureAt
  <2> QED
    BY <2>2, <2>3
<1>4. ASSUME NEW r \in Readers, LoadFiles(r) PROVE JournalInv'
  <2>1. CASE reader[r].at = "load"
    <3>1. /\ UNCHANGED <<journal, tick, eventsCache>>
          /\ Len(journal) \in 0..MaxJournal
      BY <1>0, <1>4, <2>1 DEF LoadFiles, JournalInv, JournalTypeOK
    <3>2. reader' = [reader EXCEPT ![r] =
                       [[reader[r] EXCEPT !.at = "store"]
                          EXCEPT !.seen = Len(journal)]]
      BY <1>4, <2>1 DEF LoadFiles, Goes, JournalInv, JournalTypeOK
    <3>3. /\ reader' \in [Readers -> ReaderType]
          /\ reader'[r].at = "store" /\ reader'[r].had = reader[r].had
          /\ reader'[r].seen = Len(journal) /\ reader'[r].sig = reader[r].sig
          /\ \A s \in Readers \ {r} : reader'[s] = reader[s]
      BY <3>1, <3>2 DEF JournalInv, JournalTypeOK, ReaderType
    <3>4. JournalTypeOK' /\ InOrder' /\ CacheIsCovered'
      BY <3>1, <3>3 DEF JournalInv, JournalTypeOK, ReaderType, InOrder,
         CacheIsCovered, SignatureAt
    <3>5. ReaderIsCovered'
      BY <2>1, <3>1, <3>3 DEF JournalInv, ReaderIsCovered, SignatureAt
    <3>6. BehindByATick'
      BY <3>1, <3>3 DEF JournalInv, BehindByATick
    <3> QED
      BY <3>4, <3>5, <3>6 DEF JournalInv
  <2>2. CASE reader[r].at = "store"
    <3>1. /\ UNCHANGED <<journal, tick>>
          /\ reader' = [reader EXCEPT ![r] = [reader[r] EXCEPT !.at = "done"]]
          /\ eventsCache' = [sig |-> reader[r].sig, seen |-> reader[r].seen]
      BY <1>4, <2>2 DEF LoadFiles, Goes
    <3>2. /\ reader[r].had <= reader[r].seen /\ reader[r].seen <= Len(journal)
          /\ reader[r].had \in Nat /\ reader[r].seen \in Nat
          /\ reader[r].sig = SignatureAt(reader[r].had)
      BY <2>2 DEF JournalInv, JournalTypeOK, ReaderIsCovered
    <3>3. JournalTypeOK' /\ InOrder'
      BY <3>1 DEF JournalInv, JournalTypeOK, InOrder
    <3>4. CacheIsCovered'
      BY <3>1, <3>2 DEF CacheIsCovered, SignatureAt
    <3>5. ReaderIsCovered'
      BY <3>1 DEF JournalInv, JournalTypeOK, ReaderIsCovered, SignatureAt
    <3>6. BehindByATick'
      BY <3>1, <3>2 DEF JournalInv, JournalTypeOK, BehindByATick
    <3> QED
      BY <3>3, <3>4, <3>5, <3>6 DEF JournalInv
  <2> QED
    BY <1>4, <2>1, <2>2 DEF LoadFiles
<1>5. ASSUME NEW r \in Readers, AnswerQuery(r) PROVE JournalInv'
  <2>1. /\ UNCHANGED <<journal, tick, eventsCache>>
        /\ reader' = [reader EXCEPT ![r] = NotReading]
    BY <1>5 DEF AnswerQuery, Goes
  <2>2. NotReading \in ReaderType
    BY JournalAssumption DEF NotReading, NoSignature, ReaderType
  <2>3. JournalTypeOK' /\ InOrder' /\ CacheIsCovered'
    <3>1. reader' \in [Readers -> ReaderType]
      BY <2>1, <2>2 DEF JournalInv, JournalTypeOK, ReaderType
    <3> QED
      BY <2>1, <3>1 DEF JournalInv, JournalTypeOK, ReaderType, InOrder,
         CacheIsCovered, SignatureAt
  <2>4. ReaderIsCovered' /\ BehindByATick'
    BY <1>0, <2>1 DEF NotReading, JournalInv, JournalTypeOK, ReaderIsCovered,
       BehindByATick, SignatureAt
  <2> QED
    BY <2>3, <2>4 DEF JournalInv
<1>6. CASE ClockTicks
  <2>1. tick' \in 1..MaxTicks /\ tick <= tick'
    BY <1>6, JournalAssumption DEF ClockTicks, JournalInv, JournalTypeOK
  <2>2. InOrder'
    <3>1. tick \in Nat /\ tick' \in Nat /\ journal' = journal
      BY <1>6, <2>1, JournalAssumption
      DEF ClockTicks, JournalInv, JournalTypeOK
    <3> QED
      BY <1>0, <2>1, <3>1 DEF JournalInv, InOrder
  <2> QED
    BY <1>6, <2>1, <2>2
    DEF ClockTicks, JournalInv, JournalTypeOK, CacheIsCovered,
       ReaderIsCovered, BehindByATick, SignatureAt
<1>7. CASE UNCHANGED journalVars
  BY <1>7 DEF journalVars, JournalInv, JournalTypeOK, InOrder, CacheIsCovered,
     ReaderIsCovered, BehindByATick, SignatureAt
<1> QED
  BY <1>1, <1>2, <1>3, <1>4, <1>5, <1>6, <1>7 DEF JournalNext

(* A query that starts after an event was written shows it, or the event   *)
(* is of the same tick as the newest event shown, whatever threads load    *)
(* and replace the cache meanwhile.                                        *)
THEOREM JournalIsFresh == JournalSpec => [](JournalTypeOK /\ BehindByATick)
<1>1. JournalInit => JournalInv
  BY JournalAssumption DEF JournalInit, JournalInv, JournalTypeOK, InOrder,
     CacheIsCovered, ReaderIsCovered, BehindByATick, SignatureAt, NoCache,
     NotReading, NoSignature
<1>2. JournalInv => JournalTypeOK /\ BehindByATick
  BY DEF JournalInv, JournalTypeOK
<1> QED
  BY <1>1, <1>2, JournalInvStep, PTL DEF JournalSpec

-----------------------------------------------------------------------------
(* The newest elements of a sequence.                                      *)

(* They are its last ones, no more than n.                                 *)
LEMMA NewestOfSeq ==
  ASSUME NEW S, NEW s \in Seq(S), NEW n \in Nat
  PROVE  /\ Newest(s, n) \in Seq(S)
         /\ Len(Newest(s, n)) = IF Len(s) > n THEN n ELSE Len(s)
         /\ \A i \in 1..Len(Newest(s, n)) :
              Newest(s, n)[i] = s[Len(s) - Len(Newest(s, n)) + i]
<1>1. CASE Len(s) > n
  <2> DEFINE u == SubSeq(s, Len(s) - n + 1, Len(s))
  <2>1. Len(s) \in Nat /\ Len(s) - n + 1 \in Int
        /\ \A i \in (Len(s) - n + 1)..Len(s) : s[i] \in S
    BY <1>1
  <2>2. /\ u \in Seq(S) /\ Len(u) = n
        /\ \A i \in 1..n : u[i] = s[Len(s) - n + i]
    BY <1>1, <2>1, SubSeqProperties
  <2>3. Newest(s, n) = u
    BY <1>1 DEF Newest
  <2> HIDE DEF u
  <2> QED
    BY <1>1, <2>2, <2>3
<1>2. CASE ~ (Len(s) > n)
  BY <1>2 DEF Newest
<1> QED
  BY <1>1, <1>2

(* Appending to what was kept is as good as appending to everything.       *)
LEMMA NewestAppend ==
  ASSUME NEW S, NEW s \in Seq(S), NEW n \in Nat \ {0}, NEW x \in S
  PROVE  Newest(Append(Newest(s, n), x), n) = Newest(Append(s, x), n)
<1> DEFINE u == Newest(s, n)
           v == Append(u, x)
           w == Append(s, x)
<1>1. /\ u \in Seq(S) /\ Len(s) \in Nat
      /\ Len(u) = IF Len(s) > n THEN n ELSE Len(s)
      /\ \A i \in 1..Len(u) : u[i] = s[Len(s) - Len(u) + i]
  BY NewestOfSeq
<1> HIDE DEF u
<1>2. /\ v \in Seq(S) /\ Len(v) = Len(u) + 1
      /\ \A i \in 1..Len(v) : v[i] = IF i <= Len(u) THEN u[i] ELSE x
      /\ w \in Seq(S) /\ Len(w) = Len(s) + 1
      /\ \A i \in 1..Len(w) : w[i] = IF i <= Len(s) THEN s[i] ELSE x
  BY <1>1
<1> HIDE DEF v, w
<1>3. ASSUME NEW i \in 1..Len(v) PROVE v[i] = w[Len(w) - Len(v) + i]
  <2> DEFINE j == Len(s) - Len(u) + i
  <2>0. /\ Len(u) \in Nat /\ Len(s) \in Nat /\ Len(u) <= Len(s)
        /\ i \in 1..(Len(u) + 1) /\ Len(v) = Len(u) + 1 /\ Len(w) = Len(s) + 1
    BY <1>1, <1>2
  <2>1. /\ Len(u) \in Nat /\ i \in Nat \ {0} /\ Len(w) - Len(v) + i = j
        /\ j \in 1..Len(w) /\ (i <= Len(u) <=> j <= Len(s))
    BY <2>0
  <2>2. CASE i <= Len(u)
    <3>1. i \in 1..Len(u) /\ j \in 1..Len(s) /\ i \in 1..Len(v)
      BY <2>0, <2>1, <2>2
    <3>2. v[i] = u[i] /\ u[i] = s[j]
      BY <1>1, <1>2, <2>2, <3>1
    <3>3. w[j] = s[j]
      BY <1>2, <2>1, <2>2
    <3> QED
      BY <2>1, <3>2, <3>3
  <2>3. CASE ~ (i <= Len(u))
    BY <1>2, <2>1, <2>3
  <2> QED
    BY <2>2, <2>3
<1>4. /\ Newest(v, n) \in Seq(S) /\ Newest(w, n) \in Seq(S)
      /\ Len(Newest(v, n)) = IF Len(v) > n THEN n ELSE Len(v)
      /\ Len(Newest(w, n)) = IF Len(w) > n THEN n ELSE Len(w)
      /\ \A i \in 1..Len(Newest(v, n)) :
           Newest(v, n)[i] = v[Len(v) - Len(Newest(v, n)) + i]
      /\ \A i \in 1..Len(Newest(w, n)) :
           Newest(w, n)[i] = w[Len(w) - Len(Newest(w, n)) + i]
  BY <1>2, NewestOfSeq
<1>5. Len(Newest(v, n)) = Len(Newest(w, n))
  BY <1>1, <1>2, <1>4
<1>6. ASSUME NEW i \in 1..Len(Newest(v, n))
      PROVE  Newest(v, n)[i] = Newest(w, n)[i]
  <2> DEFINE k == Len(Newest(v, n))
             j == Len(v) - k + i
  <2>0. k \in Nat /\ Len(v) \in Nat /\ k <= Len(v) /\ i \in 1..k
        /\ Len(w) \in Nat
    BY <1>1, <1>2, <1>4
  <2> HIDE DEF k
  <2>1. j \in 1..Len(v) /\ Len(w) - Len(v) + j = Len(w) - k + i
    BY <2>0
  <2>2. v[j] = w[Len(w) - Len(v) + j]
    BY <1>3, <2>1
  <2> QED
    BY <1>4, <1>5, <2>1, <2>2 DEF k
<1>7. Newest(v, n) = Newest(w, n)
  BY <1>4, <1>5, <1>6, SeqEqual
<1> QED
  BY <1>7 DEF u, v, w

-----------------------------------------------------------------------------
(* Questions to the AI provider.                                           *)

AskType ==
  [at : {"new", "status", "provider", "model", "call", "replied", "save",
         "trim", "done", "told", "failed"},
   since : 0..MaxChoices, wrote : BOOLEAN, provider : 0..MaxChoices,
   model : 0..MaxChoices, lines : Seq(Exchanges)]

AiType ==
  /\ AiTypeOK
  /\ asking \in [Asks -> AskType]
  /\ ring \in [Processes -> Seq(Exchanges)]
  /\ choosing => choice < MaxChoices

(* While a question reads the configuration, whoever writes it is noticed, *)
(* and what was read is no older than the question or the default.         *)
Current(t, c) ==
  c >= asking[t].since \/ (c = DefaultChoice /\ asking[t].wrote)

ReadsCurrent ==
  \A t \in Asks :
    /\ asking[t].at \in Reading =>
         asking[t].since <= choice /\ (choosing => asking[t].wrote)
    /\ asking[t].at \in {"model", "call"} => Current(t, asking[t].provider)
    /\ asking[t].at = "call" => Current(t, asking[t].model)

(* The history is trimmed under the lock only, and then to the lines that  *)
(* were read under the same lock.                                          *)
TrimmedUnderLock ==
  /\ \A t \in Asks : asking[t].at = "trim" <=> historyLock = t
  /\ \A t \in Asks : asking[t].at = "trim" =>
       asking[t].lines = history /\ Newest(history, Lines) = Newest(saved, Lines)
  /\ historyLock = Unlocked => history = Newest(saved, Lines)

AiInv == AiType /\ ReadsCurrent /\ TrimmedUnderLock

(* What a step of one question makes of what it holds.                     *)
LEMMA SetTyped ==
  ASSUME AiType, NEW t \in Asks, NEW r \in AskType, Set(t, r)
  PROVE  /\ asking' \in [Asks -> AskType] /\ asking'[t] = r
         /\ \A s \in Asks \ {t} : asking'[s] = asking[s]
BY DEF Set, AiType

(* Steps of a question that only read, outside the lock.                   *)
LEMMA ReadingStep ==
  ASSUME AiInv, NEW t \in Asks, NEW r \in AskType, Set(t, r),
         asking[t].at # "trim", r.at # "trim",
         UNCHANGED <<Files, ring, starts>>,
         r.at \in Reading => r.since <= choice /\ (choosing => r.wrote),
         r.at \in {"model", "call"} =>
           r.provider >= r.since \/ (r.provider = DefaultChoice /\ r.wrote),
         r.at = "call" =>
           r.model >= r.since \/ (r.model = DefaultChoice /\ r.wrote)
  PROVE  AiInv'
<1>1. /\ asking' \in [Asks -> AskType] /\ asking'[t] = r
      /\ \A s \in Asks \ {t} : asking'[s] = asking[s]
  BY SetTyped DEF AiInv
<1>2. UNCHANGED <<choice, choosing, history, historyLock, saved, ring, starts>>
  BY DEF Files
<1>3. AiType'
  <2>1. \A s \in Asks : asking'[s] \in AskType
    BY <1>1
  <2> QED
    BY SMTT(30), <1>1, <1>2, <2>1 DEF AiInv, AiType, AiTypeOK, AskType
<1>4. ReadsCurrent'
  BY <1>1, <1>2 DEF AiInv, ReadsCurrent, Current
<1>5. TrimmedUnderLock'
  BY <1>1, <1>2 DEF AiInv, TrimmedUnderLock
<1> QED
  BY <1>3, <1>4, <1>5 DEF AiInv

(* A write of the configuration is noticed by the questions that read it.  *)
LEMMA WrittenStep ==
  ASSUME AiInv, Written, choosing' \in BOOLEAN, choice' \in choice..MaxChoices,
         choosing' => choice' < MaxChoices,
         UNCHANGED <<ring, history, historyLock, saved, starts>>
  PROVE  AiInv'
<1>0. ASSUME NEW t \in Asks
      PROVE  /\ asking'[t] = [asking[t] EXCEPT !.wrote = (asking[t].at \in Reading)]
             /\ asking'[t] \in AskType
  <2> DEFINE noticed == asking[t].at \in Reading
  <2>1. noticed \in BOOLEAN /\ asking[t] \in AskType
    BY DEF AiInv, AiType
  <2>2. asking'[t] = [asking[t] EXCEPT !.wrote = noticed]
    BY DEF Written
  <2> HIDE DEF noticed
  <2>3. asking'[t] \in AskType
    BY <2>1, <2>2 DEF AskType
  <2> QED
    BY <2>2, <2>3 DEF noticed
<1>1. asking' \in [Asks -> AskType]
  BY <1>0 DEF Written
<1>2. ASSUME NEW t \in Asks
      PROVE  /\ asking'[t].at = asking[t].at
             /\ asking'[t].since = asking[t].since
             /\ asking'[t].provider = asking[t].provider
             /\ asking'[t].model = asking[t].model
             /\ asking'[t].lines = asking[t].lines
             /\ asking[t].at \in Reading => asking'[t].wrote
  BY <1>0 DEF AiInv, AiType, AskType
<1>3. choice \in Nat /\ choice' \in 0..MaxChoices
  BY AiAssumption DEF AiInv, AiType, AiTypeOK
<1>4. AiType'
  <2>1. \A s \in Asks : asking'[s] \in AskType
    BY <1>1
  <2> QED
    BY <1>1, <1>3, <2>1 DEF AiInv, AiType, AiTypeOK, AskType
<1>5. ReadsCurrent'
  <2>1. \A t \in Asks : asking[t].since \in Nat
    BY AiAssumption DEF AiInv, AiType, AskType
  <2> QED
    BY <1>2, <1>3, <2>1 DEF AiInv, ReadsCurrent, Current, Reading
<1>6. TrimmedUnderLock'
  BY <1>2 DEF AiInv, TrimmedUnderLock
<1> QED
  BY <1>4, <1>5, <1>6 DEF AiInv

(* A thread that has no question in hand.                                  *)
LEMMA ReadyTyped ==
  /\ Ready \in AskType
  /\ \A to \in {"told", "replied", "done", "failed"} :
       /\ [Ready EXCEPT !.at = to] \in AskType
       /\ [Ready EXCEPT !.at = to].at = to
<1>1. << >> \in Seq(Exchanges) /\ 0 \in 0..MaxChoices
  BY AiAssumption
<1>2. Ready \in AskType
  BY <1>1 DEF Ready, AskType
<1> QED
  BY <1>2 DEF AskType

(* At the start nothing is written and no question is under way.           *)
LEMMA AiInvInit == AiInit => AiInv
<1> SUFFICES ASSUME AiInit PROVE AiInv
  OBVIOUS
<1>1. /\ Lines \in Nat \ {0} /\ MaxHistory \in Nat
      /\ history \in Seq(Exchanges) /\ Len(history) <= Lines
  <2>1. Lines \in Nat \ {0} /\ MaxHistory \in Nat
    BY AiAssumption DEF Lines
  <2>2. << >> \in Seq(Exchanges) /\ Len(<< >>) <= Lines
    BY <2>1
  <2>3. Earlier \in Seq(Exchanges) /\ Len(Earlier) <= Lines
    BY <2>1 DEF Earlier, Exchanges
  <2> QED
    BY <2>1, <2>2, <2>3 DEF AiInit
<1>2. Ready \in AskType
  BY ReadyTyped
<1>3. asking \in [Asks -> AskType] /\ \A t \in Asks : asking[t] = Ready
  BY <1>2 DEF AiInit
<1>4. /\ Newest(history, MaxHistory) \in Seq(Exchanges)
      /\ Len(Newest(history, MaxHistory)) <= MaxHistory
  BY <1>1, NewestOfSeq
<1>5. Newest(saved, Lines) = history /\ saved = history
  BY <1>1 DEF AiInit, Newest
<1>6. AiType
  <2>1. /\ ring \in [Processes -> Seq(Exchanges)]
        /\ \A p \in Processes : Len(ring[p]) <= MaxHistory
    BY <1>4 DEF AiInit
  <2>2. \A t \in Asks : asking[t] \in AskType
    BY <1>3
  <2>3. choice \in 0..MaxChoices /\ starts \in 0..MaxStarts
    BY AiAssumption DEF AiInit
  <2>4. choosing \in BOOLEAN
    BY DEF AiInit
  <2>5. Len(history) <= Lines + 1
    <3>1. Len(history) \in Nat
      BY <1>1
    <3> QED
      BY <1>1, <3>1
  <2> QED
    BY <1>1, <1>3, <1>5, <2>1, <2>2, <2>3, <2>4, <2>5
    DEF AiInit, AiType, AiTypeOK, AskType
<1>7. ReadsCurrent
  BY <1>3 DEF ReadsCurrent, Ready, Reading
<1>8. TrimmedUnderLock
  BY <1>3, <1>5, AiAssumption DEF AiInit, TrimmedUnderLock, Ready
<1> QED
  BY <1>6, <1>7, <1>8 DEF AiInv

(* The exchange is appended under the lock.                                *)
LEMMA AppendStep ==
  ASSUME AiInv, NEW t \in Asks, AppendHistory(t), asking[t].at = "save"
  PROVE  AiInv'
<1> DEFINE r == [asking[t] EXCEPT !.at = "trim", !.lines = history']
<1>1. /\ historyLock = Unlocked /\ historyLock' = t
      /\ history' = Append(history, t) /\ saved' = Append(saved, t)
      /\ Set(t, r) /\ UNCHANGED <<choice, choosing, ring, starts>>
  BY DEF AppendHistory
<1>2. Lines \in Nat \ {0} /\ t \in Exchanges
  BY AiAssumption DEF Lines, Exchanges
<1>3. /\ history \in Seq(Exchanges) /\ saved \in Seq(Exchanges)
      /\ history = Newest(saved, Lines)
  BY <1>1 DEF AiInv, AiType, AiTypeOK, TrimmedUnderLock
<1>4. /\ history' \in Seq(Exchanges) /\ saved' \in Seq(Exchanges)
      /\ Len(history) \in Nat /\ Len(history) <= Lines
      /\ Len(history') = Len(history) + 1
  BY <1>1, <1>2, <1>3, NewestOfSeq
<1>5. Newest(history', Lines) = Newest(saved', Lines)
  BY <1>1, <1>2, <1>3, NewestAppend
<1>6. r \in AskType /\ r.at = "trim" /\ r.lines = history'
  BY <1>4 DEF AiInv, AiType, AskType
<1> HIDE DEF r
<1>7. /\ asking' \in [Asks -> AskType] /\ asking'[t] = r
      /\ \A s \in Asks \ {t} : asking'[s] = asking[s]
  BY <1>1, <1>6, SetTyped DEF AiInv
<1>8. AiType'
  <2>1. \A s \in Asks : asking'[s] \in AskType
    BY <1>7
  <2>2. Len(history') <= Lines + 1
    BY <1>2, <1>4
  <2> QED
    BY <1>1, <1>4, <1>7, <2>1, <2>2 DEF AiInv, AiType, AiTypeOK, AskType
<1>9. ReadsCurrent'
  BY <1>1, <1>6, <1>7 DEF AiInv, ReadsCurrent, Current, Reading
<1>10. TrimmedUnderLock'
  BY <1>1, <1>5, <1>6, <1>7, AiAssumption DEF AiInv, TrimmedUnderLock
<1> QED
  BY <1>8, <1>9, <1>10 DEF AiInv

(* The lines that were read are all there is, and the newest are kept.     *)
LEMMA TrimStep ==
  ASSUME AiInv, NEW t \in Asks, AppendHistory(t), asking[t].at = "trim"
  PROVE  AiInv'
<1> DEFINE r == [asking[t] EXCEPT !.at = "done", !.lines = << >>]
<1>1. /\ historyLock' = Unlocked /\ history' = Newest(asking[t].lines, Lines)
      /\ Set(t, r) /\ UNCHANGED <<choice, choosing, ring, starts, saved>>
  BY DEF AppendHistory
<1>2. Lines \in Nat \ {0}
  BY AiAssumption DEF Lines
<1>3. /\ history \in Seq(Exchanges) /\ asking[t].lines = history
      /\ historyLock = t /\ Newest(history, Lines) = Newest(saved, Lines)
  BY DEF AiInv, AiType, AiTypeOK, TrimmedUnderLock
<1>4. /\ history' \in Seq(Exchanges) /\ Len(history') <= Lines
      /\ history' = Newest(saved, Lines)
  BY <1>1, <1>2, <1>3, NewestOfSeq
<1>5. r \in AskType /\ r.at = "done"
  <2>1. << >> \in Seq(Exchanges) /\ asking[t] \in AskType
    BY DEF AiInv, AiType
  <2> QED
    BY <2>1 DEF AskType
<1> HIDE DEF r
<1>6. /\ asking' \in [Asks -> AskType] /\ asking'[t] = r
      /\ \A s \in Asks \ {t} : asking'[s] = asking[s]
  BY <1>1, <1>5, SetTyped DEF AiInv
<1>7. AiType'
  <2>1. \A s \in Asks : asking'[s] \in AskType
    BY <1>6
  <2>2. Len(history') <= Lines + 1
    BY <1>2, <1>4
  <2> QED
    BY <1>1, <1>4, <1>6, <2>1, <2>2 DEF AiInv, AiType, AiTypeOK, AskType
<1>8. ReadsCurrent'
  BY <1>1, <1>5, <1>6 DEF AiInv, ReadsCurrent, Current, Reading
<1>9. TrimmedUnderLock'
  BY <1>1, <1>3, <1>4, <1>5, <1>6, AiAssumption DEF AiInv, TrimmedUnderLock
<1> QED
  BY <1>7, <1>8, <1>9 DEF AiInv

(* The ring of a process takes an exchange, or is read from the file.      *)
LEMMA RingStep ==
  ASSUME AiInv, NEW p \in Processes, NEW s \in Seq(Exchanges),
         ring' = [ring EXCEPT ![p] = Newest(s, MaxHistory)]
  PROVE  /\ ring' \in [Processes -> Seq(Exchanges)]
         /\ \A q \in Processes : Len(ring'[q]) <= MaxHistory
<1>1. /\ Newest(s, MaxHistory) \in Seq(Exchanges)
      /\ Len(Newest(s, MaxHistory)) <= MaxHistory
  BY NewestOfSeq, AiAssumption
<1> QED
  BY <1>1 DEF AiInv, AiType, AiTypeOK

(* No step of a question, a choice or a trim breaks the invariant.         *)
LEMMA AiInvStep == AiInv /\ [AiNext]_aiVars => AiInv'
<1> SUFFICES ASSUME AiInv, [AiNext]_aiVars PROVE AiInv'
  OBVIOUS
<1>0. \A t \in Asks : asking[t] \in AskType /\ ModelConfig \in 0..MaxChoices
  BY AiAssumption DEF AiInv, AiType, AiTypeOK, ModelConfig, DefaultChoice
<1>1. CASE SelectModel
  <2>1. choice' = choice
    BY <1>1 DEF SelectModel
  <2>2. choice \in 0..MaxChoices /\ MaxChoices \in Nat
    BY AiAssumption DEF AiInv, AiType, AiTypeOK
  <2>3. choice' \in choice..MaxChoices
    BY <2>1, <2>2
  <2> QED
    BY <1>1, <2>1, <2>3, WrittenStep DEF SelectModel
<1>2. CASE SetModelConfig
  <2>1. choice' \in choice..MaxChoices
    BY <1>2, AiAssumption DEF SetModelConfig, AiInv, AiType, AiTypeOK
  <2> QED
    BY <1>2, <2>1, WrittenStep DEF SetModelConfig
<1>3. ASSUME NEW t \in Asks, AskAi(t) PROVE AiInv'
  <2> DEFINE r == [asking[t] EXCEPT !.at = "status", !.since = choice,
                                    !.wrote = choosing]
  <2>1. r \in AskType /\ r.at = "status" /\ r.since = choice /\ r.wrote = choosing
    BY <1>0 DEF AiInv, AiType, AiTypeOK, AskType
  <2>2. Set(t, r) /\ asking[t].at = "new" /\ UNCHANGED <<Files, ring, starts>>
    BY <1>3 DEF AskAi
  <2>3. choice <= choice
    BY DEF AiInv, AiType, AiTypeOK
  <2> HIDE DEF r
  <2> QED
    BY <2>1, <2>2, <2>3, ReadingStep
<1>4. ASSUME NEW t \in Asks, AiStatus(t) PROVE AiInv'
  <2>1. CASE Goto(t, "provider")
    <3> DEFINE r == [asking[t] EXCEPT !.at = "provider"]
    <3>1. r \in AskType /\ r.at = "provider" /\ r.since = asking[t].since
          /\ r.wrote = asking[t].wrote
      BY <1>0 DEF AskType
    <3>2. Set(t, r) /\ asking[t].at = "status" /\ UNCHANGED <<Files, ring, starts>>
      BY <1>4, <2>1 DEF AiStatus, Goto
    <3>3. asking[t].since <= choice /\ (choosing => asking[t].wrote)
      BY <3>2 DEF AiInv, ReadsCurrent, Reading
    <3> HIDE DEF r
    <3> QED
      BY <3>1, <3>2, <3>3, ReadingStep
  <2>2. CASE Set(t, [Ready EXCEPT !.at = "told"])
    <3> DEFINE r == [Ready EXCEPT !.at = "told"]
    <3>1. r \in AskType /\ r.at = "told"
      BY ReadyTyped
    <3>2. Set(t, r) /\ asking[t].at = "status" /\ UNCHANGED <<Files, ring, starts>>
      BY <1>4, <2>2 DEF AiStatus
    <3> HIDE DEF r
    <3> QED
      BY <3>1, <3>2, ReadingStep DEF Reading
  <2> QED
    BY <1>4, <2>1, <2>2 DEF AiStatus
<1>5. ASSUME NEW t \in Asks, asking[t].at \in Reading
      PROVE  /\ asking[t].since <= choice /\ (choosing => asking[t].wrote)
             /\ ModelConfig >= asking[t].since
                \/ (ModelConfig = DefaultChoice /\ asking[t].wrote)
  BY <1>5 DEF AiInv, AiType, AiTypeOK, AskType, ReadsCurrent, ModelConfig
<1>6. ASSUME NEW t \in Asks, ActiveProvider(t) PROVE AiInv'
  <2> DEFINE r == [asking[t] EXCEPT !.at = "model", !.provider = ModelConfig]
  <2>1. r \in AskType /\ r.at = "model" /\ r.since = asking[t].since
        /\ r.wrote = asking[t].wrote /\ r.provider = ModelConfig
    BY <1>0 DEF AskType
  <2>2. Set(t, r) /\ asking[t].at = "provider" /\ UNCHANGED <<Files, ring, starts>>
    BY <1>6 DEF ActiveProvider
  <2>3. asking[t].at \in Reading
    BY <2>2 DEF Reading
  <2> HIDE DEF r
  <2> QED
    BY <1>5, <2>1, <2>2, <2>3, ReadingStep
<1>7. ASSUME NEW t \in Asks, ActiveModel(t) PROVE AiInv'
  <2> DEFINE r == [asking[t] EXCEPT !.at = "call", !.model = ModelConfig]
  <2>1. r \in AskType /\ r.at = "call" /\ r.since = asking[t].since
        /\ r.wrote = asking[t].wrote /\ r.provider = asking[t].provider
        /\ r.model = ModelConfig
    BY <1>0 DEF AskType
  <2>2. Set(t, r) /\ asking[t].at = "model" /\ UNCHANGED <<Files, ring, starts>>
    BY <1>7 DEF ActiveModel
  <2>3. asking[t].at \in Reading
    BY <2>2 DEF Reading
  <2>4. asking[t].provider >= asking[t].since
        \/ (asking[t].provider = DefaultChoice /\ asking[t].wrote)
    BY <2>2 DEF AiInv, ReadsCurrent, Current
  <2> HIDE DEF r
  <2> QED
    BY <1>5, <2>1, <2>2, <2>3, <2>4, ReadingStep
<1>8. ASSUME NEW t \in Asks, CallModel(t) PROVE AiInv'
  <2>1. PICK to \in {"replied", "done", "failed"} :
          Set(t, [Ready EXCEPT !.at = to])
    BY <1>8 DEF CallModel, Outcomes
  <2> DEFINE r == [Ready EXCEPT !.at = to]
  <2>2. r \in AskType /\ r.at = to
    BY ReadyTyped
  <2>3. Set(t, r) /\ asking[t].at = "call" /\ UNCHANGED <<Files, ring, starts>>
    BY <1>8, <2>1 DEF CallModel
  <2> HIDE DEF r
  <2> QED
    BY <2>2, <2>3, ReadingStep DEF Reading
<1>9. ASSUME NEW t \in Asks, Remember(t) PROVE AiInv'
  <2> DEFINE r == [asking[t] EXCEPT !.at = "save"]
             p == ProcessOf[t]
  <2>1. r \in AskType /\ r.at = "save"
    BY <1>0 DEF AskType
  <2>2. Set(t, r) /\ asking[t].at = "replied"
        /\ ring' = [ring EXCEPT ![p] = Newest(Append(@, t), MaxHistory)]
        /\ UNCHANGED <<choice, choosing, history, historyLock, saved, starts>>
    BY <1>9 DEF Remember, Goto, Files
  <2>3. p \in Processes /\ t \in Exchanges
    BY AiAssumption DEF Processes, Range, Exchanges
  <2>4. Append(ring[p], t) \in Seq(Exchanges)
    BY <2>3 DEF AiInv, AiType
  <2>5. /\ ring' \in [Processes -> Seq(Exchanges)]
        /\ \A q \in Processes : Len(ring'[q]) <= MaxHistory
    BY <2>2, <2>3, <2>4, RingStep DEF AiInv, AiType
  <2> HIDE DEF r, p
  <2>6. /\ asking' \in [Asks -> AskType] /\ asking'[t] = r
        /\ \A s \in Asks \ {t} : asking'[s] = asking[s]
    BY <2>1, <2>2, SetTyped DEF AiInv
  <2>7. AiType'
    <3>1. \A s \in Asks : asking'[s] \in AskType
      BY <2>6
    <3> QED
      BY <2>2, <2>5, <2>6, <3>1 DEF AiInv, AiType, AiTypeOK, AskType
  <2>8. ReadsCurrent' /\ TrimmedUnderLock'
    BY <2>1, <2>2, <2>6 DEF AiInv, ReadsCurrent, Current, Reading,
       TrimmedUnderLock
  <2> QED
    BY <2>7, <2>8 DEF AiInv
<1>10. ASSUME NEW p \in Processes, LoadHistoryFromDisk(p) PROVE AiInv'
  <2>1. /\ ring' = [ring EXCEPT ![p] = Newest(history, MaxHistory)]
        /\ UNCHANGED <<choice, choosing, history, historyLock, saved, asking>>
        /\ starts' \in 0..MaxStarts
    BY <1>10, AiAssumption
    DEF LoadHistoryFromDisk, Files, AiInv, AiType, AiTypeOK
  <2>2. /\ ring' \in [Processes -> Seq(Exchanges)]
        /\ \A q \in Processes : Len(ring'[q]) <= MaxHistory
    BY <2>1, RingStep DEF AiInv, AiType, AiTypeOK
  <2> QED
    BY <2>1, <2>2 DEF AiInv, AiType, AiTypeOK, ReadsCurrent, Current,
       TrimmedUnderLock
<1>11. ASSUME NEW t \in Asks, AppendHistory(t) PROVE AiInv'
  BY <1>11, AppendStep, TrimStep DEF AppendHistory
<1>12. CASE UNCHANGED aiVars
  BY <1>12 DEF aiVars, AiInv, AiType, AiTypeOK, ReadsCurrent, Current,
     TrimmedUnderLock
<1> QED
  BY <1>1, <1>2, <1>3, <1>4, <1>6, <1>7, <1>8, <1>9, <1>10, <1>11, <1>12
  DEF AiNext, AskStep

(* A question goes to a provider and a model chosen no longer ago than     *)
(* when it was asked, or to the default while a choice was written; the    *)
(* history keeps the newest exchanges of all processes.                    *)
THEOREM AiIsCurrentAndKept ==
  AiSpec => [](AiTypeOK /\ UsesCurrentChoice /\ ExchangesKept)
<1>1. AiInv => AiTypeOK /\ UsesCurrentChoice /\ ExchangesKept
  <2> SUFFICES ASSUME AiInv
               PROVE  AiTypeOK /\ UsesCurrentChoice /\ ExchangesKept
    OBVIOUS
  <2>1. AiTypeOK /\ UsesCurrentChoice
    BY DEF AiInv, AiType, ReadsCurrent, Current, UsesCurrentChoice
  <2>2. ExchangesKept
    BY DEF AiInv, AiType, AiTypeOK, TrimmedUnderLock, ExchangesKept
  <2> QED
    BY <2>1, <2>2
<1> QED
  BY <1>1, AiInvInit, AiInvStep, PTL DEF AiSpec

-----------------------------------------------------------------------------
(* The command history.                                                    *)

HistoryFits ==
  /\ recent \in Seq(1..MaxEntries) /\ Len(recent) <= Keep
  /\ historyFile \in Seq(1..MaxEntries)
  /\ Len(historyFile) <= Keep + restarts + (IF At("count") \/ At("write")
                                            THEN 1 ELSE 0)
  /\ command \in [number : 0..MaxEntries,
                  at : {"down", "idle", "ran", "append", "count", "write",
                        "answer"}]
  /\ answered \subseteq 1..command.number /\ torn \subseteq answered
  /\ restarts \in 0..MaxRestarts
  /\ ~(At("idle") \/ At("down")) => command.number > 0

(* A list of commands in the order of their numbers, up to n.              *)
Rises(s, n) ==
  /\ \A i, j \in 1..Len(s) : i < j => s[i] < s[j]
  /\ \A i \in 1..Len(s) : s[i] <= n

(* A command is in a list, or Keep newer ones are.                         *)
HeldIn(s, c) ==
  \/ \E i \in 1..Len(s) : s[i] = c
  \/ Len(s) >= Keep /\ \A i \in 1..Len(s) : s[i] > c

(* The commands older than the one that runs.                              *)
Before == IF At("ran") THEN command.number - 1 ELSE command.number
BeforeInFile ==
  IF At("ran") \/ At("append") THEN command.number - 1 ELSE command.number

(* The list in memory and the one in the file are in order, and hold what  *)
(* was answered, and the command that runs from the step that records it.  *)
HistoryInv ==
  /\ HistoryFits
  /\ Rises(recent, Before) /\ Rises(historyFile, BeforeInFile)
  /\ ~(At("idle") \/ At("down")) => command.number \notin answered
  /\ \A c \in answered \ torn :
       HeldIn(historyFile, c) /\ (At("down") \/ HeldIn(recent, c))
  /\ At("append") \/ At("count") \/ At("write") \/ At("answer") =>
       HeldIn(recent, command.number)
  /\ At("count") \/ At("write") \/ At("answer") =>
       HeldIn(historyFile, command.number)

(* Keeping the newest commands keeps the order, and what the list holds.   *)
LEMMA NewestKeptHolds ==
  ASSUME NEW s \in Seq(1..MaxEntries), NEW n \in Nat, Rises(s, n)
  PROVE  /\ NewestKept(s) \in Seq(1..MaxEntries) /\ Len(NewestKept(s)) <= Keep
         /\ Rises(NewestKept(s), n)
         /\ \A c \in Nat : HeldIn(s, c) => HeldIn(NewestKept(s), c)
<1> DEFINE u == NewestKept(s)
           d == Len(s) - Len(u)
<1>0. Keep \in Nat \ {0} /\ MaxEntries \in Nat
  BY HistoryAssumption
<1>1. u = Newest(s, Keep)
  BY DEF NewestKept, Newest
<1>2. /\ u \in Seq(1..MaxEntries) /\ Len(s) \in Nat /\ Len(u) \in Nat
      /\ Len(u) = IF Len(s) > Keep THEN Keep ELSE Len(s)
      /\ \A i \in 1..Len(u) : u[i] = s[Len(s) - Len(u) + i]
  BY <1>0, <1>1, NewestOfSeq
<1>3. Len(u) <= Keep /\ d \in Nat
  BY <1>0, <1>2
<1> HIDE DEF u
<1>4. \A i \in 1..Len(u) : d + i \in 1..Len(s) /\ u[i] = s[d + i]
  BY <1>2, <1>3
<1>5. \A i \in 1..Len(s) : s[i] \in 1..MaxEntries
  BY ElementOfSeq
<1>6. Rises(u, n)
  <2>1. ASSUME NEW i \in 1..Len(u), NEW j \in 1..Len(u), i < j
        PROVE  u[i] < u[j]
    <3>1. d + i \in 1..Len(s) /\ d + j \in 1..Len(s) /\ d + i < d + j
      BY <1>2, <1>3, <1>4, <2>1
    <3> QED
      BY <1>4, <3>1 DEF Rises
  <2>2. \A i \in 1..Len(u) : u[i] <= n
    BY <1>4 DEF Rises
  <2> QED
    BY <2>1, <2>2 DEF Rises
<1>7. ASSUME NEW c \in Nat, HeldIn(s, c) PROVE HeldIn(u, c)
  <2>1. CASE Len(s) <= Keep
    <3>1. u = s
      BY <1>0, <1>2, <2>1 DEF u, NewestKept
    <3> QED
      BY <1>7, <3>1
  <2>2. CASE Len(s) > Keep
    <3>0. Len(u) = Keep /\ d = Len(s) - Keep
      BY <1>2, <2>2
    <3>1. CASE \A i \in 1..Len(s) : s[i] > c
      <4>1. \A i \in 1..Len(u) : u[i] > c
        BY <1>4, <3>1
      <4> QED
        BY <1>0, <3>0, <4>1 DEF HeldIn
    <3>2. CASE \E i \in 1..Len(s) : s[i] = c
      <4>1. PICK i \in 1..Len(s) : s[i] = c
        BY <3>2
      <4>2. CASE i <= d
        <5>1. ASSUME NEW j \in 1..Len(u) PROVE u[j] > c
          <6>1. d + j \in 1..Len(s) /\ i < d + j
            BY <1>2, <1>3, <1>4, <4>2
          <6>2. s[i] < s[d + j]
            BY <6>1 DEF Rises
          <6> QED
            BY <1>4, <1>5, <4>1, <6>1, <6>2
        <5> QED
          BY <1>0, <3>0, <5>1 DEF HeldIn
      <4>3. CASE i > d
        <5>1. i - d \in 1..Len(u) /\ d + (i - d) = i
          BY <1>2, <1>3, <4>3
        <5>2. u[i - d] = c
          BY <1>4, <4>1, <5>1
        <5> QED
          BY <5>1, <5>2 DEF HeldIn
      <4> QED
        BY <1>3, <4>2, <4>3
    <3> QED
      BY <1>7, <3>1, <3>2 DEF HeldIn
  <2> QED
    BY <1>0, <1>2, <2>1, <2>2
<1> QED
  BY <1>2, <1>3, <1>6, <1>7 DEF u

(* Appending the newest command keeps the order and what the list holds,   *)
(* and the list holds that command too.                                    *)
LEMMA AppendHolds ==
  ASSUME NEW s \in Seq(1..MaxEntries), NEW n \in 1..MaxEntries,
         Rises(s, n - 1)
  PROVE  /\ Append(s, n) \in Seq(1..MaxEntries)
         /\ Len(Append(s, n)) = Len(s) + 1
         /\ Rises(Append(s, n), n) /\ HeldIn(Append(s, n), n)
         /\ \A c \in 0..(n - 1) : HeldIn(s, c) => HeldIn(Append(s, n), c)
<1> DEFINE u == Append(s, n)
<1>0. MaxEntries \in Nat /\ Keep \in Nat \ {0}
  BY HistoryAssumption
<1>1. /\ u \in Seq(1..MaxEntries) /\ Len(s) \in Nat /\ Len(u) = Len(s) + 1
      /\ \A i \in 1..Len(u) : u[i] = IF i <= Len(s) THEN s[i] ELSE n
      /\ \A i \in 1..Len(s) : s[i] \in 1..MaxEntries
  <2>1. /\ u \in Seq(1..MaxEntries) /\ Len(s) \in Nat
        /\ Len(u) = Len(s) + 1 /\ u[Len(s) + 1] = n
        /\ \A i \in 1..Len(s) : u[i] = s[i]
    BY AppendProperties
  <2>2. \A i \in 1..Len(s) : s[i] \in 1..MaxEntries
    BY ElementOfSeq
  <2> QED
    BY <2>1, <2>2
<1> HIDE DEF u
<1>2. \A i \in 1..Len(s) : s[i] < n
  BY SMTT(30), <1>0, <1>1 DEF Rises
<1>3. Rises(u, n)
  <2>1. ASSUME NEW i \in 1..Len(u), NEW j \in 1..Len(u), i < j
        PROVE  u[i] < u[j]
    <3>1. i \in 1..Len(s) /\ u[i] = s[i]
      BY <1>1, <2>1
    <3>2. CASE j \in 1..Len(s)
      BY <1>1, <2>1, <3>1, <3>2 DEF Rises
    <3>3. CASE j = Len(s) + 1
      BY <1>1, <1>2, <3>1, <3>3
    <3> QED
      BY <1>1, <3>2, <3>3
  <2>2. ASSUME NEW i \in 1..Len(u) PROVE u[i] <= n
    <3>1. CASE i <= Len(s)
      <4>1. i \in 1..Len(s) /\ u[i] = s[i]
        BY <1>1, <3>1
      <4>2. s[i] \in 1..MaxEntries /\ s[i] < n
        BY <1>1, <1>2, <4>1
      <4> QED
        BY <1>0, <4>1, <4>2
    <3>2. CASE ~(i <= Len(s))
      BY <1>0, <1>1, <3>2
    <3> QED
      BY <3>1, <3>2
  <2> QED
    BY <2>1, <2>2 DEF Rises
<1>4. HeldIn(u, n)
  <2>1. Len(u) \in 1..Len(u) /\ u[Len(u)] = n
    BY <1>1
  <2> QED
    BY <2>1 DEF HeldIn
<1>5. ASSUME NEW c \in 0..(n - 1), HeldIn(s, c) PROVE HeldIn(u, c)
  <2>1. CASE \E i \in 1..Len(s) : s[i] = c
    <3>1. PICK i \in 1..Len(s) : s[i] = c
      BY <2>1
    <3>2. i \in 1..Len(u) /\ u[i] = c
      BY <1>1, <3>1
    <3> QED
      BY <3>2 DEF HeldIn
  <2>2. CASE Len(s) >= Keep /\ \A i \in 1..Len(s) : s[i] > c
    <3>1. ASSUME NEW i \in 1..Len(u) PROVE u[i] > c
      <4>1. CASE i <= Len(s)
        BY <1>1, <2>2, <4>1
      <4>2. CASE ~(i <= Len(s))
        BY <1>0, <1>1, <4>2
      <4> QED
        BY <4>1, <4>2
    <3> QED
      BY <1>0, <1>1, <2>2, <3>1 DEF HeldIn
  <2> QED
    BY <1>5, <2>1, <2>2 DEF HeldIn
<1> QED
  BY <1>1, <1>3, <1>4, <1>5 DEF u

(* A command moves on: where it is changes, and its number does not.       *)
LEMMA GoOnMoves ==
  ASSUME HistoryInv, NEW place, GoOn(place)
  PROVE  /\ command'.number = command.number /\ command'.at = place
         /\ command' = [number |-> command.number, at |-> place]
         /\ command.number \in 0..MaxEntries
BY DEF HistoryInv, HistoryFits, GoOn

(* Every step of the API keeps the history in order and complete.          *)
LEMMA HistoryInvStep == HistoryInv /\ [HistoryNext]_historyVars => HistoryInv'
<1> SUFFICES ASSUME HistoryInv, [HistoryNext]_historyVars PROVE HistoryInv'
  OBVIOUS
<1> DEFINE n == command.number
<1>0. /\ Keep \in Nat \ {0} /\ MaxEntries \in Nat /\ MaxRestarts \in Nat
      /\ n \in 0..MaxEntries /\ restarts \in 0..MaxRestarts
      /\ Len(historyFile) \in Nat /\ Len(recent) \in Nat
  BY HistoryAssumption DEF HistoryInv, HistoryFits
<1>a. \A i \in 1..Len(recent) : recent[i] \in 1..MaxEntries
  BY ElementOfSeq DEF HistoryInv, HistoryFits
<1>b. \A i \in 1..Len(historyFile) : historyFile[i] \in 1..MaxEntries
  BY ElementOfSeq DEF HistoryInv, HistoryFits
<1>c. \A c \in answered : c \in 1..n
  BY DEF HistoryInv, HistoryFits
<1>1. CASE RunCommand
  <2>1. /\ At("idle") /\ n < MaxEntries
        /\ command' = [number |-> n + 1, at |-> "ran"]
        /\ UNCHANGED <<recent, historyFile, answered, torn, restarts>>
    BY <1>1 DEF RunCommand
  <2>2. /\ command'.number = n + 1 /\ command'.at = "ran"
        /\ n + 1 \in 0..MaxEntries /\ n + 1 > 0
    BY <1>0, <2>1
  <2>3. HistoryFits'
    BY <1>0, <2>1, <2>2 DEF HistoryInv, HistoryFits, At
  <2>4. Rises(recent, n) /\ Rises(historyFile, n)
    BY <2>1 DEF HistoryInv, Before, BeforeInFile, At
  <2>5. Before' = n /\ BeforeInFile' = n
    BY <1>0, <2>2 DEF Before, BeforeInFile, At
  <2>6. Rises(recent, Before)' /\ Rises(historyFile, BeforeInFile)'
    BY <2>1, <2>4, <2>5 DEF Rises
  <2>7. n + 1 \notin answered
    BY <1>0, <1>c
  <2> QED
    BY <2>1, <2>2, <2>3, <2>6, <2>7 DEF HistoryInv, HeldIn, At
<1>2. CASE RecordCommand
  <2> DEFINE u == Append(recent, n)
             v == NewestKept(u)
  <2>1. /\ At("ran") /\ GoOn("append") /\ recent' = v
        /\ UNCHANGED <<historyFile, answered, torn, restarts>>
    BY <1>2 DEF RecordCommand
  <2>2. /\ n \in 1..MaxEntries /\ Rises(recent, n - 1)
        /\ Rises(historyFile, n - 1) /\ n \notin answered
    BY <1>0, <2>1 DEF HistoryInv, HistoryFits, Before, BeforeInFile, At
  <2>3. /\ u \in Seq(1..MaxEntries) /\ Rises(u, n) /\ HeldIn(u, n)
        /\ \A c \in 0..(n - 1) : HeldIn(recent, c) => HeldIn(u, c)
    BY <2>2, AppendHolds DEF HistoryInv, HistoryFits
  <2> HIDE DEF u
  <2>4. /\ v \in Seq(1..MaxEntries) /\ Len(v) <= Keep /\ Rises(v, n)
        /\ \A c \in Nat : HeldIn(u, c) => HeldIn(v, c)
    BY <1>0, <2>3, NewestKeptHolds
  <2> HIDE DEF v
  <2>5. /\ command'.number = n /\ command'.at = "append"
        /\ command' = [number |-> n, at |-> "append"]
    BY <2>1, GoOnMoves
  <2>6. HistoryFits'
    <3>1. Len(historyFile) <= Keep + restarts
      BY <1>0, <2>1 DEF HistoryInv, HistoryFits, At
    <3> QED
      BY <1>0, <2>1, <2>2, <2>4, <2>5, <3>1 DEF HistoryInv, HistoryFits, At
  <2>7. Rises(recent, Before)' /\ Rises(historyFile, BeforeInFile)'
    <3>1. Before' = n /\ BeforeInFile' = n - 1
      BY <2>5 DEF Before, BeforeInFile, At
    <3> QED
      BY <2>1, <2>2, <2>4, <3>1 DEF Rises
  <2>8. ASSUME NEW c \in answered \ torn
        PROVE  HeldIn(historyFile, c) /\ HeldIn(v, c)
    <3>1. c \in 0..(n - 1) /\ c \in Nat
      BY <1>0, <1>c, <2>2
    <3>2. HeldIn(historyFile, c) /\ HeldIn(recent, c)
      BY <2>1 DEF HistoryInv, At
    <3> QED
      BY <2>3, <2>4, <3>1, <3>2
  <2>9. HeldIn(v, n)
    BY <1>0, <2>3, <2>4
  <2> QED
    BY <2>1, <2>2, <2>5, <2>6, <2>7, <2>8, <2>9 DEF HistoryInv, HeldIn, At
<1>3. CASE /\ At("append") /\ GoOn("count")
           /\ historyFile' = Append(historyFile, n)
           /\ UNCHANGED <<recent, answered, torn, restarts>>
  <2> DEFINE u == Append(historyFile, n)
  <2>1. /\ n \in 1..MaxEntries /\ Rises(recent, n)
        /\ Rises(historyFile, n - 1) /\ n \notin answered /\ HeldIn(recent, n)
    BY <1>0, <1>3 DEF HistoryInv, HistoryFits, Before, BeforeInFile, At
  <2>2. /\ u \in Seq(1..MaxEntries) /\ Len(u) = Len(historyFile) + 1
        /\ Rises(u, n) /\ HeldIn(u, n)
        /\ \A c \in 0..(n - 1) : HeldIn(historyFile, c) => HeldIn(u, c)
    BY <2>1, AppendHolds DEF HistoryInv, HistoryFits
  <2>3. historyFile' = u
    BY <1>3
  <2> HIDE DEF u
  <2>4. /\ command'.number = n /\ command'.at = "count"
        /\ command' = [number |-> n, at |-> "count"]
    BY <1>3, GoOnMoves
  <2>5. HistoryFits'
    <3>1. Len(historyFile) <= Keep + restarts
      BY <1>0, <1>3 DEF HistoryInv, HistoryFits, At
    <3> QED
      BY <1>0, <1>3, <2>1, <2>2, <2>3, <2>4, <3>1
      DEF HistoryInv, HistoryFits, At
  <2>6. Rises(recent, Before)' /\ Rises(historyFile, BeforeInFile)'
    <3>1. Before' = n /\ BeforeInFile' = n
      BY <2>4 DEF Before, BeforeInFile, At
    <3> QED
      BY <1>3, <2>1, <2>2, <2>3, <3>1 DEF Rises
  <2>7. ASSUME NEW c \in answered \ torn
        PROVE  HeldIn(u, c) /\ HeldIn(recent, c)
    <3>1. c \in 0..(n - 1)
      BY <1>0, <1>c, <2>1
    <3>2. HeldIn(historyFile, c) /\ HeldIn(recent, c)
      BY <1>3 DEF HistoryInv, At
    <3> QED
      BY <2>2, <3>1, <3>2
  <2> QED
    BY <1>3, <2>1, <2>2, <2>3, <2>4, <2>5, <2>6, <2>7
    DEF HistoryInv, HeldIn, At
<1>4. CASE /\ At("count")
           /\ \/ Len(historyFile) <= Keep /\ GoOn("answer")
              \/ Len(historyFile) > Keep /\ GoOn("write")
           /\ UNCHANGED <<historyFile, recent, answered, torn, restarts>>
  <2>1. PICK place \in {"answer", "write"} :
          /\ GoOn(place)
          /\ place = "answer" => Len(historyFile) <= Keep
    BY <1>4
  <2>2. /\ command'.number = n /\ command'.at = place
        /\ command' = [number |-> n, at |-> place]
    BY <2>1, GoOnMoves
  <2>3. HistoryFits'
    <3>1. Len(historyFile) <= Keep + restarts + 1
      BY <1>0, <1>4 DEF HistoryInv, HistoryFits, At
    <3>2. CASE place = "answer"
      BY <1>0, <1>4, <2>1, <2>2, <3>2 DEF HistoryInv, HistoryFits, At
    <3>3. CASE place = "write"
      BY <1>0, <1>4, <2>2, <3>1, <3>3 DEF HistoryInv, HistoryFits, At
    <3> QED
      BY <3>2, <3>3
  <2>4. Rises(recent, Before)' /\ Rises(historyFile, BeforeInFile)'
    <3>1. Before' = n /\ BeforeInFile' = n /\ Before = n /\ BeforeInFile = n
      BY <1>4, <2>2 DEF Before, BeforeInFile, At
    <3> QED
      BY <1>4, <3>1 DEF HistoryInv, Rises
  <2> QED
    BY <1>4, <2>2, <2>3, <2>4 DEF HistoryInv, HeldIn, At
<1>5. CASE /\ At("write") /\ historyFile' = NewestKept(historyFile)
           /\ GoOn("answer") /\ UNCHANGED <<recent, answered, torn, restarts>>
  <2> DEFINE v == NewestKept(historyFile)
  <2>1. /\ Rises(recent, n) /\ Rises(historyFile, n)
        /\ HeldIn(historyFile, n) /\ HeldIn(recent, n) /\ n \notin answered
    BY <1>5 DEF HistoryInv, Before, BeforeInFile, At
  <2>2. /\ v \in Seq(1..MaxEntries) /\ Len(v) <= Keep /\ Rises(v, n)
        /\ \A c \in Nat : HeldIn(historyFile, c) => HeldIn(v, c)
    BY <1>0, <2>1, NewestKeptHolds DEF HistoryInv, HistoryFits
  <2>3. historyFile' = v
    BY <1>5
  <2> HIDE DEF v
  <2>4. /\ command'.number = n /\ command'.at = "answer"
        /\ command' = [number |-> n, at |-> "answer"]
    BY <1>5, GoOnMoves
  <2>5. HistoryFits'
    <3>1. Len(v) \in Nat /\ n > 0
      BY <1>5, <2>2 DEF HistoryInv, HistoryFits, At
    <3> QED
      BY <1>0, <1>5, <2>2, <2>3, <2>4, <3>1 DEF HistoryInv, HistoryFits, At
  <2>6. Rises(recent, Before)' /\ Rises(historyFile, BeforeInFile)'
    <3>1. Before' = n /\ BeforeInFile' = n
      BY <2>4 DEF Before, BeforeInFile, At
    <3> QED
      BY <1>5, <2>1, <2>2, <2>3, <3>1 DEF Rises
  <2>7. ASSUME NEW c \in answered \ torn
        PROVE  HeldIn(v, c) /\ HeldIn(recent, c)
    <3>1. HeldIn(historyFile, c) /\ HeldIn(recent, c) /\ c \in Nat
      BY <1>5, <1>c DEF HistoryInv, At
    <3> QED
      BY <2>2, <3>1
  <2>8. HeldIn(v, n)
    BY <1>0, <2>1, <2>2
  <2> QED
    BY <1>5, <2>1, <2>3, <2>4, <2>5, <2>6, <2>7, <2>8
    DEF HistoryInv, HeldIn, At
<1>6. CASE AnswerCommand
  <2>1. /\ At("answer") /\ GoOn("idle") /\ answered' = answered \union {n}
        /\ UNCHANGED <<recent, historyFile, torn, restarts>>
    BY <1>6 DEF AnswerCommand
  <2>2. /\ command'.number = n /\ command'.at = "idle"
        /\ command' = [number |-> n, at |-> "idle"]
    BY <2>1, GoOnMoves
  <2>3. HistoryFits'
    <3>1. Len(historyFile) <= Keep + restarts /\ n > 0
      BY <1>0, <2>1 DEF HistoryInv, HistoryFits, At
    <3>2. answered' \subseteq 1..n
      BY <1>0, <1>c, <2>1, <3>1
    <3> QED
      BY <1>0, <2>1, <2>2, <3>1, <3>2 DEF HistoryInv, HistoryFits, At
  <2>4. Rises(recent, Before)' /\ Rises(historyFile, BeforeInFile)'
    <3>1. Before' = n /\ BeforeInFile' = n /\ Before = n /\ BeforeInFile = n
      BY <2>1, <2>2 DEF Before, BeforeInFile, At
    <3> QED
      BY <2>1, <3>1 DEF HistoryInv, Rises
  <2>5. ASSUME NEW c \in answered' \ torn'
        PROVE  HeldIn(historyFile, c) /\ HeldIn(recent, c)
    <3>1. HeldIn(historyFile, n) /\ HeldIn(recent, n)
      BY <2>1 DEF HistoryInv, At
    <3>2. c # n => HeldIn(historyFile, c) /\ HeldIn(recent, c)
      BY <2>1 DEF HistoryInv, At
    <3> QED
      BY <3>1, <3>2
  <2> QED
    BY <2>1, <2>2, <2>3, <2>4, <2>5 DEF HistoryInv, HeldIn, At
<1>7. CASE KillApi
  <2>1. /\ restarts < MaxRestarts /\ restarts' = restarts + 1
        /\ recent' = << >> /\ GoOn("down") /\ answered' = answered
        /\ ~At("down")
    BY <1>7 DEF KillApi
  <2>2. /\ command'.number = n /\ command'.at = "down"
        /\ command' = [number |-> n, at |-> "down"]
    BY <2>1, GoOnMoves
  <2>3. << >> \in Seq(1..MaxEntries) /\ Len(<< >>) = 0
    OBVIOUS
  <2>4. Before' = n /\ BeforeInFile' = n
    BY <2>2 DEF Before, BeforeInFile, At
  <2>5. CASE At("write")
    <3>1. historyFile' = << >> /\ torn' = answered
      BY <1>7, <2>5 DEF KillApi
    <3>2. HistoryFits'
      BY <1>0, <2>1, <2>2, <2>3, <3>1 DEF HistoryInv, HistoryFits, At
    <3>3. Rises(recent, Before)' /\ Rises(historyFile, BeforeInFile)'
      BY <2>1, <2>3, <3>1 DEF Rises
    <3> QED
      BY <2>1, <2>2, <3>1, <3>2, <3>3 DEF HistoryInv, At
  <2>6. CASE ~At("write")
    <3>1. historyFile' = historyFile /\ torn' = torn
      BY <1>7, <2>6 DEF KillApi
    <3>2. HistoryFits'
      <4>1. Len(historyFile) <= Keep + restarts + 1
        BY <1>0 DEF HistoryInv, HistoryFits
      <4> QED
        BY <1>0, <2>1, <2>2, <2>3, <3>1, <4>1 DEF HistoryInv, HistoryFits, At
    <3>3. Rises(recent, Before)'
      BY <2>1, <2>3 DEF Rises
    <3>4. Rises(historyFile, BeforeInFile)'
      <4>1. BeforeInFile \in Int /\ BeforeInFile <= n
        BY <1>0 DEF BeforeInFile
      <4>2. \A i \in 1..Len(historyFile) : historyFile[i] <= n
        BY <1>0, <1>b, <4>1 DEF HistoryInv, Rises
      <4> QED
        BY <2>4, <3>1, <4>2 DEF HistoryInv, Rises
    <3> QED
      BY <2>1, <2>2, <3>1, <3>2, <3>3, <3>4 DEF HistoryInv, HeldIn, At
  <2> QED
    BY <2>5, <2>6
<1>8. CASE LoadHistory
  <2> DEFINE v == NewestKept(historyFile)
  <2>1. /\ At("down") /\ recent' = v /\ GoOn("idle")
        /\ UNCHANGED <<historyFile, answered, torn, restarts>>
    BY <1>8 DEF LoadHistory
  <2>2. Rises(historyFile, n)
    BY <2>1 DEF HistoryInv, BeforeInFile, At
  <2>3. /\ v \in Seq(1..MaxEntries) /\ Len(v) <= Keep /\ Rises(v, n)
        /\ \A c \in Nat : HeldIn(historyFile, c) => HeldIn(v, c)
    BY <1>0, <2>2, NewestKeptHolds DEF HistoryInv, HistoryFits
  <2> HIDE DEF v
  <2>4. /\ command'.number = n /\ command'.at = "idle"
        /\ command' = [number |-> n, at |-> "idle"]
    BY <2>1, GoOnMoves
  <2>5. HistoryFits'
    <3>1. Len(historyFile) <= Keep + restarts
      BY <1>0, <2>1 DEF HistoryInv, HistoryFits, At
    <3> QED
      BY <1>0, <2>1, <2>3, <2>4, <3>1 DEF HistoryInv, HistoryFits, At
  <2>6. Rises(recent, Before)' /\ Rises(historyFile, BeforeInFile)'
    <3>1. Before' = n /\ BeforeInFile' = n
      BY <2>4 DEF Before, BeforeInFile, At
    <3> QED
      BY <2>1, <2>2, <2>3, <3>1 DEF Rises
  <2>7. ASSUME NEW c \in answered \ torn
        PROVE  HeldIn(historyFile, c) /\ HeldIn(v, c)
    <3>1. HeldIn(historyFile, c) /\ c \in Nat
      BY <1>c DEF HistoryInv
    <3> QED
      BY <2>3, <3>1
  <2> QED
    BY <2>1, <2>4, <2>5, <2>6, <2>7 DEF HistoryInv, HeldIn, At
<1>9. CASE UNCHANGED historyVars
  BY <1>9 DEF historyVars, HistoryInv, HistoryFits, Rises, HeldIn, Before,
              BeforeInFile, At
<1> QED
  BY <1>1, <1>2, <1>3, <1>4, <1>5, <1>6, <1>7, <1>8, <1>9
  DEF HistoryNext, SaveHistoryEntry

(* What was answered is in the history that is shown, unless enough newer  *)
(* commands are, or the API was killed between emptying the file and       *)
(* writing it again: for any number of commands, kept lines and restarts.  *)
THEOREM AnsweredIsKept ==
  HistorySpec => [](HistoryTypeOK /\ AnsweredIsRemembered)
<1>1. HistoryInit => HistoryInv
  <2> SUFFICES ASSUME HistoryInit PROVE HistoryInv
    OBVIOUS
  <2>1. << >> \in Seq(1..MaxEntries) /\ Len(<< >>) = 0
    OBVIOUS
  <2>2. /\ command = [number |-> 0, at |-> "idle"] /\ recent = << >>
        /\ historyFile = << >> /\ answered = {} /\ torn = {} /\ restarts = 0
    BY DEF HistoryInit
  <2>3. HistoryFits
    BY <2>1, <2>2, HistoryAssumption DEF HistoryFits, At
  <2> QED
    BY <2>1, <2>2, <2>3 DEF HistoryInv, Rises, HeldIn, At
<1>2. HistoryInv => HistoryTypeOK /\ AnsweredIsRemembered
  <2> SUFFICES ASSUME HistoryInv PROVE HistoryTypeOK /\ AnsweredIsRemembered
    OBVIOUS
  <2>1. HistoryTypeOK
    <3>1. /\ Keep \in Nat /\ MaxRestarts \in Nat /\ MaxEntries \in Nat
          /\ restarts \in 0..MaxRestarts /\ command.number \in 0..MaxEntries
          /\ Len(historyFile) \in Nat /\ answered \subseteq 1..command.number
      BY HistoryAssumption DEF HistoryInv, HistoryFits
    <3>2. Len(historyFile) <= Keep + 1 + MaxRestarts
      BY <3>1 DEF HistoryInv, HistoryFits
    <3>3. answered \subseteq 1..MaxEntries
      BY <3>1
    <3> QED
      BY <3>2, <3>3 DEF HistoryInv, HistoryFits, HistoryTypeOK
  <2>2. ASSUME At("idle"), NEW c \in answered \ torn
        PROVE  \/ Contains(recent, c)
               \/ Len(recent) = Keep /\ \A d \in ToSet(recent) : d > c
    <3>1. HeldIn(recent, c)
      BY <2>2 DEF HistoryInv, At
    <3>2. Len(recent) \in Nat /\ Keep \in Nat /\ Len(recent) <= Keep
          /\ DOMAIN recent = 1..Len(recent)
      BY HistoryAssumption DEF HistoryInv, HistoryFits
    <3>3. CASE \E i \in 1..Len(recent) : recent[i] = c
      BY <3>3 DEF Contains
    <3>4. CASE Len(recent) >= Keep /\ \A i \in 1..Len(recent) : recent[i] > c
      <4>1. Len(recent) = Keep
        <5>1. /\ Len(recent) \in Nat /\ Keep \in Nat
              /\ Len(recent) >= Keep /\ Len(recent) <= Keep
          BY <3>2, <3>4
        <5> QED
          BY <5>1
      <4>2. \A d \in ToSet(recent) : d > c
        BY <3>2, <3>4 DEF ToSet
      <4> QED
        BY <4>1, <4>2
    <3> QED
      BY <3>1, <3>3, <3>4 DEF HeldIn
  <2> QED
    BY <2>1, <2>2 DEF AnsweredIsRemembered
<1> QED
  BY <1>1, <1>2, HistoryInvStep, PTL DEF HistorySpec

-----------------------------------------------------------------------------
(* The logs of forms.                                                      *)

SubmitType == [at : {"none", "wait", "open", "written"}, log : Logs,
               number : 0..MaxRecords, inode : 0..MaxResets,
               account : Accounts \union {"none"}]

(* What was accepted is in the file that has the log's name.               *)
AcceptedIsWritten ==
  \A l \in Logs : \A r \in accepted[l] :
    \E i \in 1..Len(lines[l]) : lines[l][i] = r

(* Who is about to write holds the lock, and has that file open.           *)
WritersHoldTheLock ==
  \A s \in Submitters :
    submit[s].at = "open" => /\ lock[submit[s].log] = s
                             /\ submit[s].inode = inode[submit[s].log]

RecordsAreReal ==
  \A s \in Submitters : submit[s].at # "none" => RecordOf(s) \in FormRecord

(* Every reset makes one file more.                                        *)
FilesAreCounted == \A l \in Logs : inode[l] <= resets

FormInv ==
  /\ FormTypeOK /\ AcceptedIsWritten /\ WritersHoldTheLock /\ RecordsAreReal
  /\ FilesAreCounted

(* A submitter's form becomes r, and the others' stay.                     *)
LEMMA SubmitTyped ==
  ASSUME FormInv, NEW s \in Submitters, NEW r \in SubmitType,
         submit' = [submit EXCEPT ![s] = r]
  PROVE  /\ submit' \in [Submitters -> SubmitType] /\ submit'[s] = r
         /\ \A t \in Submitters \ {s} : submit'[t] = submit[t]
BY DEF FormInv, FormTypeOK, SubmitType

(* Every step of a submission and the reset of the registry keep the       *)
(* invariant of the form logs.                                             *)
LEMMA FormInvStep == FormInv /\ [FormNext]_formVars => FormInv'
<1> SUFFICES ASSUME FormInv, [FormNext]_formVars PROVE FormInv'
  OBVIOUS
<1>0. /\ MaxRecords \in Nat /\ MaxResets \in Nat /\ Unheld \notin Submitters
      /\ \A s \in Submitters : submit[s] \in SubmitType
      /\ "users" \in Logs /\ "intake" \in Logs
  BY FormAssumption DEF FormInv, FormTypeOK, SubmitType, Logs
<1>1. ASSUME NEW s \in Submitters, NEW l \in Logs, NewForm(s, l)
      PROVE  FormInv'
  <2>1. PICK a \in Accounts :
          submit' = [submit EXCEPT ![s] = [at |-> "wait", log |-> l,
                       number |-> records', inode |-> 0, account |-> a]]
    BY <1>1 DEF NewForm
  <2> DEFINE r == [at |-> "wait", log |-> l, number |-> records',
                   inode |-> 0, account |-> a]
  <2>2. /\ records' \in 1..MaxRecords
        /\ UNCHANGED <<lines, inode, lock, accepted, resets>>
    BY <1>0, <1>1 DEF NewForm, FormInv, FormTypeOK
  <2>3. r \in SubmitType /\ r.at = "wait" /\ r.number \in 1..MaxRecords
        /\ r.account \in Accounts
    BY <1>0, <2>2 DEF SubmitType
  <2>4. submit' = [submit EXCEPT ![s] = r]
    BY <2>1
  <2> HIDE DEF r
  <2>5. /\ submit' \in [Submitters -> SubmitType] /\ submit'[s] = r
        /\ \A t \in Submitters \ {s} : submit'[t] = submit[t]
    BY <2>3, <2>4, SubmitTyped
  <2>6. FormTypeOK'
    <3>1. records' \in 0..MaxRecords
      BY <1>0, <2>2
    <3> QED
      BY <2>2, <2>5, <3>1 DEF FormInv, FormTypeOK, SubmitType
  <2>7. WritersHoldTheLock'
    BY <2>2, <2>3, <2>5 DEF FormInv, WritersHoldTheLock
  <2>8. RecordsAreReal'
    BY <2>3, <2>5 DEF FormInv, RecordsAreReal, RecordOf, FormRecord
  <2> QED
    BY <2>2, <2>6, <2>7, <2>8 DEF FormInv, AcceptedIsWritten, FilesAreCounted
<1>2. ASSUME NEW s \in Submitters, OpenLog(s) PROVE FormInv'
  <2> DEFINE l == submit[s].log
             r == [[submit[s] EXCEPT !.at = "open"] EXCEPT !.inode = inode[l]]
  <2>1. /\ submit[s].at = "wait" /\ lock[l] = Unheld
        /\ lock' = [lock EXCEPT ![l] = s] /\ l \in Logs
        /\ UNCHANGED <<lines, inode, accepted, records, resets>>
    BY <1>0, <1>2 DEF OpenLog, SubmitType
  <2>2. submit' = [submit EXCEPT ![s].at = "open", ![s].inode = inode[l]]
    BY <1>2 DEF OpenLog
  <2>3. submit' = [submit EXCEPT ![s] = r]
    BY <2>2 DEF FormInv, FormTypeOK
  <2>4. /\ r \in SubmitType /\ r.at = "open" /\ r.inode = inode[l] /\ r.log = l
        /\ r.number = submit[s].number /\ r.account = submit[s].account
    BY <1>0, <2>1 DEF SubmitType, FormInv, FormTypeOK
  <2> HIDE DEF r
  <2>5. /\ submit' \in [Submitters -> SubmitType] /\ submit'[s] = r
        /\ \A t \in Submitters \ {s} : submit'[t] = submit[t]
    BY <2>3, <2>4, SubmitTyped
  <2>6. /\ lock' \in [Logs -> Submitters \union {Unheld}] /\ lock'[l] = s
        /\ \A k \in Logs \ {l} : lock'[k] = lock[k]
    BY <2>1 DEF FormInv, FormTypeOK
  <2>7. FormTypeOK'
    BY <2>1, <2>5, <2>6 DEF FormInv, FormTypeOK, SubmitType
  <2>8. ASSUME NEW t \in Submitters, submit'[t].at = "open"
        PROVE  /\ lock'[submit'[t].log] = t
               /\ submit'[t].inode = inode'[submit'[t].log]
    <3>1. CASE t = s
      BY <2>1, <2>4, <2>5, <2>6, <3>1
    <3>2. CASE t # s
      <4>1. submit'[t] = submit[t] /\ submit[t].log \in Logs
        BY <1>0, <2>5, <3>2 DEF SubmitType
      <4>2. lock[submit[t].log] = t /\ submit[t].inode = inode[submit[t].log]
        BY <2>8, <4>1 DEF FormInv, WritersHoldTheLock
      <4>3. submit[t].log # l
        BY <1>0, <2>1, <4>2
      <4> QED
        BY <2>1, <2>6, <4>1, <4>2, <4>3
    <3> QED
      BY <3>1, <3>2
  <2>9. RecordsAreReal'
    BY <2>1, <2>4, <2>5 DEF FormInv, RecordsAreReal, RecordOf
  <2> QED
    BY <2>1, <2>7, <2>8, <2>9
    DEF FormInv, AcceptedIsWritten, WritersHoldTheLock,
                                   FilesAreCounted
<1>3. ASSUME NEW s \in Submitters, WriteLine(s) PROVE FormInv'
  <2> DEFINE l == submit[s].log
             r == [submit[s] EXCEPT !.at = "written"]
             x == RecordOf(s)
  <2>1. /\ submit[s].at = "open" /\ lock' = [lock EXCEPT ![l] = Unheld]
        /\ l \in Logs /\ submit' = [submit EXCEPT ![s].at = "written"]
        /\ accepted' = [accepted EXCEPT ![l] = @ \union {x}]
        /\ UNCHANGED <<inode, records, resets>>
    BY <1>0, <1>3 DEF WriteLine, SubmitType
  <2>2. lock[l] = s /\ submit[s].inode = inode[l] /\ x \in FormRecord
    BY <2>1 DEF FormInv, WritersHoldTheLock, RecordsAreReal
  <2>3. lines' = [lines EXCEPT ![l] = Append(@, x)]
    BY <1>3, <2>2 DEF WriteLine
  <2>4. submit' = [submit EXCEPT ![s] = r]
    BY <2>1
  <2>5. /\ r \in SubmitType /\ r.at = "written"
        /\ r.number = submit[s].number /\ r.account = submit[s].account
    BY <1>0 DEF SubmitType
  <2> HIDE DEF r
  <2>6. /\ submit' \in [Submitters -> SubmitType] /\ submit'[s] = r
        /\ \A t \in Submitters \ {s} : submit'[t] = submit[t]
    BY <2>4, <2>5, SubmitTyped
  <2>7. /\ lock' \in [Logs -> Submitters \union {Unheld}]
        /\ \A k \in Logs \ {l} : lock'[k] = lock[k]
    BY <2>1 DEF FormInv, FormTypeOK
  <2>8. RecordsAreReal'
    BY <2>2, <2>5, <2>6 DEF FormInv, RecordsAreReal, RecordOf
  <2> HIDE DEF x
  <2>9. /\ lines' \in [Logs -> Seq(FormRecord)]
        /\ lines'[l] = Append(lines[l], x) /\ lines[l] \in Seq(FormRecord)
        /\ \A k \in Logs \ {l} : lines'[k] = lines[k]
    BY <2>1, <2>2, <2>3 DEF FormInv, FormTypeOK
  <2>10. /\ accepted' \in [Logs -> SUBSET FormRecord]
         /\ accepted'[l] = accepted[l] \union {x}
         /\ \A k \in Logs \ {l} : accepted'[k] = accepted[k]
    BY <2>1, <2>2 DEF FormInv, FormTypeOK
  <2>11. FormTypeOK'
    BY <2>1, <2>6, <2>7, <2>9, <2>10 DEF FormInv, FormTypeOK, SubmitType
  <2>12. ASSUME NEW k \in Logs, NEW y \in accepted'[k]
         PROVE  \E i \in 1..Len(lines'[k]) : lines'[k][i] = y
    <3>1. CASE k # l
      BY SMTT(30), <2>9, <2>10, <3>1
      DEF FormInv, AcceptedIsWritten, FilesAreCounted
    <3>2. CASE k = l
      <4>1. /\ Len(lines[l]) \in Nat /\ Len(lines'[l]) = Len(lines[l]) + 1
            /\ lines'[l][Len(lines[l]) + 1] = x
            /\ \A i \in 1..Len(lines[l]) : lines'[l][i] = lines[l][i]
        BY <2>2, <2>9
      <4>2. CASE y = x
        BY <3>2, <4>1, <4>2
      <4>3. CASE y # x
        <5>1. PICK i \in 1..Len(lines[l]) : lines[l][i] = y
          BY <2>1, <2>10, <3>2, <4>3
          DEF FormInv, AcceptedIsWritten, FilesAreCounted
        <5> QED
          BY SMTT(30), <3>2, <4>1, <5>1
      <4> QED
        BY <4>2, <4>3
    <3> QED
      BY <3>1, <3>2
  <2>13. ASSUME NEW t \in Submitters, submit'[t].at = "open"
         PROVE  /\ lock'[submit'[t].log] = t
                /\ submit'[t].inode = inode'[submit'[t].log]
    <3>1. t # s
      BY <2>5, <2>6, <2>13
    <3>2. submit'[t] = submit[t] /\ submit[t].log \in Logs
      BY <1>0, <2>6, <3>1 DEF SubmitType
    <3>3. lock[submit[t].log] = t /\ submit[t].inode = inode[submit[t].log]
      BY <2>13, <3>2 DEF FormInv, WritersHoldTheLock
    <3>4. submit[t].log # l
      BY <2>2, <3>1, <3>3
    <3> QED
      BY <2>1, <2>7, <3>2, <3>3, <3>4
  <2>14. AcceptedIsWritten'
    BY <2>12 DEF AcceptedIsWritten
  <2>15. WritersHoldTheLock'
    BY <2>13 DEF WritersHoldTheLock
  <2>16. FilesAreCounted'
    BY <2>1 DEF FormInv, FilesAreCounted
  <2> QED
    BY <2>8, <2>11, <2>14, <2>15, <2>16 DEF FormInv
<1>4. ASSUME NEW s \in Submitters, AnswerForm(s) PROVE FormInv'
  <2>1. FreshForm \in SubmitType /\ FreshForm.at = "none"
    BY <1>0 DEF FreshForm, SubmitType
  <2>2. /\ submit' = [submit EXCEPT ![s] = FreshForm]
        /\ UNCHANGED <<lines, inode, lock, accepted, records, resets>>
    BY <1>4 DEF AnswerForm
  <2>3. /\ submit' \in [Submitters -> SubmitType] /\ submit'[s] = FreshForm
        /\ \A t \in Submitters \ {s} : submit'[t] = submit[t]
    BY <2>1, <2>2, SubmitTyped
  <2>4. FormTypeOK'
    BY <2>2, <2>3 DEF FormInv, FormTypeOK, SubmitType
  <2>5. WritersHoldTheLock'
    BY <2>1, <2>2, <2>3 DEF FormInv, WritersHoldTheLock
  <2>6. RecordsAreReal'
    BY <2>1, <2>3 DEF FormInv, RecordsAreReal, RecordOf
  <2> QED
    BY <2>2, <2>4, <2>5, <2>6 DEF FormInv, AcceptedIsWritten, FilesAreCounted
<1>5. CASE ClearUsers
  <2>1. /\ lock["users"] = Unheld /\ resets < MaxResets
        /\ resets' = resets + 1
        /\ lines' = [lines EXCEPT !["users"] = << >>]
        /\ inode' = [inode EXCEPT !["users"] = @ + 1]
        /\ accepted' = [accepted EXCEPT !["users"] = {}]
        /\ UNCHANGED <<lock, submit, records>>
    BY <1>5 DEF ClearUsers
  <2>2. /\ lines' \in [Logs -> Seq(FormRecord)]
        /\ \A k \in Logs \ {"users"} : lines'[k] = lines[k]
    <3>1. << >> \in Seq(FormRecord)
      OBVIOUS
    <3> QED
      BY <2>1, <3>1 DEF FormInv, FormTypeOK
  <2>3. /\ inode' \in [Logs -> 0..MaxResets]
        /\ inode'["users"] = inode["users"] + 1
        /\ \A k \in Logs \ {"users"} : inode'[k] = inode[k]
    <3>1. inode["users"] + 1 \in 0..MaxResets
      BY <1>0, <2>1 DEF FormInv, FormTypeOK, FilesAreCounted
    <3> QED
      BY <1>0, <2>1, <3>1 DEF FormInv, FormTypeOK
  <2>4. /\ accepted' \in [Logs -> SUBSET FormRecord] /\ accepted'["users"] = {}
        /\ \A k \in Logs \ {"users"} : accepted'[k] = accepted[k]
    BY <1>0, <2>1 DEF FormInv, FormTypeOK
  <2>5. FormTypeOK'
    BY <1>0, <2>1, <2>2, <2>3, <2>4 DEF FormInv, FormTypeOK
  <2>6. AcceptedIsWritten'
    BY <2>2, <2>4 DEF FormInv, AcceptedIsWritten
  <2>7. WritersHoldTheLock'
    <3>1. ASSUME NEW t \in Submitters, submit[t].at = "open"
          PROVE  submit[t].log \in Logs \ {"users"}
      BY <1>0, <2>1, <3>1 DEF FormInv, WritersHoldTheLock, SubmitType
    <3> QED
      BY <2>1, <2>3, <3>1 DEF FormInv, WritersHoldTheLock
  <2>8. RecordsAreReal'
    BY <2>1 DEF FormInv, RecordsAreReal, RecordOf
  <2>9. FilesAreCounted'
    BY <1>0, <2>1, <2>3 DEF FormInv, FormTypeOK, FilesAreCounted
  <2> QED
    BY <2>5, <2>6, <2>7, <2>8, <2>9 DEF FormInv
<1>6. CASE UNCHANGED formVars
  BY <1>6 DEF formVars, FormInv, FormTypeOK, AcceptedIsWritten,
              WritersHoldTheLock, RecordsAreReal, RecordOf, FilesAreCounted
<1> QED
  BY <1>0, <1>1, <1>2, <1>3, <1>4, <1>5, <1>6
  DEF FormNext, SubmitIntake, SyncUser

(* What a reader gets are the newest lines.                                *)
LEMMA LastLinesAreNewest ==
  ASSUME NEW l \in Logs, lines[l] \in Seq(FormRecord)
  PROVE  LastLines(l) = Newest(lines[l], Show)
<1> DEFINE n == Len(lines[l])
<1>0. Show \in Nat \ {0} /\ n \in Nat
  BY FormAssumption
<1>1. LastLines(l) = SubSeq(lines[l], Max({1, n - Show + 1}), n)
  BY DEF LastLines
<1>2. CASE n > Show
  <2>1. Max({1, n - Show + 1}) = n - Show + 1
    BY <1>0, <1>2 DEF Max
  <2> QED
    BY <1>1, <1>2, <2>1 DEF Newest
<1>3. CASE n <= Show
  <2>1. Max({1, n - Show + 1}) = 1
    BY <1>0, <1>3 DEF Max
  <2>2. SubSeq(lines[l], 1, n) = lines[l]
    OBVIOUS
  <2>3. LastLines(l) = lines[l]
    BY <1>1, <2>1, <2>2
  <2> QED
    BY <1>0, <1>3, <2>3 DEF Newest
<1> QED
  BY <1>0, <1>2, <1>3

(* A set of positions that is not empty has a greatest one.                *)
LEMMA MaxOfPositions ==
  ASSUME NEW n \in Nat, NEW S \in SUBSET (1..n), S # {}
  PROVE  Max(S) \in S
<1> DEFINE T == {n - i : i \in S}
<1>1. T \in SUBSET Nat /\ T # {}
  <2>1. \A i \in S : i \in 1..n /\ n - i \in Nat
    OBVIOUS
  <2>2. PICK i \in S : TRUE
    OBVIOUS
  <2>3. n - i \in T
    OBVIOUS
  <2> QED
    BY <2>1, <2>3
<1>2. PICK x \in T : \A y \in T : ~ (<<y, x>> \in OpToRel(<, Nat))
  BY <1>1, NatLessThanWellFounded, WFMin
<1>3. PICK m \in S : x = n - m
  OBVIOUS
<1>4. ASSUME NEW i \in S PROVE m >= i
  <2>1. n - i \in T /\ n - i \in Nat /\ x \in Nat
    BY <1>1
  <2>2. ~ (n - i < x)
    BY <1>2, <2>1 DEF OpToRel
  <2> QED
    BY <1>3, <2>1, <2>2
<1> QED
  BY <1>4 DEF Max

(* Whatever is appended, answered and reset at the same time: the inbox    *)
(* shows what was accepted, and the registry who was, unless as many newer *)
(* lines are there as a reader is shown; for any number of threads that    *)
(* append.                                                                 *)
THEOREM FormsAreKept == FormSpec => [](FormTypeOK /\ AcceptedIsShown)
<1>1. FormInit => FormInv
  <2> SUFFICES ASSUME FormInit PROVE FormInv
    OBVIOUS
  <2>1. << >> \in Seq(FormRecord) /\ Len(<< >>) = 0
    OBVIOUS
  <2>2. /\ FreshForm \in SubmitType /\ FreshForm.at = "none"
        /\ MaxRecords \in Nat /\ MaxResets \in Nat
    BY FormAssumption DEF FreshForm, SubmitType, Logs
  <2>3. FormTypeOK
    BY <2>1, <2>2 DEF FormInit, FormTypeOK, SubmitType
  <2> QED
    BY <2>2, <2>3 DEF FormInit, FormInv, AcceptedIsWritten, WritersHoldTheLock,
                      RecordsAreReal, FilesAreCounted
<1>2. FormInv => FormTypeOK /\ AcceptedIsShown
  <2> SUFFICES ASSUME FormInv PROVE AcceptedIsShown
    BY DEF FormInv
  <2>0. /\ "intake" \in Logs /\ "users" \in Logs /\ Show \in Nat \ {0}
        /\ \A l \in Logs : lines[l] \in Seq(FormRecord)
    BY FormAssumption DEF FormInv, FormTypeOK, Logs
  <2>1. ASSUME NEW l \in Logs
        PROVE  /\ LastLines(l) \in Seq(FormRecord)
               /\ Len(lines[l]) \in Nat /\ Len(LastLines(l)) \in Nat
               /\ Len(lines[l]) > Show => Len(LastLines(l)) = Show
               /\ Len(lines[l]) <= Show => LastLines(l) = lines[l]
    <3>1. LastLines(l) = Newest(lines[l], Show)
      BY <2>0, LastLinesAreNewest
    <3>2. /\ Newest(lines[l], Show) \in Seq(FormRecord)
          /\ Len(Newest(lines[l], Show)) = IF Len(lines[l]) > Show
                                           THEN Show ELSE Len(lines[l])
      BY <2>0, NewestOfSeq
    <3>3. Len(lines[l]) <= Show => Newest(lines[l], Show) = lines[l]
      BY <2>0 DEF Newest
    <3> QED
      BY <2>0, <3>1, <3>2, <3>3
  <2>2. ASSUME NEW r \in accepted["intake"]
        PROVE  Contains(ReadIntake, r) \/ Len(ReadIntake) = Show
    <3> DEFINE u == LastLines("intake")
    <3>1. u \in Seq(FormRecord) /\ Len(u) \in Nat
      BY <2>0, <2>1
    <3>2. /\ ReadIntake = [i \in 1..Len(u) |-> u[(Len(u) - i) + 1]]
          /\ Len(ReadIntake) = Len(u)
      BY <3>1 DEF ReadIntake, Reverse
    <3>3. CASE Len(lines["intake"]) > Show
      BY <2>0, <2>1, <3>2, <3>3
    <3>4. CASE Len(lines["intake"]) <= Show
      <4>1. u = lines["intake"]
        BY <2>0, <2>1, <3>4
      <4> HIDE DEF u
      <4>2. PICK i \in 1..Len(u) : u[i] = r
        BY <2>0, <4>1 DEF FormInv, AcceptedIsWritten
      <4> DEFINE j == Len(u) - i + 1
      <4>3. j \in 1..Len(u) /\ (Len(u) - j) + 1 = i
        BY <3>1, <4>2
      <4> HIDE DEF j
      <4>4. ReadIntake[j] = r
        BY <3>2, <4>2, <4>3
      <4> QED
        BY <3>2, <4>3, <4>4 DEF Contains
    <3> QED
      BY <2>0, <2>1, <3>3, <3>4
  <2>3. ASSUME NEW r \in accepted["users"]
        PROVE  \/ \E u \in Users : u.account = r.account
               \/ Len(LastLines("users")) = Show
    <3> DEFINE u == LastLines("users")
    <3>1. u \in Seq(FormRecord) /\ Len(u) \in Nat /\ DOMAIN u = 1..Len(u)
      BY <2>0, <2>1
    <3>2. CASE Len(lines["users"]) > Show
      BY <2>0, <2>1, <3>2
    <3>3. CASE Len(lines["users"]) <= Show
      <4>1. u = lines["users"]
        BY <2>0, <2>1, <3>3
      <4>2. PICK i \in 1..Len(u) : u[i] = r
        BY <2>0, <4>1 DEF FormInv, AcceptedIsWritten
      <4> DEFINE a == r.account
                 S == {j \in DOMAIN u : u[j].account = a}
      <4>3. S \in SUBSET (1..Len(u)) /\ i \in S
        BY <3>1, <4>2
      <4>4. Max(S) \in S
        BY <3>1, <4>3, MaxOfPositions
      <4>5. u[Max(S)] \in Users
        BY <3>1, <4>2, <4>3 DEF Users
      <4>6. u[Max(S)].account = a
        BY <4>4
      <4> QED
        BY <4>5, <4>6
    <3> QED
      BY <2>0, <2>1, <3>2, <3>3
  <2> QED
    BY <2>2, <2>3 DEF AcceptedIsShown
<1> QED
  BY <1>1, <1>2, FormInvStep, PTL DEF FormSpec

-----------------------------------------------------------------------------
(* The six side by side.                                                   *)

(* A step of Records is one of the part that was picked; to the others it  *)
(* is none.                                                                *)
LEMMA PartsDoTheirSteps ==
  ASSUME [PartsNext]_<<consoleVars, recordVars, part>>
  PROVE  /\ [Next]_consoleVars /\ [JournalNext]_journalVars
         /\ [HistoryNext]_historyVars /\ [FormNext]_formVars
         /\ [AiNext]_aiVars /\ [GraphNext]_graphVars
BY DEF PartsNext, recordVars

(* So Records behaves as each of its parts says.                           *)
LEMMA PartsBehave ==
  PartsSpec => /\ Spec /\ JournalSpec /\ HistorySpec /\ FormSpec
               /\ AiSpec /\ GraphSpec
<1>1. PartsInit => /\ Init /\ JournalInit /\ HistoryInit /\ FormInit
                   /\ AiInit /\ GraphInit
  BY DEF PartsInit
<1> QED
  BY <1>1, PartsDoTheirSteps, PTL
  DEF PartsSpec, Spec, JournalSpec, HistorySpec, FormSpec, AiSpec, GraphSpec

(* No query of the journal and no question to the AI provider uses what is *)
(* older than it may be, whatever the API, the router and the intake do    *)
(* meanwhile.                                                              *)
THEOREM NothingStaleAlways == PartsSpec => []NothingStaleIsUsed
<1>1. (JournalTypeOK /\ BehindByATick) /\
        (AiTypeOK /\ UsesCurrentChoice /\ ExchangesKept) => NothingStaleIsUsed
  BY DEF NothingStaleIsUsed
<1> QED
  BY <1>1, PartsBehave, JournalIsFresh, AiIsCurrentAndKept, PTL

(* What was answered as done is kept, by every part of Records, and every  *)
(* part stays well typed.                                                  *)
THEOREM RecordsAlwaysKept == PartsSpec => []RecordsKept
<1>1. /\ TypeOK /\ (JournalTypeOK /\ BehindByATick)
      /\ (HistoryTypeOK /\ AnsweredIsRemembered)
      /\ (FormTypeOK /\ AcceptedIsShown)
      /\ (AiTypeOK /\ UsesCurrentChoice /\ ExchangesKept)
      /\ (GraphTypeOK /\ LinksStay /\ ExpiredIsArchived)
      => RecordsKept
  BY DEF RecordsKept, PartsTypeOK
<1> QED
  BY <1>1, PartsBehave, ConsoleTyped, JournalIsFresh, AnsweredIsKept,
     FormsAreKept, AiIsCurrentAndKept, GraphIsKept, PTL

(* A walk over the memory graph is right beside everything else, too.      *)
THEOREM WalksAlwaysNearest == PartsSpec => []WalkFindsNearest
BY PartsBehave, GraphWalksNearest, PTL

=============================================================================
