----------------------------- MODULE DeviceSync -----------------------------
(***************************************************************************)
(* Synchronisation of memories between devices (shared/device_sync.py and  *)
(* the /api/sync routes).  A device pulls from each registered peer and    *)
(* then pushes to it.  The sync agent runs in a process of its own; `sync  *)
(* now` sent to /api/command runs on the event loop of the web server,     *)
(* which answers no peer meanwhile.  HiMemory models what a device does    *)
(* with its own memories; here an entry is added, hidden or deleted at     *)
(* once.                                                                   *)
(***************************************************************************)
EXTENDS Integers, FiniteSets, Sequences, SequencesExt

CONSTANTS
  Devices,
  Syncers,  \* <<device, "agent">> and <<device, "server">>: who syncs
  Home,     \* the device each memory is created on, oldest first
  Text,     \* memory -> what near-identical memories have in common
  Peer,     \* device -> the peers in its sync_peers.json
  Share,    \* JARVIS_SYNC_SHARE_LEVEL: "public", "shared" or "none"
  Limit,    \* list_memories returns no more than this many
  Nobody,
  MaxEvents \* bound: changes, lost requests and typed `sync now` together

VARIABLES
  store,  \* what each device has: "absent", "private" or "public"
  born,   \* how many memories were created so far
  before, \* last_push of a device to a peer: the memories born by then
  sync,   \* what the agent and the web server of each device sync
  public, \* memories that were public on some device at some time
  events

syncVars == <<store, born, before, sync, public, events>>

ASSUME SyncersAssumption ==
  /\ Syncers \subseteq Devices \X {"agent", "server"} /\ Home \in Seq(Devices)
  /\ Nobody \notin Devices /\ \A d \in Devices : Peer[d] \subseteq Devices
  /\ Limit \in Nat /\ MaxEvents \in Nat

Memories == DOMAIN Home   \* a memory is known by its place in time
Nothing == [at |-> "idle", peer |-> Nobody, batch |-> {}]
Values == {"absent", "private", "public"}

SyncTypeOK ==
  /\ store \in [Devices -> [Memories -> Values]]
  /\ born \in 0..Len(Home)
  /\ before \in [Devices -> [Devices -> 0..born]]
  /\ \A s \in Syncers :
       /\ sync[s].at \in {"idle", "pull", "merge", "collect",
                          "push", "save"}
       /\ (sync[s].at = "idle") <=> (sync[s].peer = Nobody)
       /\ sync[s].peer \in Peer[s[1]] \union {Nobody}
       /\ sync[s].batch \subseteq Memories \X {"private", "public"}
       /\ Cardinality(sync[s].batch) <= Limit
  /\ public \subseteq Memories
  /\ events \in 0..MaxEvents

SyncInit ==
  /\ store = [d \in Devices |-> [m \in Memories |-> "absent"]]
  /\ born = 0 /\ before = [d \in Devices |-> [p \in Devices |-> 0]]
  /\ sync = [s \in Syncers |-> Nothing]
  /\ public = {} /\ events = 0

-----------------------------------------------------------------------------
(* The owner of a device.                                                  *)

Counted == events < MaxEvents /\ events' = events + 1

Create(v) ==
  /\ born < Len(Home) /\ born' = born + 1
  /\ store' = [store EXCEPT ![Home[born']][born'] = v]
  /\ public' = IF v = "public" THEN public \union {born'} ELSE public
  /\ UNCHANGED <<before, sync, events>>

(* set_visibility, or delete_memory for "absent".                          *)
ChangeMemory(d, m, v) ==
  /\ store[d][m] \notin {"absent", v} /\ Counted
  /\ store' = [store EXCEPT ![d][m] = v]
  /\ public' = IF v = "public" THEN public \union {m} ELSE public
  /\ UNCHANGED <<born, before, sync>>

-----------------------------------------------------------------------------
(* What a device hands out and what it takes.                              *)

(* list_memories: the newest ones that the share level allows.             *)
Listed(d) ==
  LET allowed == {m \in Memories : store[d][m] \in
                    IF Share = "public" THEN {"public"} ELSE {"public", "private"}}
  IN IF Share = "none" THEN {}
     ELSE {m \in allowed :
             Cardinality({n \in allowed : n > m}) < Limit}

(* Mutant: the visibility is not looked at.                                *)
ShareableOfAll(d, since) ==
  {<<m, store[d][m]>> : m \in {m \in Memories : store[d][m] # "absent" /\ m > since}}

(* _get_shareable_memories                                                 *)
Shareable(d, since) ==
  {<<m, store[d][m]>> : m \in {m \in Listed(d) : m > since}}

(* upsert_memory with check_duplicate: skipped when a near-identical memory*)
(* with another id is there; one with the same id is overwritten, whichever*)
(* device changed it last.                                                 *)
Accepts(d, m, batch) ==
  \A n \in Memories \ {m} :
    Text[n] = Text[m] =>
      /\ store[d][n] = "absent"
      /\ \A v \in Values : <<n, v>> \in batch => n < m

MergeInto(d, batch) ==
  store' = [store EXCEPT ![d] = [m \in Memories |->
       IF \E v \in Values : <<m, v>> \in batch /\ Accepts(d, m, batch)
       THEN CHOOSE v \in Values : <<m, v>> \in batch ELSE @[m]]]

-----------------------------------------------------------------------------
(* sync_with_peer.                                                         *)

Move(s, at, batch) == sync' = [sync EXCEPT ![s].at = at, ![s].batch = batch]
Finish(s) == sync' = [sync EXCEPT ![s] = Nothing]

(* The event loop of a web server that runs `sync now` itself.             *)
Answers(p) == \A s \in Syncers : s = <<p, "server">> => sync[s].at = "idle"

BeginSync(s, p) ==
  /\ sync[s].at = "idle" /\ p \in Peer[s[1]]
  /\ sync' = [sync EXCEPT ![s] = [at |-> "pull", peer |-> p, batch |-> {}]]
  /\ IF s[2] = "server" THEN Counted ELSE events' = events
  /\ UNCHANGED <<store, born, before, public>>

(* Mutant: the peer hands out only what is newer than its own last sync.   *)
PullNewer(s) ==
  /\ sync[s].at = "pull" /\ Answers(sync[s].peer)
  /\ Move(s, "merge", Shareable(sync[s].peer, before[sync[s].peer][s[1]]))
  /\ UNCHANGED <<store, born, before, public, events>>

(* The manifest of the peer, then its memories.  The last sync the manifest*)
(* names goes into the query unescaped: its "+00:00" arrives as " 00:00",  *)
(* does not parse, and nothing is filtered out.                            *)
Pull(s) ==
  /\ sync[s].at = "pull" /\ Answers(sync[s].peer)
  /\ Move(s, "merge", Shareable(sync[s].peer, 0))
  /\ UNCHANGED <<store, born, before, public, events>>

Merge(s) ==
  /\ sync[s].at = "merge"
  /\ MergeInto(s[1], sync[s].batch) /\ Move(s, "collect", {})
  /\ UNCHANGED <<born, before, public, events>>

(* What was created since the last push; nothing to push is no request.    *)
Collect(s) ==
  /\ sync[s].at = "collect"
  /\ LET batch == Shareable(s[1], before[s[1]][sync[s].peer]) IN
     Move(s, IF batch = {} THEN "save" ELSE "push", batch)
  /\ UNCHANGED <<store, born, before, public, events>>

Push(s) ==
  /\ sync[s].at = "push" /\ Answers(sync[s].peer)
  /\ MergeInto(sync[s].peer, sync[s].batch) /\ Move(s, "save", {})
  /\ UNCHANGED <<born, before, public, events>>

(* The time of the save counts as the time of the push.                    *)
SaveSync(s) ==
  /\ sync[s].at = "save"
  /\ before' = [before EXCEPT ![s[1]][sync[s].peer] = born]
  /\ Finish(s)
  /\ UNCHANGED <<store, born, public, events>>

Asking == {"pull", "push"}

(* Mutant: no timeout for a peer that is busy.                             *)
WaitForEver(s) == FALSE

(* A peer that does not answer in time ends the sync.                      *)
PeerTimeOut(s) ==
  /\ sync[s].at \in Asking /\ ~Answers(sync[s].peer) /\ Finish(s)
  /\ UNCHANGED <<store, born, before, public, events>>

(* The network loses a request, or the answer to it.                       *)
Lose(s) ==
  /\ sync[s].at \in Asking /\ Counted
  /\ \/ UNCHANGED store
     \/ /\ sync[s].at = "push" /\ Answers(sync[s].peer)
        /\ MergeInto(sync[s].peer, sync[s].batch)
  /\ Finish(s)
  /\ UNCHANGED <<born, before, public>>

SyncStep(s) ==
  \/ Pull(s) \/ Merge(s) \/ Collect(s) \/ Push(s) \/ SaveSync(s)
  \/ PeerTimeOut(s)

SyncNext ==
  \/ \E v \in {"private", "public"} : Create(v)
  \/ \E d \in Devices, m \in Memories, v \in Values : ChangeMemory(d, m, v)
  \/ \E s \in Syncers :
       \/ \E p \in Devices : BeginSync(s, p)
       \/ SyncStep(s) \/ Lose(s)

(* The agent goes over its peers again and again; a sync runs to its end.  *)
SyncFairness ==
  /\ \A s \in Syncers : WF_syncVars(SyncStep(s))
  /\ \A s \in Syncers : \A p \in Devices :
       s[2] = "agent" => SF_syncVars(BeginSync(s, p))

SyncSpec == SyncInit /\ [][SyncNext]_syncVars /\ SyncFairness

-----------------------------------------------------------------------------
(* Properties.                                                             *)

(* A memory is on another device than the one it was created on only if it *)
(* was public on some device before, whatever is hidden or deleted while   *)
(* batches are under way.                                                  *)
NoPrivateMemoryLeaves ==
  \A m \in Memories, d, e \in Devices :
    (d # e /\ store[d][m] # "absent" /\ store[e][m] # "absent") => m \in public

(* What stays public on a device gets to every device that pulls from it,  *)
(* unless more than Limit newer ones are in front of it or the other has   *)
(* the same text already, and although pushes leave out what became public *)
(* late and commands block each other's servers.                           *)
PublicReachesPeers ==
  \A s \in {s \in Syncers : s[2] = "agent"} : \A d \in Peer[s[1]] :
    \A m \in Memories :
      store[d][m] = "public" ~>
        \/ m \notin Listed(d)
        \/ \E n \in Memories : Text[n] = Text[m] /\ store[s[1]][n] # "absent"

(* The web servers of two devices that sync with each other at once do not *)
(* wait for each other for ever.                                           *)
ServersComeBack == \A d \in Devices : ~Answers(d) ~> Answers(d)

=============================================================================
