------------------------ MODULE ServicesTypes_proofs ------------------------
(***************************************************************************)
(* Proofs of the type invariants of the services, which also say what is   *)
(* bounded: the batch of a sync (DeviceSync), the board and the queue of a *)
(* viewer (LiveClass), the bucket of a client and the pool of the website  *)
(* chat (PublicChat), the threads and their errors (Conversation).         *)
(***************************************************************************)
EXTENDS Services_proofs, SequenceTheorems

(* Device sync.  A page of list_memories holds no more than Limit entries: *)
(* all but the oldest one of them are newer than that one.                 *)
LEMMA NewestFit ==
  ASSUME NEW S \in SUBSET Nat, IsFiniteSet(S),
         NEW T, T = {m \in S : Cardinality({n \in S : n > m}) < Limit}
  PROVE  IsFiniteSet(T) /\ Cardinality(T) \in 0..Limit
<1>1. IsFiniteSet(T) /\ T \in SUBSET Nat
  BY FS_Subset
<1>2. CASE T = {}
  <2>1. Cardinality(T) = 0 /\ Limit \in Nat
    BY <1>1, <1>2, FS_EmptySet, SyncersAssumption
  <2> QED
    BY <1>1, <1>2, <2>1
<1>3. CASE T # {}
  <2> DEFINE first == Min(T)
             newer == {n \in S : n > first}
  <2>1. first \in T /\ \A m \in T : first <= m
    BY <1>1, <1>3, MinIsIn
  <2> HIDE DEF first
  <2>2. T \ {first} \in SUBSET newer
    BY <2>1, <1>1
  <2>3. newer \in SUBSET S /\ Cardinality(newer) < Limit
    BY <2>1
  <2>4. IsFiniteSet(newer) /\ Cardinality(newer) \in Nat
    BY <2>3, FS_Subset, FS_CardinalityType
  <2> HIDE DEF newer
  <2>5. Cardinality(T \ {first}) <= Cardinality(newer)
    BY <2>2, <2>4, FS_Subset
  <2>6. Cardinality(T \ {first}) = Cardinality(T) - 1
    BY <1>1, <2>1, FS_RemoveElement
  <2>7. Cardinality(T) \in Nat
    BY <1>1, FS_CardinalityType
  <2> QED
    BY <1>1, <2>3, <2>4, <2>5, <2>6, <2>7, SyncersAssumption
<1> QED
  BY <1>2, <1>3

(* What a device hands out is typed and fits into a page.                  *)
LEMMA ShareableFits ==
  ASSUME SyncShape, NEW d \in Devices, NEW since
  PROVE  /\ Shareable(d, since) \subseteq Memories \X {"private", "public"}
         /\ Cardinality(Shareable(d, since)) <= Limit
<1> DEFINE levels == IF Share = "public" THEN {"public"} ELSE {"public", "private"}
           allowed == {m \in Memories : store[d][m] \in levels}
           page == {m \in allowed : Cardinality({n \in allowed : n > m}) < Limit}
           handed == {m \in Listed(d) : m > since}
           pair == [m \in handed |-> <<m, store[d][m]>>]
<1>1. Listed(d) = IF Share = "none" THEN {} ELSE page
  BY DEF Listed
<1>2. /\ Memories = 1..Len(Home) /\ Len(Home) \in Nat
      /\ IsFiniteSet(Memories)
  BY SyncersAssumption, FS_Interval DEF Memories
<1>3. allowed \in SUBSET Memories /\ allowed \in SUBSET Nat
  BY <1>2
<1>4. IsFiniteSet(allowed)
  BY <1>2, <1>3, FS_Subset
<1>5. IsFiniteSet(page) /\ Cardinality(page) \in 0..Limit
  <2> HIDE DEF allowed
  <2> QED
    BY <1>3, <1>4, NewestFit
<1>6. page \in SUBSET Memories /\ \A m \in page : store[d][m] \in levels
  OBVIOUS
<1> HIDE DEF page, allowed
<1>7. /\ IsFiniteSet(Listed(d)) /\ Cardinality(Listed(d)) \in 0..Limit
      /\ Listed(d) \in SUBSET Memories
      /\ \A m \in Listed(d) : store[d][m] \in {"private", "public"}
  BY <1>1, <1>5, <1>6, FS_EmptySet, SyncersAssumption
<1>8. /\ IsFiniteSet(handed) /\ Cardinality(handed) <= Cardinality(Listed(d))
      /\ Cardinality(handed) \in Nat
  BY <1>7, FS_Subset, FS_CardinalityType
<1>9. Shareable(d, since) = {<<m, store[d][m]>> : m \in handed}
  BY DEF Shareable
<1>10. Shareable(d, since) \subseteq Memories \X {"private", "public"}
  BY <1>7, <1>9
<1>11. pair \in Surjection(handed, Shareable(d, since))
  BY <1>9 DEF Surjection
<1> HIDE DEF handed, pair
<1>12. /\ IsFiniteSet(Shareable(d, since))
       /\ Cardinality(Shareable(d, since)) <= Cardinality(handed)
  BY <1>8, <1>11, FS_Surjection
<1>13. Cardinality(Shareable(d, since)) \in Nat
  BY <1>12, FS_CardinalityType
<1> QED
  BY <1>7, <1>8, <1>10, <1>12, <1>13, SyncersAssumption

(* The state of each sync, as SyncTypeOK has it.                           *)
SyncersOK ==
  \A s \in Syncers :
    /\ (sync[s].at = "idle") <=> (sync[s].peer = Nobody)
    /\ sync[s].peer \in Peer[s[1]] \union {Nobody}
    /\ sync[s].batch \subseteq Memories \X {"private", "public"}
    /\ Cardinality(sync[s].batch) <= Limit

SyncTypeInv ==
  /\ SyncShape /\ SyncersOK
  /\ before \in [Devices -> [Devices -> 0..born]]
  /\ public \subseteq Memories /\ events \in 0..MaxEvents

(* No batch is over the limit when it is empty.                            *)
LEMMA EmptyFits == {} \in Batches /\ Cardinality({}) <= Limit
<1>1. Cardinality({}) = 0
  BY FS_EmptySet
<1> QED
  BY <1>1, SyncersAssumption DEF Batches

(* A sync that goes on keeps its peer.                                     *)
LEMMA MoveTyped ==
  ASSUME SyncTyped, SyncersOK, NEW s \in Syncers, sync[s].at # "idle",
         NEW to \in SyncPlaces \ {"idle"}, NEW batch,
         batch \subseteq Memories \X {"private", "public"},
         Cardinality(batch) <= Limit, Move(s, to, batch)
  PROVE  SyncTyped' /\ SyncersOK'
<1>0. batch \in Batches
  BY DEF Batches, Values
<1>1. sync' = [sync EXCEPT ![s] = [[@ EXCEPT !.at = to] EXCEPT !.batch = batch]]
  BY DEF Move, SyncTyped
<1>2. sync'[s] = [at |-> to, peer |-> sync[s].peer, batch |-> batch]
  BY <1>0, <1>1 DEF SyncTyped
<1>3. \A r \in Syncers \ {s} : sync'[r] = sync[r]
  BY <1>1 DEF SyncTyped
<1>4. SyncTyped'
  BY <1>0, MoveTakesBatch
<1> QED
  BY <1>2, <1>3, <1>4 DEF SyncersOK

(* A sync that ends has no peer and no batch.                              *)
LEMMA FinishTyped ==
  ASSUME SyncTyped, SyncersOK, NEW s \in Syncers, Finish(s)
  PROVE  SyncTyped' /\ SyncersOK'
<1>1. SyncTyped'
  BY FinishDropsBatch
<1>2. sync'[s] = Nothing /\ \A r \in Syncers \ {s} : sync'[r] = sync[r]
  BY DEF Finish, SyncTyped
<1>3. /\ sync'[s].at = "idle" /\ sync'[s].peer = Nobody
      /\ sync'[s].batch = {} /\ Cardinality(sync'[s].batch) <= Limit
  BY <1>2, EmptyFits DEF Nothing
<1>4. \A r \in Syncers \ {s} :
        /\ (sync'[r].at = "idle") <=> (sync'[r].peer = Nobody)
        /\ sync'[r].peer \in Peer[r[1]] \union {Nobody}
        /\ sync'[r].batch \subseteq Memories \X {"private", "public"}
        /\ Cardinality(sync'[r].batch) <= Limit
  BY <1>2 DEF SyncersOK
<1> QED
  BY <1>1, <1>3, <1>4 DEF SyncersOK

(* The state of the synchronisation is typed, and no request or answer     *)
(* holds more memories than a page of list_memories, for any devices.      *)
LEMMA SyncTypes == SyncInit /\ [][SyncNext]_syncVars => []SyncTypeOK
<1>1. SyncInit => SyncTypeInv
  <2> SUFFICES ASSUME SyncInit PROVE SyncTypeInv
    OBVIOUS
  <2>1. SyncShape
    BY SyncersAssumption DEF SyncInit, SyncShape, SyncTyped, Values,
       SyncPlaces, Batches, Nothing
  <2>2. SyncersOK
    BY EmptyFits DEF SyncInit, SyncersOK, Nothing
  <2> QED
    BY <2>1, <2>2, SyncersAssumption DEF SyncInit, SyncTypeInv
<1>2. SyncTypeInv /\ [SyncNext]_syncVars => SyncTypeInv'
  <2> SUFFICES ASSUME SyncTypeInv, [SyncNext]_syncVars PROVE SyncTypeInv'
    OBVIOUS
  <2>0. /\ SyncShape /\ SyncTyped /\ SyncersOK
        /\ before \in [Devices -> [Devices -> 0..born]]
        /\ public \subseteq Memories /\ events \in 0..MaxEvents
        /\ born \in 0..Len(Home) /\ Len(Home) \in Nat
    BY SyncersAssumption DEF SyncTypeInv, SyncShape
  <2>c. Counted => events' \in 0..MaxEvents
    BY <2>0, SyncersAssumption DEF Counted
  <2>1. ASSUME NEW v \in {"private", "public"}, Create(v) PROVE SyncTypeInv'
    <3>1. born' \in 0..Len(Home) /\ born' \in Memories /\ born' = born + 1
          /\ Home[born'] \in Devices
      BY SMTT(30), <2>0, <2>1, SyncersAssumption DEF Create, Memories
    <3>2. before' \in [Devices -> [Devices -> 0..born']]
      BY <2>0, <2>1, <3>1 DEF Create
    <3>3. store' \in [Devices -> [Memories -> Values]]
      BY <2>0, <2>1, <3>1 DEF Create, SyncShape, Values
    <3>4. public' \subseteq Memories /\ UNCHANGED <<sync, events>>
      BY <2>0, <2>1, <3>1 DEF Create
    <3> QED
      BY <2>0, <3>1, <3>2, <3>3, <3>4
      DEF SyncTypeInv, SyncShape, SyncTyped, SyncersOK
  <2>2. ASSUME NEW d \in Devices, NEW m \in Memories, NEW v \in Values,
               ChangeMemory(d, m, v)
        PROVE  SyncTypeInv'
    <3>1. store' \in [Devices -> [Memories -> Values]]
      BY <2>0, <2>2 DEF ChangeMemory, SyncShape
    <3>2. public' \subseteq Memories /\ events' \in 0..MaxEvents
          /\ UNCHANGED <<sync, born, before>>
      BY <2>0, <2>2, <2>c DEF ChangeMemory
    <3> QED
      BY <2>0, <3>1, <3>2 DEF SyncTypeInv, SyncShape, SyncTyped, SyncersOK
  <2>3. ASSUME NEW s \in Syncers, NEW p \in Devices, BeginSync(s, p)
        PROVE  SyncTypeInv'
    <3>1. /\ sync' = [sync EXCEPT ![s] = [at |-> "pull", peer |-> p, batch |-> {}]]
          /\ p \in Peer[s[1]] /\ p # Nobody
          /\ UNCHANGED <<store, born, before, public>>
      BY <2>3, SyncersAssumption DEF BeginSync
    <3>2. events' \in 0..MaxEvents
      BY <2>0, <2>3, <2>c DEF BeginSync
    <3>3. SyncTyped'
      BY <2>0, <3>1, EmptyFits DEF SyncTyped, SyncPlaces
    <3>4. SyncersOK'
      BY <2>0, <3>1, EmptyFits DEF SyncersOK, SyncTyped
    <3> QED
      BY <2>0, <3>1, <3>2, <3>3, <3>4 DEF SyncTypeInv, SyncShape
  <2>4. ASSUME NEW s \in Syncers, NEW d \in Devices, NEW since,
               NEW to \in SyncPlaces \ {"idle"}, sync[s].at # "idle",
               Move(s, to, Shareable(d, since)),
               UNCHANGED <<store, born, before, public, events>>
        PROVE  SyncTypeInv'
    <3>1. SyncTyped' /\ SyncersOK'
      BY <2>0, <2>4, ShareableFits, MoveTyped
    <3> QED
      BY <2>0, <2>4, <3>1 DEF SyncTypeInv, SyncShape
  <2>5. ASSUME NEW s \in Syncers, Pull(s) \/ Collect(s) PROVE SyncTypeInv'
    <3>1. sync[s].at # "idle" /\ sync[s].peer \in Devices /\ s[1] \in Devices
      BY <2>0, <2>5, SyncersAssumption DEF Pull, Collect, SyncTyped
    <3>2. UNCHANGED <<store, born, before, public, events>>
      BY <2>5 DEF Pull, Collect
    <3>3. \/ Move(s, "merge", Shareable(sync[s].peer, 0))
          \/ \E to \in {"save", "push"} :
               Move(s, to, Shareable(s[1], before[s[1]][sync[s].peer]))
      BY <2>5 DEF Pull, Collect
    <3> QED
      BY <2>4, <3>1, <3>2, <3>3 DEF SyncPlaces
  <2>6. ASSUME NEW s \in Syncers, Merge(s) \/ Push(s) PROVE SyncTypeInv'
    <3>1. /\ sync[s].at # "idle" /\ UNCHANGED <<born, before, public, events>>
          /\ \E d \in Devices : MergeInto(d, sync[s].batch)
          /\ \E to \in SyncPlaces \ {"idle"} : Move(s, to, {})
      BY <2>0, <2>6, SyncersAssumption DEF Merge, Push, SyncTyped, SyncPlaces
    <3>2. store' \in [Devices -> [Memories -> Values]]
      BY <2>0, <3>1, MergeTakesTheBatch
    <3>3. SyncTyped' /\ SyncersOK'
      BY <2>0, <3>1, MoveTyped, EmptyFits
    <3> QED
      BY <2>0, <3>1, <3>2, <3>3 DEF SyncTypeInv, SyncShape
  <2>7. ASSUME NEW s \in Syncers, SaveSync(s) PROVE SyncTypeInv'
    <3>1. Finish(s) /\ UNCHANGED <<store, born, public, events>>
          /\ before' = [before EXCEPT ![s[1]][sync[s].peer] = born]
      BY <2>7 DEF SaveSync
    <3>a. s[1] \in Devices /\ sync[s].peer \in Devices /\ born \in 0..born
      BY <2>0, <2>7, SyncersAssumption DEF SaveSync, SyncTyped
    <3>2. before' \in [Devices -> [Devices -> 0..born]]
      BY <2>0, <3>1, <3>a
    <3>3. SyncTyped' /\ SyncersOK'
      BY <2>0, <3>1, FinishTyped
    <3> QED
      BY <2>0, <3>1, <3>2, <3>3 DEF SyncTypeInv, SyncShape
  <2>8. ASSUME NEW s \in Syncers, PeerTimeOut(s) \/ Lose(s) PROVE SyncTypeInv'
    <3>1. Finish(s) /\ UNCHANGED <<born, before, public>>
          /\ events' \in 0..MaxEvents
      BY <2>0, <2>8, <2>c DEF PeerTimeOut, Lose
    <3>2. SyncTyped' /\ SyncersOK'
      BY <2>0, <3>1, FinishTyped
    <3>3. UNCHANGED store \/ \E d \in Devices : MergeInto(d, sync[s].batch)
      BY <2>0, <2>8 DEF PeerTimeOut, Lose, SyncTyped
    <3>4. store' \in [Devices -> [Memories -> Values]]
      BY <2>0, <3>3, MergeTakesTheBatch DEF SyncShape
    <3> QED
      BY <2>0, <3>1, <3>2, <3>4 DEF SyncTypeInv, SyncShape
  <2>9. CASE UNCHANGED syncVars
    BY <2>9 DEF syncVars, SyncTypeInv, SyncShape, SyncTyped, SyncersOK
  <2> QED
    BY <2>1, <2>2, <2>3, <2>5, <2>6, <2>7, <2>8, <2>9 DEF SyncNext, SyncStep
<1>3. SyncTypeInv => SyncTypeOK
  BY DEF SyncTypeInv, SyncShape, SyncTyped, SyncersOK, SyncTypeOK, SyncPlaces
<1> QED
  BY <1>1, <1>2, <1>3, PTL

-----------------------------------------------------------------------------
(* The live class board.                                                   *)
BlockLists == BoundedSeq(0..MaxEdits, Cap)

Handlers == [at : {"closed", "greet", "watch"}, queue : Seq(Boards),
             subscribed : BOOLEAN]

(* A handler has sent its greeting when it is at "watch", so that there is *)
(* one message less to wait for.                                           *)
HandlerOK(w) ==
  /\ w \in Handlers
  /\ Len(w.queue) <= QueueSize + (IF w.at = "greet" THEN 1 ELSE 0)
  /\ w.at = "closed" => w = Closed

(* No board has seen more edits than were made.                            *)
BoardsOK ==
  /\ {memory, boardFile, sent} \subseteq Boards
  /\ memory.revision <= edits + 1 /\ boardFile.revision <= edits + 1

WatchersOK == watch \in [Viewers -> Handlers] /\ \A v \in Viewers : HandlerOK(watch[v])

ClassTypeInv ==
  /\ BoardsOK /\ WatchersOK /\ shown \in [Viewers -> Boards]
  /\ edits \in 0..MaxEdits /\ servers \in 0..MaxServers

(* The lists of blocks are the sequences of up to Cap numbers of edits.    *)
LEMMA BlockListsAre ==
  \A s : s \in BlockLists <=> s \in Seq(0..MaxEdits) /\ Len(s) <= Cap
<1>1. BlockLists = UNION {[1..m -> 0..MaxEdits] : m \in 0..Cap}
  BY DEF BlockLists, BoundedSeq, SeqOf
<1>2. ASSUME NEW s \in BlockLists PROVE s \in Seq(0..MaxEdits) /\ Len(s) <= Cap
  <2>1. PICK m \in 0..Cap : s \in [1..m -> 0..MaxEdits]
    BY <1>1
  <2> QED
    BY <2>1, ClassAssumption
<1>3. ASSUME NEW s \in Seq(0..MaxEdits), Len(s) <= Cap PROVE s \in BlockLists
  <2>1. Len(s) \in 0..Cap /\ s \in [1..Len(s) -> 0..MaxEdits]
    BY <1>3, ClassAssumption
  <2> QED
    BY <1>1, <2>1
<1> QED
  BY <1>2, <1>3

(* The fields of a board.                                                  *)
LEMMA BoardFields ==
  /\ Boards = [revision : 1..(MaxEdits + 1), blocks : BlockLists,
               focus : NoFocus..MaxEdits, updated : 0..MaxEdits]
  /\ << >> \in BlockLists /\ <<Welcome>> \in BlockLists
  /\ Welcome \in NoFocus..MaxEdits /\ NoFocus \in NoFocus..MaxEdits
  /\ \A n \in 0..MaxEdits : Default(n) \in Boards
<1>1. << >> \in BlockLists /\ <<Welcome>> \in BlockLists
  <2>1. /\ << >> \in Seq(0..MaxEdits) /\ Len(<< >>) = 0
        /\ <<0>> \in Seq(0..MaxEdits) /\ Len(<<0>>) = 1
    BY ClassAssumption
  <2>2. 0 <= Cap /\ 1 <= Cap
    BY ClassAssumption
  <2> QED
    BY <2>1, <2>2, BlockListsAre DEF Welcome
<1>2. Welcome \in NoFocus..MaxEdits /\ NoFocus \in NoFocus..MaxEdits
  BY ClassAssumption DEF Welcome, NoFocus
<1>3. Boards = [revision : 1..(MaxEdits + 1), blocks : BlockLists,
                focus : NoFocus..MaxEdits, updated : 0..MaxEdits]
  BY DEF Boards, BlockLists
<1> QED
  BY <1>1, <1>2, <1>3, ClassAssumption DEF Default

(* A broadcast fills queues up to their size, and no further.              *)
LEMMA BroadcastTyped ==
  ASSUME WatchersOK, NEW board \in Boards, Broadcast(board)
  PROVE  WatchersOK'
<1>1. ASSUME NEW v \in Viewers
      PROVE  watch'[v] \in Handlers /\ HandlerOK(watch'[v])
  <2>1. watch[v] \in Handlers /\ HandlerOK(watch[v])
    BY DEF WatchersOK
  <2>2. CASE ~watch[v].subscribed
    BY <2>1, <2>2 DEF Broadcast
  <2>3. CASE watch[v].subscribed /\ Room(watch[v])
    <3> DEFINE longer == Append(watch[v].queue, board)
    <3>1. watch'[v] = [watch[v] EXCEPT !.queue = longer]
      BY <2>3 DEF Broadcast
    <3>2. longer \in Seq(Boards) /\ Len(longer) = Len(watch[v].queue) + 1
      BY <2>1 DEF Handlers
    <3> HIDE DEF longer
    <3>3. /\ watch'[v] \in Handlers /\ watch'[v].queue = longer
          /\ watch'[v].at = watch[v].at
      BY <2>1, <3>1, <3>2 DEF Handlers
    <3>4. watch[v].at # "closed"
      BY <2>1, <2>3 DEF HandlerOK, Closed
    <3>5. Len(watch[v].queue) < QueueSize + (IF watch[v].at = "greet" THEN 1 ELSE 0)
          /\ Len(watch[v].queue) \in Nat
      BY <2>1, <2>3 DEF Room, Handlers
    <3>6. Len(longer) <= QueueSize + (IF watch[v].at = "greet" THEN 1 ELSE 0)
      BY <3>2, <3>5, ClassAssumption
    <3> QED
      BY <3>3, <3>4, <3>6 DEF HandlerOK
  <2>4. CASE watch[v].subscribed /\ ~Room(watch[v])
    <3>1. watch'[v] = [watch[v] EXCEPT !.subscribed = FALSE]
      BY <2>4 DEF Broadcast
    <3>2. /\ watch'[v] \in Handlers /\ watch'[v].queue = watch[v].queue
          /\ watch'[v].at = watch[v].at
      BY <2>1, <3>1 DEF Handlers
    <3>3. watch[v].at # "closed"
      BY <2>1, <2>4 DEF HandlerOK, Closed
    <3> QED
      BY <2>1, <3>2, <3>3 DEF HandlerOK
  <2> QED
    BY <2>2, <2>3, <2>4
<1>2. DOMAIN watch' = Viewers /\ watch' = [v \in Viewers |-> watch'[v]]
  BY DEF Broadcast
<1> QED
  BY <1>1, <1>2 DEF WatchersOK

(* A request that publishes a board.                                       *)
LEMMA PublishTyped ==
  ASSUME ClassTypeInv, NEW board \in Boards, Counting, Publish(board),
         board.revision <= edits' + 1,
         memory' \in Boards, memory'.revision <= edits' + 1
  PROVE  ClassTypeInv'
<1>1. /\ edits' = edits + 1 /\ edits' \in 0..MaxEdits
      /\ boardFile' \in {board, boardFile} /\ sent' = board
      /\ UNCHANGED <<shown, servers>>
  BY ClassAssumption DEF Counting, Publish, SaveBoard, ClassTypeInv
<1>2. WatchersOK'
  BY BroadcastTyped DEF Publish, ClassTypeInv
<1>3. boardFile' \in Boards /\ boardFile'.revision <= edits' + 1
  <2>1. boardFile.revision \in Int /\ boardFile.revision <= edits + 1
        /\ edits \in Nat /\ boardFile \in Boards
    BY BoardFields DEF ClassTypeInv, BoardsOK
  <2> QED
    BY <1>1, <2>1
<1> QED
  BY <1>1, <1>2, <1>3 DEF ClassTypeInv, BoardsOK

(* A request that changes the board in memory.                             *)
LEMMA ChangeTyped ==
  ASSUME ClassTypeInv, NEW board \in Boards, ChangeBoard(board),
         board.revision = memory.revision
  PROVE  ClassTypeInv'
<1> DEFINE counted == [board EXCEPT !.revision = @ + 1]
<1>1. /\ Counting /\ Publish(memory')
      /\ memory' = [counted EXCEPT !.updated = edits']
  BY BoardFields DEF ChangeBoard
<1>2. /\ edits' \in 0..MaxEdits /\ board.revision + 1 \in 1..(MaxEdits + 1)
      /\ board.revision + 1 <= edits' + 1
  <2>1. /\ edits \in 0..MaxEdits /\ edits < MaxEdits /\ edits' = edits + 1
        /\ board.revision \in 1..(MaxEdits + 1) /\ board.revision <= edits + 1
    BY <1>1, BoardFields DEF ClassTypeInv, BoardsOK, Counting
  <2> QED
    BY <2>1, ClassAssumption
<1>3. counted \in Boards /\ counted.revision = board.revision + 1
  BY <1>2, BoardFields
<1> HIDE DEF counted
<1>4. memory' \in Boards /\ memory'.revision = counted.revision
  BY <1>1, <1>2, <1>3, BoardFields
<1> QED
  BY <1>1, <1>2, <1>3, <1>4, PublishTyped

(* A board with other blocks and another focus.                            *)
LEMMA OtherBlocks ==
  ASSUME NEW board \in Boards, NEW blocks \in BlockLists,
         NEW focus \in NoFocus..MaxEdits
  PROVE  /\ [board EXCEPT !.blocks = blocks, !.focus = focus] \in Boards
         /\ [board EXCEPT !.blocks = blocks, !.focus = focus].revision
              = board.revision
<1>1. /\ [board EXCEPT !.blocks = blocks] \in Boards
      /\ [board EXCEPT !.blocks = blocks].revision = board.revision
  BY BoardFields
<1>2. \A any \in Boards :
        /\ [any EXCEPT !.focus = focus] \in Boards
        /\ [any EXCEPT !.focus = focus].revision = any.revision
  BY BoardFields
<1>3. [board EXCEPT !.blocks = blocks, !.focus = focus]
        = [[board EXCEPT !.blocks = blocks] EXCEPT !.focus = focus]
  BY BoardFields
<1> QED
  BY <1>1, <1>2, <1>3

(* The oldest block gives way when there are more than Cap.                *)
LEMMA WithBlockTyped ==
  ASSUME NEW board \in Boards, NEW b \in 0..MaxEdits
  PROVE  /\ WithBlock(board, b) \in Boards
         /\ WithBlock(board, b).revision = board.revision
<1> DEFINE all == Append(board.blocks, b)
           left == IF Len(all) > Cap THEN Tail(all) ELSE all
<1>1. board.blocks \in Seq(0..MaxEdits) /\ Len(board.blocks) <= Cap
  BY BoardFields, BlockListsAre
<1>2. all \in Seq(0..MaxEdits) /\ Len(all) = Len(board.blocks) + 1
      /\ Len(board.blocks) \in Nat
  BY <1>1
<1>3. all # << >>
  BY <1>2
<1> HIDE DEF all
<1>4. left \in BlockLists
  <2>1. Tail(all) \in Seq(0..MaxEdits) /\ Len(Tail(all)) = Len(all) - 1
    BY <1>2, <1>3
  <2>2. CASE Len(all) > Cap
    <3>1. Len(Tail(all)) <= Cap /\ left = Tail(all)
      BY <1>1, <1>2, <2>1, <2>2, ClassAssumption
    <3> QED
      BY <2>1, <3>1, BlockListsAre
  <2>3. CASE ~ (Len(all) > Cap)
    <3>1. Len(all) <= Cap /\ left = all
      BY <1>2, <2>3, ClassAssumption
    <3> QED
      BY <1>2, <3>1, BlockListsAre
  <2> QED
    BY <2>2, <2>3
<1>5. b \in NoFocus..MaxEdits
  BY ClassAssumption DEF NoFocus
<1>6. WithBlock(board, b) = [board EXCEPT !.blocks = left, !.focus = b]
  BY DEF WithBlock, all
<1> HIDE DEF left
<1>7. /\ [board EXCEPT !.blocks = left, !.focus = b] \in Boards
      /\ [board EXCEPT !.blocks = left, !.focus = b].revision = board.revision
  BY <1>4, <1>5, OtherBlocks
<1> QED
  BY <1>6, <1>7

(* What undo leaves is shorter, and its last block is one of its own.      *)
LEMMA UndoTyped ==
  ASSUME NEW board \in Boards, NEW left,
         left = IF board.blocks = << >> THEN << >> ELSE Front(board.blocks)
  PROVE  /\ left \in BlockLists
         /\ (IF left = << >> THEN NoFocus ELSE Last(left)) \in NoFocus..MaxEdits
<1>1. board.blocks \in Seq(0..MaxEdits) /\ Len(board.blocks) <= Cap
  BY BoardFields, BlockListsAre
<1>2. left \in Seq(0..MaxEdits) /\ Len(left) <= Cap
  <2>1. CASE board.blocks = << >>
    BY <1>1, <2>1
  <2>2. CASE board.blocks # << >>
    <3> DEFINE n == Len(board.blocks) - 1
    <3>1. n \in Nat /\ \A i \in 1..n : board.blocks[i] \in 0..MaxEdits
      <4>1. Len(board.blocks) \in Nat \ {0}
        BY <1>1, <2>2, EmptySeq
      <4>2. \A i \in 1..Len(board.blocks) : board.blocks[i] \in 0..MaxEdits
        BY <1>1, ElementOfSeq
      <4> QED
        BY <4>1, <4>2
    <3>2. /\ SubSeq(board.blocks, 1, n) \in Seq(0..MaxEdits)
          /\ Len(SubSeq(board.blocks, 1, n)) = n
      <4> HIDE DEF n
      <4> QED
        BY <3>1, SubSeqProperties
    <3> QED
      BY <1>1, <2>2, <3>1, <3>2, ClassAssumption DEF Front
  <2> QED
    BY <2>1, <2>2
<1>3. left # << >> => Last(left) \in 0..MaxEdits
  <2>1. left # << >> => Len(left) \in 1..Len(left)
    BY <1>2
  <2> QED
    BY <1>2, <2>1, ElementOfSeq DEF Last
<1> QED
  BY <1>2, <1>3, BlockListsAre, ClassAssumption DEF NoFocus

(* The board stays a board of at most Cap blocks, on disk too and in every *)
(* browser, and a viewer has at most QueueSize messages behind the first.  *)
LEMMA ClassTypes == ClassInit /\ [][ClassNext]_classVars => []ClassTypeOK
<1>1. ClassInit => ClassTypeInv
  <2> SUFFICES ASSUME ClassInit PROVE ClassTypeInv
    OBVIOUS
  <2>1. Default(0) \in Boards /\ Default(0).revision = 1
    BY BoardFields, ClassAssumption DEF Default
  <2>2. BoardsOK /\ shown \in [Viewers -> Boards]
    BY <2>1 DEF ClassInit, BoardsOK
  <2>3. Closed \in Handlers /\ HandlerOK(Closed)
    BY ClassAssumption DEF Handlers, HandlerOK, Closed
  <2>4. WatchersOK
    BY <2>3 DEF ClassInit, WatchersOK
  <2> QED
    BY <2>2, <2>4, ClassAssumption DEF ClassInit, ClassTypeInv
<1>2. ClassTypeInv /\ [ClassNext]_classVars => ClassTypeInv'
  <2> SUFFICES ASSUME ClassTypeInv, [ClassNext]_classVars PROVE ClassTypeInv'
    OBVIOUS
  <2>0. /\ memory \in Boards /\ boardFile \in Boards /\ sent \in Boards
        /\ memory.revision \in Int /\ boardFile.revision \in Int
        /\ memory.revision <= edits + 1 /\ boardFile.revision <= edits + 1
        /\ edits \in 0..MaxEdits
    BY BoardFields DEF ClassTypeInv, BoardsOK
  <2>1. CASE AddBlock
    <3>1. edits + 1 \in 0..MaxEdits
      BY <2>0, <2>1, ClassAssumption DEF AddBlock, ChangeBoard, Counting
    <3> QED
      BY <2>0, <2>1, <3>1, WithBlockTyped, ChangeTyped DEF AddBlock
  <2>2. CASE Undo
    <3> DEFINE left == IF memory.blocks = << >> THEN << >> ELSE Front(memory.blocks)
               focus == IF left = << >> THEN NoFocus ELSE Last(left)
               board == [memory EXCEPT !.blocks = left, !.focus = focus]
    <3>1. left \in BlockLists /\ focus \in NoFocus..MaxEdits
      BY <2>0, UndoTyped
    <3>2. ChangeBoard(board)
      BY <2>2 DEF Undo
    <3> HIDE DEF left, focus
    <3>3. board \in Boards /\ board.revision = memory.revision
      BY <2>0, <3>1, OtherBlocks
    <3> HIDE DEF board
    <3> QED
      BY <3>2, <3>3, ChangeTyped
  <2>3. CASE ClearBoard
    <3> DEFINE board == [memory EXCEPT !.blocks = << >>, !.focus = NoFocus]
    <3>1. board \in Boards /\ board.revision = memory.revision
      BY <2>0, BoardFields, OtherBlocks
    <3>2. ChangeBoard(board)
      BY <2>3 DEF ClearBoard
    <3> HIDE DEF board
    <3> QED
      BY <3>1, <3>2, ChangeTyped
  <2>4. CASE EditField
    BY <2>0, <2>4, ChangeTyped DEF EditField
  <2>5. CASE Reset
    <3>1. edits' \in 0..MaxEdits /\ edits' = edits + 1
      BY <2>0, <2>5, ClassAssumption DEF Reset, Counting
    <3>2. Default(edits') \in Boards /\ Default(edits').revision = 1
      BY <3>1, BoardFields DEF Default
    <3>3. memory' \in Boards /\ memory'.revision <= edits' + 1
          /\ 1 <= edits' + 1
      BY <2>0, <2>5, <3>1 DEF Reset
    <3> QED
      BY <2>5, <3>2, <3>3, PublishTyped DEF Reset
  <2>6. CASE Join
    <3>1. edits' \in 0..MaxEdits /\ edits' = edits + 1
      BY <2>0, <2>6, ClassAssumption DEF Join, Counting
    <3>2. memory' \in Boards /\ memory'.revision = memory.revision
      BY <2>0, <2>6, <3>1, BoardFields DEF Join
    <3>3. memory'.revision <= edits' + 1
      BY <2>0, <3>1, <3>2
    <3> QED
      BY <2>6, <3>2, <3>3, PublishTyped DEF Join
  <2>7. ASSUME NEW b \in 0..MaxEdits, FocusOn(b) PROVE ClassTypeInv'
    <3> DEFINE board == [memory EXCEPT !.focus = b]
    <3>1. b \in NoFocus..MaxEdits
      BY ClassAssumption DEF NoFocus
    <3>2. board \in Boards /\ board.revision = memory.revision
      BY <2>0, <3>1, BoardFields
    <3>3. ChangeBoard(board)
      BY <2>7 DEF FocusOn
    <3> HIDE DEF board
    <3> QED
      BY <3>2, <3>3, ChangeTyped
  <2>8. CASE RestartServer
    <3>1. /\ servers' \in 0..MaxServers /\ memory' = Load(boardFile)
          /\ sent' = memory' /\ UNCHANGED <<boardFile, shown, edits>>
          /\ watch' = [v \in Viewers |-> Closed]
      BY <2>8, ClassAssumption DEF RestartServer, ClassTypeInv
    <3>2. memory' \in Boards /\ memory'.revision = boardFile.revision
      <4>1. (IF boardFile.focus = NoFocus THEN Welcome ELSE boardFile.focus)
              \in NoFocus..MaxEdits
        BY <2>0, BoardFields
      <4> QED
        BY <2>0, <3>1, <4>1, BoardFields DEF Load
    <3>3. Closed \in Handlers /\ HandlerOK(Closed)
      BY ClassAssumption DEF Handlers, HandlerOK, Closed
    <3>4. WatchersOK'
      BY <3>1, <3>3 DEF WatchersOK
    <3> QED
      BY <2>0, <3>1, <3>2, <3>4 DEF ClassTypeInv, BoardsOK
  <2>9. ASSUME NEW v \in Viewers, NEW w, HandlerOK(w),
               watch' = [watch EXCEPT ![v] = w]
        PROVE  WatchersOK'
    BY <2>9 DEF ClassTypeInv, WatchersOK, HandlerOK
  <2>10. ASSUME NEW v \in Viewers, Connect(v) PROVE ClassTypeInv'
    <3> DEFINE w == [at |-> "greet", queue |-> <<memory>>, subscribed |-> TRUE]
    <3>1. w \in Handlers /\ Len(w.queue) = 1
      BY <2>0 DEF Handlers
    <3>2. HandlerOK(w)
      BY <3>1, ClassAssumption DEF HandlerOK
    <3>3. watch' = [watch EXCEPT ![v] = w]
          /\ UNCHANGED <<memory, boardFile, sent, shown, edits, servers>>
      BY <2>10 DEF Connect
    <3> HIDE DEF w
    <3> QED
      BY <2>9, <3>2, <3>3 DEF ClassTypeInv, BoardsOK
  <2>11. ASSUME NEW v \in Viewers, Send(v) PROVE ClassTypeInv'
    <3>1. watch[v] \in Handlers /\ HandlerOK(watch[v]) /\ watch[v].queue # << >>
      BY <2>11 DEF Send, ClassTypeInv, WatchersOK
    <3> DEFINE rest == Tail(watch[v].queue)
               w == [[watch[v] EXCEPT !.at = "watch"] EXCEPT !.queue = rest]
    <3>2. /\ Head(watch[v].queue) \in Boards /\ rest \in Seq(Boards)
          /\ Len(rest) = Len(watch[v].queue) - 1 /\ Len(rest) \in Nat
      BY <3>1 DEF Handlers
    <3>3. watch' = [watch EXCEPT ![v] = w]
      BY <2>11, <3>1 DEF Send, ClassTypeInv, WatchersOK, Handlers
    <3> HIDE DEF rest
    <3>4. w \in Handlers /\ w.queue = rest /\ w.at = "watch"
      BY <3>1, <3>2 DEF Handlers
    <3> HIDE DEF w
    <3>5. HandlerOK(w)
      BY <3>1, <3>2, <3>4, ClassAssumption DEF HandlerOK
    <3>6. /\ UNCHANGED <<memory, boardFile, sent, edits, servers>>
          /\ shown' \in [Viewers -> Boards]
      BY <2>11, <3>2 DEF Send, ClassTypeInv
    <3> QED
      BY <2>9, <3>3, <3>5, <3>6 DEF ClassTypeInv, BoardsOK
  <2>12. ASSUME NEW v \in Viewers, Disconnect(v) PROVE ClassTypeInv'
    <3>1. HandlerOK(Closed)
      BY ClassAssumption DEF Handlers, HandlerOK, Closed
    <3>2. watch' = [watch EXCEPT ![v] = Closed]
          /\ UNCHANGED <<memory, boardFile, sent, shown, edits, servers>>
      BY <2>12 DEF Disconnect
    <3> QED
      BY <2>9, <3>1, <3>2 DEF ClassTypeInv, BoardsOK
  <2>13. CASE UNCHANGED classVars
    BY <2>13 DEF classVars, ClassTypeInv, BoardsOK, WatchersOK
  <2> QED
    BY <2>1, <2>2, <2>3, <2>4, <2>5, <2>6, <2>7, <2>8, <2>10, <2>11, <2>12,
       <2>13 DEF ClassNext, Request
<1>3. ClassTypeInv => ClassTypeOK
  <2> SUFFICES ASSUME ClassTypeInv, NEW v \in Viewers
               PROVE  /\ Range(watch[v].queue) \subseteq Boards
                      /\ Len(watch[v].queue) <= QueueSize + 1
                      /\ watch[v].at \in {"closed", "greet", "watch"}
                      /\ watch[v].at = "closed" => watch[v] = Closed
    BY DEF ClassTypeInv, BoardsOK, ClassTypeOK
  <2>1. watch[v] \in Handlers /\ HandlerOK(watch[v])
    BY DEF ClassTypeInv, WatchersOK
  <2>2. Len(watch[v].queue) \in Nat /\ watch[v].queue \in Seq(Boards)
    BY <2>1 DEF Handlers
  <2>3. Range(watch[v].queue) \subseteq Boards
    BY <2>2 DEF Range
  <2> QED
    BY <2>1, <2>2, <2>3, ClassAssumption DEF HandlerOK, Handlers
<1> QED
  BY <1>1, <1>2, <1>3, PTL


-----------------------------------------------------------------------------
(* The website chat.                                                       *)
Distinct(s) == \A i, j \in 1..Len(s) : s[i] = s[j] => i = j

(* A sequence of distinct elements without one of them.                    *)
LEMMA RemoveFirstTakesOne ==
  ASSUME NEW S, NEW s \in Seq(S), Distinct(s), NEW e
  PROVE  LET r == RemoveFirst(s, e) IN
         /\ r \in Seq(S) /\ Distinct(r)
         /\ \A i \in 1..Len(r) : r[i] # e /\ \E j \in 1..Len(s) : r[i] = s[j]
<1> DEFINE r == RemoveFirst(s, e)
           places == {i \in 1..Len(s) : s[i] = e}
           k == Min(places)
<1>0. Len(s) \in Nat /\ \A i \in 1..Len(s) : s[i] \in S
  BY ElementOfSeq
<1>1. CASE places = {}
  <2>1. r = s
    BY <1>1 DEF RemoveFirst
  <2>2. \A i \in 1..Len(s) : s[i] # e
    BY <1>1
  <2> HIDE DEF r, places
  <2>3. /\ r \in Seq(S) /\ Distinct(r)
        /\ \A i \in 1..Len(r) : r[i] # e /\ \E j \in 1..Len(s) : r[i] = s[j]
    BY <2>1, <2>2
  <2> QED
    BY <2>3 DEF r
<1>2. CASE places # {}
  <2>1. k \in 1..Len(s) /\ s[k] = e
    <3>1. places \in SUBSET Nat
      BY <1>0
    <3> HIDE DEF places
    <3>2. k \in places
      BY <1>2, <3>1, MinIsIn
    <3> QED
      BY <3>2 DEF places
  <2>2. r = RemoveAt(s, k)
    <3>1. \E i \in 1..Len(s) : s[i] = e
      BY <1>2
    <3>2. SelectInSeq(s, LAMBDA v : v = e) = k
      BY <1>2 DEF SelectInSeq
    <3> HIDE DEF k, places
    <3> QED
      BY <3>1, <3>2 DEF RemoveFirst
  <2> HIDE DEF r, k, places
  <2> DEFINE head == SubSeq(s, 1, k - 1)
             rest == SubSeq(s, k + 1, Len(s))
  <2>3. /\ head \in Seq(S) /\ Len(head) = k - 1
        /\ \A i \in 1..(k - 1) : head[i] = s[i]
    <3>1. 1 \in Int /\ k - 1 \in Int /\ \A i \in 1..(k - 1) : s[i] \in S
      BY <1>0, <2>1
    <3>2. /\ head \in Seq(S) /\ Len(head) = IF 1 <= k - 1 THEN k - 1 - 1 + 1 ELSE 0
          /\ \A i \in 1..(k - 1 - 1 + 1) : head[i] = s[1 + i - 1]
      BY <3>1, SubSeqProperties
    <3> HIDE DEF head
    <3> QED
      BY <2>1, <3>2
  <2>4. /\ rest \in Seq(S) /\ Len(rest) = Len(s) - k
        /\ \A i \in 1..(Len(s) - k) : rest[i] = s[k + i]
    <3>1. k + 1 \in Int /\ Len(s) \in Int
          /\ \A i \in (k + 1)..Len(s) : s[i] \in S
      BY <1>0, <2>1
    <3>2. /\ rest \in Seq(S)
          /\ Len(rest) = IF k + 1 <= Len(s) THEN Len(s) - (k + 1) + 1 ELSE 0
          /\ \A i \in 1..(Len(s) - (k + 1) + 1) : rest[i] = s[(k + 1) + i - 1]
      BY <3>1, SubSeqProperties
    <3> HIDE DEF rest
    <3> QED
      BY <1>0, <2>1, <3>2
  <2> HIDE DEF head, rest
  <2>5. /\ r \in Seq(S) /\ Len(r) = Len(s) - 1
        /\ \A i \in 1..(Len(s) - 1) : r[i] = IF i < k THEN s[i] ELSE s[i + 1]
    <3>1. r = head \o rest
      BY <2>2 DEF RemoveAt, head, rest
    <3>2. /\ r \in Seq(S) /\ Len(r) = Len(head) + Len(rest)
          /\ \A i \in 1..(Len(head) + Len(rest)) :
               r[i] = IF i <= Len(head) THEN head[i] ELSE rest[i - Len(head)]
      BY <2>3, <2>4, <3>1, ConcatProperties
    <3>3. ASSUME NEW i \in 1..(Len(s) - 1)
          PROVE  r[i] = IF i < k THEN s[i] ELSE s[i + 1]
      <4>1. CASE i < k
        BY <1>0, <2>1, <2>3, <2>4, <3>2, <4>1
      <4>2. CASE ~ (i < k)
        <5>a. /\ i \in 1..(Len(head) + Len(rest)) /\ ~ (i <= Len(head))
              /\ Len(head) = k - 1 /\ i - (k - 1) \in 1..(Len(s) - k)
          BY <1>0, <2>1, <2>3, <2>4, <4>2
        <5>1. r[i] = rest[i - (k - 1)] /\ i - (k - 1) \in 1..(Len(s) - k)
          BY <3>2, <5>a
        <5>2. k + (i - (k - 1)) = i + 1
          BY <1>0, <2>1
        <5> QED
          BY <2>4, <4>2, <5>1, <5>2
      <4> QED
        BY <4>1, <4>2
    <3> QED
      BY <1>0, <2>1, <2>3, <2>4, <3>2, <3>3
  <2> DEFINE at(i) == IF i < k THEN i ELSE i + 1
  <2>6. \A i \in 1..Len(r) : /\ at(i) \in 1..Len(s) /\ at(i) # k
                             /\ r[i] = s[at(i)]
    BY <1>0, <2>1, <2>5
  <2>7. \A i, j \in 1..Len(r) : at(i) = at(j) => i = j
    BY <1>0, <2>1, <2>5
  <2> HIDE DEF at
  <2>8. \A i \in 1..Len(r) : r[i] # e
    BY <2>1, <2>6 DEF Distinct
  <2>9. Distinct(r)
    BY <2>6, <2>7 DEF Distinct
  <2> QED
    BY <2>5, <2>6, <2>8, <2>9 DEF r
<1> QED
  BY <1>1, <1>2

(* Distinct questions that wait outside busy are no more than the rest.    *)
LEMMA WaitingFit ==
  ASSUME queue \in Seq(Questions), Distinct(queue), busy \subseteq Questions,
         \A i \in 1..Len(queue) : queue[i] \notin busy
  PROVE  Cardinality(busy) + Len(queue) <= Cardinality(Questions)
<1> DEFINE idle == Questions \ busy
           waiting == [i \in 1..Len(queue) |-> queue[i]]
<1>1. Len(queue) \in Nat /\ \A i \in 1..Len(queue) : queue[i] \in idle
  BY ElementOfSeq
<1>2. IsFiniteSet(Questions) /\ IsFiniteSet(busy) /\ IsFiniteSet(idle)
  BY ChatAssumption, FS_Subset
<1>3. Cardinality(idle) = Cardinality(Questions) - Cardinality(busy)
  <2>1. Questions \intersect busy = busy
    OBVIOUS
  <2> QED
    BY <1>2, <2>1, FS_Difference
<1>4. Cardinality(idle) \in Nat /\ Cardinality(Questions) \in Nat
      /\ Cardinality(busy) \in Nat
  BY <1>2, FS_CardinalityType
<1>5. waiting \in Injection(1..Len(queue), idle)
  BY <1>1 DEF Injection, IsInjective, Distinct
<1> HIDE DEF idle, waiting
<1>6. Cardinality(1..Len(queue)) <= Cardinality(idle)
  BY <1>2, <1>5, FS_Injection
<1>7. Cardinality(1..Len(queue)) = Len(queue)
  <2>1. 1 \in Int /\ Len(queue) \in Int
    BY <1>1
  <2>2. Cardinality(1..Len(queue))
          = IF 1 > Len(queue) THEN 0 ELSE Len(queue) - 1 + 1
    BY <2>1, FS_Interval
  <2> QED
    BY <1>1, <2>2
<1> QED
  BY <1>1, <1>3, <1>4, <1>6, <1>7


Stages == {"none", "new", "admitted", "checked", "asking"} \union Outcomes
MostRequests == IF Rpm > FormRpm THEN Rpm ELSE FormRpm

ClientsOK ==
  /\ config \in [enabled : BOOLEAN, fallback : BOOLEAN]
  /\ {provider, token} \subseteq BOOLEAN
  /\ cache \in [age : 0..TokenTTL, valid : BOOLEAN]
  /\ revoked \in 0..(TokenTTL + 1)
  /\ changes \in 0..MaxChanges /\ forms \in 0..MaxForms

BucketOK == bucket \in Seq(0..(Window - 1)) /\ Len(bucket) <= MostRequests

(* A question waits or runs once, and only when its thread has submitted   *)
(* it; one that waits is still asked for.                                  *)
PoolOK ==
  /\ queue \in Seq(Questions) /\ Distinct(queue) /\ busy \subseteq Questions
  /\ \A i \in 1..Len(queue) : ask[queue[i]] = "asking" /\ queue[i] \notin busy
  /\ \A q \in busy : ask[q] \in {"asking"} \union Outcomes
  /\ Cardinality(busy) <= Workers

ChatTypeInv ==
  /\ ClientsOK /\ BucketOK /\ PoolOK
  /\ ask \in [Questions -> Stages] /\ fallback \in [Questions -> BOOLEAN]

(* The bucket holds ages that are within the window.                       *)
LEMMA BucketIs ==
  ASSUME BucketOK
  PROVE  /\ DOMAIN bucket = 1..Len(bucket) /\ Len(bucket) \in Nat
         /\ \A i \in 1..Len(bucket) : bucket[i] \in 0..(Window - 1)
<1>1. bucket \in Seq(0..(Window - 1))
  BY DEF BucketOK
<1> QED
  BY <1>1, LenProperties

(* What a rate limit lets in keeps the bucket within the largest limit.    *)
LEMMA RateCheckTyped ==
  ASSUME BucketOK, NEW limit \in {Rpm, FormRpm}, RateCheck(limit)
  PROVE  BucketOK'
<1>1. bucket' = Append(bucket, 0) /\ Len(bucket) < limit
  BY DEF RateCheck
<1>2. 0 \in 0..(Window - 1) /\ Len(bucket) \in Nat
  BY ChatAssumption DEF BucketOK
<1>3. bucket' \in Seq(0..(Window - 1)) /\ Len(bucket') = Len(bucket) + 1
  BY <1>1, <1>2, AppendProperties DEF BucketOK
<1> QED
  BY <1>1, <1>2, <1>3, ChatAssumption DEF BucketOK, MostRequests

(* The list of tokens is as old as it was, or read now.                    *)
LEMMA LoadTyped ==
  ASSUME ClientsOK, LoadTokens
  PROVE  cache' \in [age : 0..TokenTTL, valid : BOOLEAN]
BY ChatAssumption DEF ClientsOK, LoadTokens

(* A question that is neither waiting nor running moves on.                *)
LEMMA OtherStage ==
  ASSUME PoolOK, ask \in [Questions -> Stages], NEW q \in Questions,
         ask[q] \notin {"asking"} \union Outcomes,
         NEW to \in Stages, Answer(q, to), UNCHANGED <<queue, busy>>
  PROVE  PoolOK' /\ ask' \in [Questions -> Stages]
<1>1. \A p \in Questions \ {q} : ask'[p] = ask[p]
  BY DEF Answer
<1>2. ask' \in [Questions -> Stages]
  BY DEF Answer
<1>3. q \notin busy /\ \A i \in 1..Len(queue) : queue[i] # q
  BY DEF PoolOK
<1>4. \A i \in 1..Len(queue) : queue[i] \in Questions
  BY ElementOfSeq DEF PoolOK
<1> QED
  BY <1>1, <1>2, <1>3, <1>4 DEF PoolOK

(* The state of the website chat is typed; a bucket holds no more requests *)
(* than the largest limit, no question waits while it runs, and no more    *)
(* calls run than there are workers.                                       *)
LEMMA ChatTypes == ChatInit /\ [][ChatNext]_chatVars => []ChatTypeOK
<1>1. ChatInit => ChatTypeInv
  <2> SUFFICES ASSUME ChatInit PROVE ChatTypeInv
    OBVIOUS
  <2>1. ClientsOK
    BY ChatAssumption DEF ChatInit, ClientsOK, NoCache
  <2>2. BucketOK
    <3>1. << >> \in Seq(0..(Window - 1)) /\ Len(<< >>) = 0
      BY EmptySeq
    <3> QED
      BY <3>1, ChatAssumption DEF ChatInit, BucketOK, MostRequests
  <2>3. PoolOK
    <3>1. << >> \in Seq(Questions) /\ Len(<< >>) = 0 /\ Cardinality({}) = 0
      BY EmptySeq, FS_EmptySet
    <3> QED
      BY <3>1, ChatAssumption DEF ChatInit, PoolOK, Distinct
  <2> QED
    BY <2>1, <2>2, <2>3 DEF ChatInit, ChatTypeInv, Stages
<1>2. ChatTypeInv /\ [ChatNext]_chatVars => ChatTypeInv'
  <2> SUFFICES ASSUME ChatTypeInv, [ChatNext]_chatVars PROVE ChatTypeInv'
    OBVIOUS
  <2>0. /\ ClientsOK /\ BucketOK /\ PoolOK
        /\ ask \in [Questions -> Stages] /\ fallback \in [Questions -> BOOLEAN]
    BY DEF ChatTypeInv
  <2>a. UNCHANGED <<Settings, cache, revoked, forms>> => ClientsOK'
    BY <2>0 DEF Settings, ClientsOK
  <2>b. UNCHANGED bucket => BucketOK'
    BY <2>0 DEF BucketOK
  <2>c. UNCHANGED <<queue, busy, ask>> => PoolOK'
    BY <2>0 DEF PoolOK
  <2>1. ASSUME NEW q \in Questions, Type(q) PROVE ChatTypeInv'
    <3>1. PoolOK' /\ ask' \in [Questions -> Stages]
      BY <2>0, <2>1, OtherStage DEF Type, Pool, Stages, Outcomes
    <3> QED
      BY <2>0, <2>1, <2>a, <2>b, <3>1 DEF Type, ChatTypeInv
  <2>2. ASSUME NEW q \in Questions, Ask(q) PROVE ChatTypeInv'
    <3>1. PoolOK' /\ ask' \in [Questions -> Stages]
      BY <2>0, <2>2, OtherStage DEF Ask, Pool, Stages, Outcomes
    <3>2. BucketOK'
      BY <2>0, <2>2, RateCheckTyped DEF Ask
    <3> QED
      BY <2>0, <2>2, <2>a, <3>1, <3>2 DEF Ask, ChatTypeInv
  <2>3. ASSUME NEW q \in Questions, AskByToken(q) PROVE ChatTypeInv'
    <3>1. PoolOK' /\ ask' \in [Questions -> Stages]
      <4>1. CASE \E to \in {"error", "admitted"} : Answer(q, to)
        BY <2>0, <2>3, <4>1, OtherStage DEF AskByToken, Pool, Stages, Outcomes
      <4>2. CASE UNCHANGED ask
        BY <2>0, <2>3, <2>c, <4>2 DEF AskByToken, Pool
      <4> QED
        BY <2>3, <4>1, <4>2 DEF AskByToken
    <3>2. BucketOK'
      BY <2>0, <2>3, <2>b, RateCheckTyped DEF AskByToken
    <3>3. cache' \in [age : 0..TokenTTL, valid : BOOLEAN]
      BY <2>0, <2>3, LoadTyped DEF AskByToken
    <3>4. ClientsOK'
      BY <2>0, <2>3, <3>3 DEF AskByToken, ClientsOK, Settings
    <3> QED
      BY <2>0, <2>3, <3>1, <3>2, <3>4 DEF AskByToken, ChatTypeInv
  <2>4. CASE SubmitForm
    <3>1. BucketOK'
      BY <2>0, <2>4, RateCheckTyped DEF SubmitForm
    <3>2. ClientsOK' /\ PoolOK'
      BY <2>0, <2>4, <2>c, ChatAssumption
      DEF SubmitForm, Settings, Pool, ClientsOK
    <3> QED
      BY <2>0, <2>4, <3>1, <3>2 DEF SubmitForm, ChatTypeInv
  <2>5. ASSUME NEW q \in Questions, ReadConfig(q) PROVE ChatTypeInv'
    <3>1. PoolOK' /\ ask' \in [Questions -> Stages]
      BY <2>0, <2>5, OtherStage DEF ReadConfig, Pool, Stages, Outcomes
    <3>2. fallback' \in [Questions -> BOOLEAN]
      BY <2>0, <2>5 DEF ReadConfig, ClientsOK
    <3> QED
      BY <2>0, <2>5, <2>a, <2>b, <3>1, <3>2 DEF ReadConfig, ChatTypeInv
  <2>6. ASSUME NEW q \in Questions, Submit(q) PROVE ChatTypeInv'
    <3>1. CASE provider
      <4>1. /\ Answer(q, "asking") /\ queue' = Append(queue, q)
            /\ busy' = busy /\ ask[q] = "checked"
        BY <2>6, <3>1 DEF Submit
      <4>2. /\ queue' \in Seq(Questions) /\ Len(queue') = Len(queue) + 1
            /\ \A i \in 1..Len(queue) : queue'[i] = queue[i]
            /\ queue'[Len(queue) + 1] = q /\ Len(queue) \in Nat
        BY <2>0, <4>1, AppendProperties DEF PoolOK
      <4>3. q \notin busy /\ \A i \in 1..Len(queue) : queue[i] # q
        BY <2>0, <4>1 DEF PoolOK, Outcomes
      <4>4. /\ ask' \in [Questions -> Stages] /\ ask'[q] = "asking"
            /\ \A p \in Questions \ {q} : ask'[p] = ask[p]
        BY <2>0, <4>1 DEF Answer, Stages
      <4>5. \A i \in 1..Len(queue) : queue[i] \in Questions
        BY <2>0, ElementOfSeq DEF PoolOK
      <4>6. Distinct(queue')
        BY <2>0, <4>2, <4>3 DEF PoolOK, Distinct
      <4>7. \A i \in 1..Len(queue') : ask'[queue'[i]] = "asking"
                                     /\ queue'[i] \notin busy'
        BY <2>0, <4>1, <4>2, <4>3, <4>4, <4>5 DEF PoolOK
      <4>8. \A p \in busy' : ask'[p] \in {"asking"} \union Outcomes
        BY <2>0, <4>1, <4>4 DEF PoolOK
      <4>9. PoolOK'
        BY <2>0, <4>1, <4>2, <4>6, <4>7, <4>8 DEF PoolOK
      <4> QED
        BY <2>0, <2>6, <2>a, <2>b, <4>4, <4>9 DEF Submit, ChatTypeInv
    <3>2. CASE ~provider
      <4>1. PoolOK' /\ ask' \in [Questions -> Stages]
        BY <2>0, <2>6, <3>2, OtherStage DEF Submit, WithoutAi, Stages, Outcomes
      <4> QED
        BY <2>0, <2>6, <2>a, <2>b, <4>1 DEF Submit, ChatTypeInv
    <3> QED
      BY <3>1, <3>2
  <2>7. ASSUME NEW q \in Questions, TimeOut(q) PROVE ChatTypeInv'
    <3>1. PICK to \in Outcomes : Answer(q, to)
      BY <2>7 DEF TimeOut, WithoutAi, Outcomes
    <3>2. /\ ask' \in [Questions -> Stages] /\ ask'[q] \in Outcomes
          /\ \A p \in Questions \ {q} : ask'[p] = ask[p]
      BY <2>0, <3>1 DEF Answer, Stages
    <3>3. /\ queue' \in Seq(Questions) /\ Distinct(queue')
          /\ \A i \in 1..Len(queue') :
               queue'[i] # q /\ \E j \in 1..Len(queue) : queue'[i] = queue[j]
      BY <2>0, <2>7, RemoveFirstTakesOne DEF TimeOut, PoolOK
    <3>4. \A i \in 1..Len(queue) : queue[i] \in Questions
      BY <2>0, ElementOfSeq DEF PoolOK
    <3>5. busy' = busy
      BY <2>7 DEF TimeOut
    <3>6. \A i \in 1..Len(queue') : ask'[queue'[i]] = "asking"
                                   /\ queue'[i] \notin busy'
      BY <2>0, <3>2, <3>3, <3>4, <3>5 DEF PoolOK
    <3>7. \A p \in busy' : ask'[p] \in {"asking"} \union Outcomes
      BY <2>0, <3>2, <3>5 DEF PoolOK
    <3>8. PoolOK'
      BY <2>0, <3>3, <3>5, <3>6, <3>7 DEF PoolOK
    <3> QED
      BY <2>0, <2>7, <2>a, <2>b, <3>2, <3>8 DEF TimeOut, ChatTypeInv
  <2>8. CASE TakeCall
    <3>1. /\ queue # << >> /\ Cardinality(busy) < Workers
          /\ busy' = busy \union {Head(queue)} /\ queue' = Tail(queue)
          /\ ask' = ask
      BY <2>8 DEF TakeCall
    <3>2. /\ Len(queue) \in Nat \ {0} /\ Head(queue) = queue[1]
          /\ queue' \in Seq(Questions) /\ Len(queue') = Len(queue) - 1
          /\ \A i \in 1..Len(queue') : queue'[i] = queue[i + 1]
      BY <2>0, <3>1, EmptySeq, HeadTailProperties DEF PoolOK
    <3>3. Head(queue) \in Questions /\ Head(queue) \notin busy
          /\ ask[Head(queue)] = "asking"
      <4>1. 1 \in 1..Len(queue)
        BY <3>2
      <4> QED
        BY <2>0, <3>2, <4>1, ElementOfSeq DEF PoolOK
    <3>4. Distinct(queue') /\ \A i \in 1..Len(queue') : queue'[i] # Head(queue)
      BY <2>0, <3>2 DEF PoolOK, Distinct
    <3>5. \A i \in 1..Len(queue') : ask'[queue'[i]] = "asking"
                                   /\ queue'[i] \notin busy'
      <4>1. \A i \in 1..Len(queue') : i + 1 \in 1..Len(queue)
        BY <3>2
      <4> QED
        BY <2>0, <3>1, <3>2, <3>4, <4>1 DEF PoolOK
    <3>6. busy' \subseteq Questions
          /\ \A p \in busy' : ask'[p] \in {"asking"} \union Outcomes
      BY <2>0, <3>1, <3>3 DEF PoolOK
    <3>7. Cardinality(busy') <= Workers
      <4>1. IsFiniteSet(busy) /\ Cardinality(busy) \in Nat
        BY <2>0, ChatAssumption, FS_Subset, FS_CardinalityType DEF PoolOK
      <4>2. Cardinality(busy') = Cardinality(busy) + 1
        BY <3>1, <3>3, <4>1, FS_AddElement
      <4> QED
        BY <3>1, <4>1, <4>2, ChatAssumption
    <3>8. PoolOK'
      BY <3>2, <3>4, <3>5, <3>6, <3>7 DEF PoolOK
    <3> QED
      BY <2>0, <2>8, <2>a, <2>b, <3>1, <3>8 DEF TakeCall, ChatTypeInv
  <2>9. ASSUME NEW q \in Questions, CallEnds(q) PROVE ChatTypeInv'
    <3>1. q \in busy /\ busy' = busy \ {q} /\ queue' = queue
      BY <2>9 DEF CallEnds
    <3>2. /\ ask' \in [Questions -> Stages]
          /\ \A p \in Questions \ {q} : ask'[p] = ask[p]
      BY <2>0, <2>9 DEF CallEnds, WithoutAi, Answer, Stages, Outcomes
    <3>3. Cardinality(busy') <= Workers
      <4>1. IsFiniteSet(busy) /\ Cardinality(busy) \in Nat
        BY <2>0, ChatAssumption, FS_Subset, FS_CardinalityType DEF PoolOK
      <4>2. Cardinality(busy') = Cardinality(busy) - 1
        BY <3>1, <4>1, FS_RemoveElement
      <4> QED
        BY <2>0, <4>1, <4>2, ChatAssumption DEF PoolOK
    <3>4. \A i \in 1..Len(queue) : queue[i] \in Questions \ {q}
      BY <2>0, <3>1, ElementOfSeq DEF PoolOK
    <3>5. PoolOK'
      BY <2>0, <3>1, <3>2, <3>3, <3>4 DEF PoolOK
    <3> QED
      BY <2>0, <2>9, <2>a, <2>b, <3>2, <3>5 DEF CallEnds, ChatTypeInv
  <2>10. CASE ChangeSettings
    <3>1. /\ changes' \in 0..MaxChanges
          /\ UNCHANGED <<cache, bucket, ask, fallback, queue, busy, forms>>
      BY <2>0, <2>10, ChatAssumption DEF ChangeSettings, Pool, ClientsOK
    <3>2. /\ config' \in [enabled : BOOLEAN, fallback : BOOLEAN]
          /\ revoked' \in 0..(TokenTTL + 1)
      BY <2>0, <2>10, ChatAssumption DEF ChangeSettings, ClientsOK
    <3>3. provider' \in BOOLEAN /\ token' \in BOOLEAN
      BY <2>0, <2>10 DEF ChangeSettings, ClientsOK
    <3>4. ClientsOK'
      BY <2>0, <3>1, <3>2, <3>3 DEF ClientsOK
    <3> QED
      BY <2>0, <2>b, <2>c, <3>1, <3>4 DEF ChatTypeInv
  <2>11. CASE Tick
    <3>1. PICK k \in 0..Len(bucket) :
            /\ \A i \in DOMAIN bucket : i <= k <=> bucket[i] + 1 >= Window
            /\ bucket' = [i \in 1..(Len(bucket) - k) |-> bucket[i + k] + 1]
      BY <2>11 DEF Tick
    <3>2. /\ DOMAIN bucket = 1..Len(bucket) /\ Len(bucket) \in Nat
          /\ \A i \in 1..Len(bucket) : bucket[i] \in 0..(Window - 1)
      BY <2>0, BucketIs
    <3>3. ASSUME NEW i \in 1..(Len(bucket) - k)
          PROVE  bucket[i + k] + 1 \in 0..(Window - 1)
      <4>1. i + k \in 1..Len(bucket) /\ ~ (i + k <= k)
        BY <3>2
      <4>2. bucket[i + k] \in 0..(Window - 1) /\ ~ (bucket[i + k] + 1 >= Window)
        BY <3>1, <3>2, <4>1
      <4> QED
        BY <4>2, ChatAssumption
    <3>4. bucket' \in Seq(0..(Window - 1)) /\ Len(bucket') = Len(bucket) - k
      <4>1. Len(bucket) - k \in Nat
        BY <3>2
      <4> QED
        BY <3>1, <3>3, <4>1
    <3>5. BucketOK'
      BY <2>0, <3>2, <3>4, ChatAssumption DEF BucketOK, MostRequests
    <3>6. cache' \in [age : 0..TokenTTL, valid : BOOLEAN]
          /\ revoked' \in 0..(TokenTTL + 1)
      <4>1. cache' = [cache EXCEPT
                        !.age = IF @ < TokenTTL THEN @ + 1 ELSE @]
        BY <2>11 DEF Tick
      <4>2. cache \in [age : 0..TokenTTL, valid : BOOLEAN]
        BY <2>0 DEF ClientsOK
      <4>3. (IF cache.age < TokenTTL THEN cache.age + 1 ELSE cache.age)
              \in 0..TokenTTL
        BY <4>2, ChatAssumption
      <4>4. cache' \in [age : 0..TokenTTL, valid : BOOLEAN]
        BY <4>1, <4>2, <4>3
      <4>5. revoked' \in {revoked, revoked + 1} /\ revoked \in 0..(TokenTTL + 1)
            /\ (revoked' = revoked \/ revoked <= TokenTTL)
        BY <2>0, <2>11 DEF Tick, ClientsOK
      <4> QED
        BY <4>4, <4>5, ChatAssumption
    <3>7. ClientsOK' /\ PoolOK'
      BY <2>0, <2>11, <2>c, <3>6 DEF Tick, Settings, Pool, ClientsOK
    <3> QED
      BY <2>0, <2>11, <3>5, <3>7 DEF Tick, ChatTypeInv
  <2>12. CASE UNCHANGED chatVars
    BY <2>0, <2>12, <2>a, <2>b, <2>c DEF chatVars, Settings, ChatTypeInv
  <2> QED
    BY <2>1, <2>2, <2>3, <2>4, <2>5, <2>6, <2>7, <2>8, <2>9, <2>10, <2>11,
       <2>12 DEF ChatNext, ThreadStep
<1>3. ChatTypeInv => ChatTypeOK
  <2> SUFFICES ASSUME ChatTypeInv PROVE ChatTypeOK
    OBVIOUS
  <2>1. \A i \in DOMAIN bucket : bucket[i] \in 0..(Window - 1)
    BY BucketIs DEF ChatTypeInv
  <2>2. \A i \in DOMAIN queue : queue[i] \in Questions /\ queue[i] \notin busy
    BY ElementOfSeq DEF ChatTypeInv, PoolOK
  <2>3. Cardinality(busy) + Len(queue) <= Cardinality(Questions)
    BY WaitingFit DEF ChatTypeInv, PoolOK
  <2>4. Range(bucket) \subseteq 0..(Window - 1)
    BY <2>1 DEF Range
  <2>5. Range(queue) \union busy \subseteq Questions
        /\ Range(queue) \intersect busy = {}
    BY <2>2 DEF Range, ChatTypeInv, PoolOK
  <2> QED
    BY <2>3, <2>4, <2>5
    DEF ChatTypeInv, ClientsOK, BucketOK, PoolOK, ChatTypeOK,
       MostRequests, Stages
<1> QED
  BY <1>1, <1>2, <1>3, PTL


-----------------------------------------------------------------------------
(* The voice conversation.  Sessions half way through a start have threads *)
(* left for them, so that the one that is created is new.                  *)
LoopType == [at : Places, device : {"own", "default"},
             tries : 0..Retries, errors : 0..(MaxErrors - 1)]
Statuses == Active \union {"idle", "stopped", "error"}
Voices == [Loops -> {"none", "making", "playing"}]

Starting == {s \in Sessions : click[s] \in {"clear", "create"}}
NotStarted == {t \in Loops : loop[t].at = "off"}

ThreadsOK ==
  /\ loop \in [Loops -> LoopType]
  /\ click \in [Sessions -> {"none", "clear", "create"} \union Loops]
  /\ \A s \in Sessions : click[s] \in Loops => loop[click[s]].at # "off"
  /\ Cardinality(Starting) <= Cardinality(NotStarted)

SpeechOK ==
  /\ thread \in Loops \union {NoThread} /\ stop \in BOOLEAN
  /\ status \in Statuses
  /\ voice \in Voices /\ player \in Loops \union {NoThread}

ConvTypeInv == ThreadsOK /\ SpeechOK

(* The sets that are counted are finite.                                   *)
LEMMA CountedSets ==
  /\ IsFiniteSet(Starting) /\ IsFiniteSet(NotStarted)
  /\ Cardinality(Starting) \in Nat /\ Cardinality(NotStarted) \in Nat
<1>1. Starting \in SUBSET Sessions /\ NotStarted \in SUBSET Loops
  BY DEF Starting, NotStarted
<1>2. IsFiniteSet(Starting) /\ IsFiniteSet(NotStarted)
  BY <1>1, ConversationAssumption, FS_Subset
<1> QED
  BY <1>2, FS_CardinalityType

(* A thread that was started goes on: nothing is counted anew.             *)
LEMMA LoopGoesOn ==
  ASSUME ThreadsOK, NEW t \in Loops, loop[t].at # "off",
         NEW w \in LoopType, w.at # "off",
         loop' = [loop EXCEPT ![t] = w], click' = click
  PROVE  ThreadsOK'
<1>1. loop' \in [Loops -> LoopType] /\ \A u \in Loops :
        loop'[u].at = "off" <=> loop[u].at = "off"
  BY DEF ThreadsOK
<1>2. NotStarted' = NotStarted /\ Starting' = Starting
  BY <1>1 DEF NotStarted, Starting
<1> QED
  BY <1>1, <1>2 DEF ThreadsOK

(* The two ways a thread moves on.                                         *)
LEMMA GoTyped ==
  ASSUME ThreadsOK, NEW t \in Loops, loop[t].at # "off",
         NEW to \in Places \ {"off"}, Go(t, to), click' = click
  PROVE  ThreadsOK'
<1> DEFINE w == [loop[t] EXCEPT !.at = to]
<1>1. w \in LoopType /\ w.at = to /\ loop' = [loop EXCEPT ![t] = w]
  BY DEF Go, ThreadsOK, LoopType
<1> HIDE DEF w
<1> QED
  BY <1>1, LoopGoesOn

(* A thread that leaves its capture, with another count of errors, stays   *)
(* well formed.                                                            *)
LEMMA LeaveTyped ==
  ASSUME ThreadsOK, NEW t \in Loops, loop[t].at # "off",
         NEW to \in Places \ {"off"}, NEW errors \in 0..(MaxErrors - 1),
         LeaveCapture(t, to, errors), click' = click
  PROVE  ThreadsOK'
<1> DEFINE w == [Fresh EXCEPT !.at = to, !.errors = errors]
<1> DEFINE gone == [Fresh EXCEPT !.at = to]
<1>1. w = [at |-> to, device |-> "own", tries |-> 0, errors |-> errors]
  <2>1. Fresh = [at |-> "off", device |-> "own", tries |-> 0, errors |-> 0]
    BY DEF Fresh
  <2>2. gone = [at |-> to, device |-> "own", tries |-> 0, errors |-> 0]
    BY <2>1
  <2>3. w = [gone EXCEPT !.errors = errors]
    BY <2>1
  <2> HIDE DEF gone
  <2> QED
    BY <2>2, <2>3
<1>2. loop' = [loop EXCEPT ![t] = w]
  BY DEF LeaveCapture
<1> HIDE DEF w
<1>3. w \in LoopType /\ w.at = to
  BY <1>1, ConversationAssumption DEF LoopType
<1> QED
  BY <1>2, <1>3, LoopGoesOn

(* A failed capture reports an error, counts it or gives up.               *)
LEMMA FailedTyped ==
  ASSUME ConvTypeInv, NEW t \in Loops, loop[t].at # "off",
         NEW why \in {"timeout", "unclear", "service", "hardware"},
         Failed(t, why), click' = click
  PROVE  ThreadsOK' /\ status' \in Statuses
<1>0. /\ ThreadsOK /\ loop[t].errors \in 0..(MaxErrors - 1)
      /\ MaxErrors \in Nat \ {0}
  BY ConversationAssumption DEF ConvTypeInv, ThreadsOK, LoopType
<1>1. status' \in Statuses
  BY DEF Failed, SetStatus, Statuses, Active
<1>2. \E to \in {"check", "end"}, errors \in 0..(MaxErrors - 1) :
        LeaveCapture(t, to, errors)
  <2>1. 0 \in 0..(MaxErrors - 1)
    BY <1>0
  <2>2. ~ (loop[t].errors + 1 >= MaxErrors) =>
          loop[t].errors + 1 \in 0..(MaxErrors - 1)
    BY <1>0
  <2> QED
    BY <1>0, <2>1, <2>2 DEF Failed
<1>3. ThreadsOK'
  BY <1>0, <1>2, LeaveTyped DEF Places
<1> QED
  BY <1>1, <1>3

(* So does one on the next device.                                         *)
LEMMA NextDeviceTyped ==
  ASSUME ConvTypeInv, NEW t \in Loops, loop[t].at # "off",
         NEW why \in {"timeout", "unclear", "service", "hardware"},
         NextDevice(t, why), click' = click
  PROVE  ThreadsOK' /\ status' \in Statuses
<1>0. ThreadsOK /\ loop[t] \in LoopType /\ status \in Statuses
  BY DEF ConvTypeInv, ThreadsOK, SpeechOK
<1>1. CASE loop[t].device = "own"
  <2> DEFINE w == [at |-> "open", device |-> "default", tries |-> 0,
                   errors |-> loop[t].errors]
  <2>1. w \in LoopType /\ w.at = "open"
    BY <1>0, ConversationAssumption DEF LoopType, Places
  <2>2. loop' = [loop EXCEPT ![t] = w] /\ status' = status
    BY <1>0, <1>1 DEF NextDevice, ThreadsOK, LoopType
  <2> HIDE DEF w
  <2> QED
    BY <1>0, <2>1, <2>2, LoopGoesOn
<1>2. CASE loop[t].device # "own"
  BY <1>2, FailedTyped DEF NextDevice
<1> QED
  BY <1>1, <1>2


(* The state of the conversation is typed: a session that goes on with a   *)
(* start always finds a thread to create, and no thread counts more errors *)
(* or retries than it may.                                                 *)
LEMMA ConvTypes == ConvInit /\ [][ConvNext]_convVars => []ConvTypeOK
<1>1. ConvInit => ConvTypeInv
  <2> SUFFICES ASSUME ConvInit PROVE ConvTypeInv
    OBVIOUS
  <2>1. Fresh \in LoopType
    BY ConversationAssumption DEF Fresh, LoopType, Places
  <2>2. Starting = {} /\ Cardinality(Starting) = 0
    <3>1. Starting = {}
      BY DEF ConvInit, Starting
    <3> QED
      BY <3>1, CountedSets, FS_EmptySet
  <2>3. Cardinality(Starting) <= Cardinality(NotStarted)
    BY <2>2, CountedSets
  <2>4. \A s \in Sessions : click[s] \notin Loops
    BY ConversationAssumption DEF ConvInit
  <2>5. ThreadsOK
    BY <2>1, <2>3, <2>4 DEF ConvInit, ThreadsOK
  <2> QED
    BY <2>5 DEF ConvInit, ConvTypeInv, SpeechOK, Statuses, Voices
<1>2. ConvTypeInv /\ [ConvNext]_convVars => ConvTypeInv'
  <2> SUFFICES ASSUME ConvTypeInv, [ConvNext]_convVars PROVE ConvTypeInv'
    OBVIOUS
  <2>0. ThreadsOK /\ SpeechOK
    BY DEF ConvTypeInv
  <2>a. ASSUME NEW s, SetStatus(s), s \in Statuses PROVE status' \in Statuses
    BY <2>0, <2>a DEF SetStatus, SpeechOK
  <2>b. /\ UNCHANGED <<click, loop>> => ThreadsOK'
        /\ UNCHANGED <<thread, voice, player>> /\ stop' \in BOOLEAN
             /\ status' \in Statuses => SpeechOK'
        /\ stop \in BOOLEAN /\ status \in Statuses
    BY <2>0 DEF ThreadsOK, SpeechOK, Starting, NotStarted
  <2>c. Active \subseteq Statuses /\ {"idle", "stopped", "error"} \subseteq Statuses
    BY DEF Statuses
  <2>1. ASSUME NEW s \in Sessions, StartConversation(s) PROVE ConvTypeInv'
    <3>1. /\ click[s] = "none" /\ click' = [click EXCEPT ![s] = "clear"]
          /\ loop' = loop
          /\ Cardinality(Starting) < Cardinality(NotStarted)
      BY <2>1 DEF StartConversation, ThreadsLeft, Starting, NotStarted
    <3>2. Starting' = Starting \union {s} /\ NotStarted' = NotStarted
      BY <2>0, <3>1 DEF Starting, NotStarted, ThreadsOK
    <3>3. Cardinality(Starting') \in {Cardinality(Starting), Cardinality(Starting) + 1}
      BY <3>2, CountedSets, FS_AddElement
    <3>4. Cardinality(Starting') <= Cardinality(NotStarted')
      BY <3>1, <3>2, <3>3, CountedSets
    <3>5. ThreadsOK'
      BY <2>0, <3>1, <3>4, ConversationAssumption DEF ThreadsOK
    <3>6. SpeechOK'
      BY <2>1, <2>b, <2>c DEF StartConversation, Active
    <3> QED
      BY <3>5, <3>6 DEF ConvTypeInv
  <2>2. ASSUME NEW s \in Sessions, ClearStop(s) PROVE ConvTypeInv'
    <3>1. /\ click[s] = "clear" /\ click' = [click EXCEPT ![s] = "create"]
          /\ loop' = loop
      BY <2>2 DEF ClearStop
    <3>2. Starting' = Starting /\ NotStarted' = NotStarted
      BY <2>0, <3>1 DEF Starting, NotStarted, ThreadsOK
    <3>3. ThreadsOK'
      BY <2>0, <3>1, <3>2, ConversationAssumption DEF ThreadsOK
    <3>4. SpeechOK'
      BY <2>2, <2>b DEF ClearStop
    <3> QED
      BY <3>3, <3>4 DEF ConvTypeInv
  <2>3. ASSUME NEW s \in Sessions, CreateThread(s) PROVE ConvTypeInv'
    <3> DEFINE t == CHOOSE u \in Loops : loop[u].at = "off"
    <3>1. /\ click[s] = "create" /\ click' = [click EXCEPT ![s] = t]
          /\ Go(t, "created") /\ thread' = t
          /\ UNCHANGED <<stop, status, voice, player>>
      BY <2>3 DEF CreateThread
    <3>2. NotStarted # {}
      <4>1. s \in Starting
        BY <3>1 DEF Starting
      <4>2. Cardinality(Starting) # 0
        BY <4>1, CountedSets, FS_EmptySet
      <4>3. Cardinality(NotStarted) # 0
        BY <2>0, <4>2, CountedSets DEF ThreadsOK
      <4> QED
        BY <4>3, FS_EmptySet
    <3>3. t \in Loops /\ loop[t].at = "off"
      BY <3>2 DEF NotStarted
    <3> HIDE DEF t
    <3>4. /\ loop' \in [Loops -> LoopType] /\ loop'[t].at = "created"
          /\ \A u \in Loops \ {t} : loop'[u] = loop[u]
      BY <2>0, <3>1, <3>3 DEF Go, ThreadsOK, LoopType, Places
    <3>5. Starting' = Starting \ {s} /\ NotStarted' = NotStarted \ {t}
          /\ s \in Starting /\ t \in NotStarted
      <4>1. t \notin {"clear", "create"}
        BY <3>3, ConversationAssumption
      <4> QED
        BY <2>0, <3>1, <3>3, <3>4, <4>1 DEF Starting, NotStarted, ThreadsOK
    <3>6. Cardinality(Starting') <= Cardinality(NotStarted')
      <4>1. /\ Cardinality(Starting') = Cardinality(Starting) - 1
            /\ Cardinality(NotStarted') = Cardinality(NotStarted) - 1
        BY <3>5, CountedSets, FS_RemoveElement
      <4> QED
        BY <2>0, <4>1, CountedSets DEF ThreadsOK
    <3>7. click' \in [Sessions -> {"none", "clear", "create"} \union Loops]
      BY <2>0, <3>1, <3>3 DEF ThreadsOK
    <3>8. \A r \in Sessions : click'[r] \in Loops => loop'[click'[r]].at # "off"
      BY <2>0, <3>1, <3>3, <3>4 DEF ThreadsOK
    <3>9. SpeechOK'
      BY <2>0, <3>1, <3>3 DEF SpeechOK
    <3> QED
      BY <3>4, <3>6, <3>7, <3>8, <3>9 DEF ConvTypeInv, ThreadsOK
  <2>4. ASSUME NEW s \in Sessions, StartThread(s) PROVE ConvTypeInv'
    <3> DEFINE t == click[s]
    <3>1. /\ t \in Loops /\ Go(t, "begin") /\ click' = [click EXCEPT ![s] = "none"]
          /\ UNCHANGED <<thread, stop, status, voice, player>>
      BY <2>4 DEF StartThread
    <3>2. loop[t].at # "off"
      BY <2>0, <3>1 DEF ThreadsOK
    <3> HIDE DEF t
    <3>3. /\ loop' \in [Loops -> LoopType]
          /\ \A u \in Loops : loop'[u].at = "off" <=> loop[u].at = "off"
      BY <2>0, <3>1, <3>2 DEF Go, ThreadsOK, LoopType, Places
    <3>4. NotStarted' = NotStarted
      BY <3>3 DEF NotStarted
    <3>5. Starting' = Starting
      <4>1. click[s] \notin {"clear", "create"}
        BY <3>1, ConversationAssumption DEF t
      <4> QED
        BY <2>0, <3>1, <4>1 DEF Starting, ThreadsOK
    <3>6. ThreadsOK'
      BY <2>0, <3>1, <3>3, <3>4, <3>5, ConversationAssumption DEF ThreadsOK
    <3> QED
      BY <2>0, <2>b, <3>1, <3>6 DEF ConvTypeInv
  <2>5. CASE StopConversation \/ ClearConversation
    BY <2>5, <2>b, <2>c DEF StopConversation, ClearConversation, ConvTypeInv
  <2>6. ASSUME NEW t \in Loops, Begin(t) PROVE ConvTypeInv'
    <3>1. loop[t].at # "off" /\ click' = click /\ stop' = stop
          /\ UNCHANGED <<thread, voice, player>>
      BY <2>6 DEF Begin, Quiet
    <3>2. status' \in Statuses
      BY <2>6, <2>a DEF Begin, Statuses, Active
    <3>3. ThreadsOK'
      BY <2>0, <2>6, <3>1, GoTyped DEF Begin, Places
    <3> QED
      BY <2>b, <3>1, <3>2, <3>3 DEF ConvTypeInv
  <2>7. ASSUME NEW t \in Loops, Check(t) PROVE ConvTypeInv'
    <3>1. loop[t].at # "off" /\ click' = click /\ stop' = stop
          /\ UNCHANGED <<thread, voice, player>>
      BY <2>7 DEF Check, Quiet
    <3>2. status' \in Statuses
      BY <2>7, <2>a, <2>b DEF Check, Statuses, Active
    <3>3. CASE Go(t, "end")
      BY <2>0, <2>b, <3>1, <3>2, <3>3, GoTyped DEF Places, ConvTypeInv
    <3>4. ASSUME NEW d \in {"own", "default"},
                 loop' = [loop EXCEPT ![t].at = "open", ![t].device = d]
          PROVE  ThreadsOK'
      <4> DEFINE w == [at |-> "open", device |-> d, tries |-> loop[t].tries,
                       errors |-> loop[t].errors]
      <4>1. w \in LoopType /\ w.at = "open"
        BY <2>0 DEF ThreadsOK, LoopType, Places
      <4>2. loop' = [loop EXCEPT ![t] = w]
        <5>1. loop[t] \in LoopType
          BY <2>0 DEF ThreadsOK
        <5>2. loop' = [loop EXCEPT
                ![t] = [[@ EXCEPT !.at = "open"] EXCEPT !.device = d]]
          BY <2>0, <3>4 DEF ThreadsOK, LoopType
        <5>3. w = [[loop[t] EXCEPT !.at = "open"] EXCEPT !.device = d]
          <6> DEFINE o == [loop[t] EXCEPT !.at = "open"]
          <6>1. o = [at |-> "open", device |-> loop[t].device,
                     tries |-> loop[t].tries, errors |-> loop[t].errors]
            BY <5>1 DEF LoopType
          <6> HIDE DEF o
          <6>2. w = [o EXCEPT !.device = d]
            BY <6>1
          <6> QED
            BY <6>2 DEF o
        <5> HIDE DEF w
        <5> QED
          BY <5>2, <5>3
      <4> HIDE DEF w
      <4> QED
        BY <2>0, <3>1, <4>1, <4>2, LoopGoesOn
    <3> QED
      BY <2>7, <2>b, <3>1, <3>2, <3>3, <3>4 DEF Check, ConvTypeInv
  <2>8. ASSUME NEW t \in Loops, OpenMicrophone(t) PROVE ConvTypeInv'
    <3>1. loop[t].at # "off" /\ click' = click /\ stop' = stop
          /\ UNCHANGED <<thread, voice, player>>
      BY <2>8 DEF OpenMicrophone, Quiet
    <3>2. ThreadsOK' /\ status' \in Statuses
      BY <2>0, <2>8, <2>b, <3>1, GoTyped, NextDeviceTyped
      DEF OpenMicrophone, Places
    <3> QED
      BY <2>b, <3>1, <3>2 DEF ConvTypeInv
  <2>9. ASSUME NEW t \in Loops, Listen(t) PROVE ConvTypeInv'
    <3>1. loop[t].at # "off" /\ click' = click /\ stop' = stop
          /\ UNCHANGED <<thread, voice, player>>
      BY <2>9 DEF Listen, Quiet
    <3>2. CASE LeaveCapture(t, "heard", 0) /\ status' = status
      <4>1. 0 \in 0..(MaxErrors - 1)
        BY ConversationAssumption
      <4> QED
        BY <2>0, <2>b, <3>1, <3>2, <4>1, LeaveTyped DEF Places, ConvTypeInv
    <3>3. CASE /\ loop[t].tries < Retries /\ status' = status
               /\ loop' = [loop EXCEPT ![t].tries = @ + 1]
      <4> DEFINE w == [loop[t] EXCEPT !.tries = @ + 1]
      <4>1. loop[t] \in LoopType /\ loop[t].tries + 1 \in 0..Retries
        BY <2>0, <3>3, ConversationAssumption DEF ThreadsOK, LoopType
      <4>2. w \in LoopType /\ w.at = loop[t].at
        BY <4>1 DEF LoopType
      <4>3. loop' = [loop EXCEPT ![t] = w]
        BY <2>0, <3>3 DEF ThreadsOK, LoopType
      <4> HIDE DEF w
      <4> QED
        BY <2>0, <2>b, <3>1, <3>3, <4>2, <4>3, LoopGoesOn DEF ConvTypeInv
    <3>4. ASSUME NEW why \in {"timeout", "unclear", "service", "hardware"},
                 NextDevice(t, why)
          PROVE  ConvTypeInv'
      <4>1. ThreadsOK' /\ status' \in Statuses
        BY <3>1, <3>4, NextDeviceTyped
      <4> QED
        BY <2>b, <3>1, <4>1 DEF ConvTypeInv
    <3> QED
      BY <2>9, <3>2, <3>3, <3>4 DEF Listen
  <2>10. ASSUME NEW t \in Loops, Heard(t) \/ Replied(t) \/ Spoken(t)
         PROVE  ConvTypeInv'
    <3>1. loop[t].at # "off" /\ click' = click /\ stop' \in BOOLEAN
          /\ UNCHANGED <<thread, voice, player>>
      BY <2>10, <2>b DEF Heard, Replied, Spoken, Quiet
    <3>2. status' \in Statuses
      BY <2>10, <2>a, <2>b DEF Heard, Replied, Spoken, Statuses, Active
    <3>3. \E to \in Places \ {"off"} : Go(t, to)
      BY <2>10 DEF Heard, Replied, Spoken, Places
    <3>4. ThreadsOK'
      BY <2>0, <3>1, <3>3, GoTyped
    <3> QED
      BY <2>b, <3>1, <3>2, <3>4 DEF ConvTypeInv
  <2>11. ASSUME NEW t \in Loops, Say(t) PROVE ConvTypeInv'
    <3>1. loop[t].at # "off" /\ click' = click /\ Go(t, "speak")
          /\ UNCHANGED <<thread, stop, player>>
      BY <2>11 DEF Say
    <3>2. status' \in Statuses
      BY <2>11, <2>a DEF Say, Statuses, Active
    <3>3. voice' \in Voices
      BY <2>0, <2>11 DEF Say, SpeechOK, Voices
    <3>4. ThreadsOK'
      BY <2>0, <3>1, GoTyped DEF Places
    <3> QED
      BY <2>0, <3>1, <3>2, <3>3, <3>4 DEF ConvTypeInv, SpeechOK
  <2>12. ASSUME NEW t \in Loops, Interrupt(t) PROVE ConvTypeInv'
    <3>1. /\ loop[t].at # "off" /\ click' = click /\ Go(t, "check")
          /\ player' = NoThread /\ UNCHANGED <<thread, stop, status>>
          /\ voice' = [u \in Loops |-> IF u = player THEN "none" ELSE voice[u]]
      BY <2>12 DEF Interrupt
    <3>2. voice' \in Voices
      BY <2>0, <3>1 DEF SpeechOK, Voices
    <3>3. ThreadsOK'
      BY <2>0, <3>1, GoTyped DEF Places
    <3> QED
      BY <2>0, <3>1, <3>2, <3>3 DEF ConvTypeInv, SpeechOK
  <2>13. ASSUME NEW t \in Loops, End(t) PROVE ConvTypeInv'
    <3>1. /\ loop[t].at # "off" /\ click' = click /\ stop' = stop
          /\ UNCHANGED <<thread, voice, player>> /\ LeaveCapture(t, "dead", 0)
          /\ 0 \in 0..(MaxErrors - 1)
      BY <2>13, ConversationAssumption DEF End, Quiet
    <3>2. status' \in Statuses
      BY <2>13, <2>a, <2>c DEF End
    <3>3. ThreadsOK'
      BY <2>0, <3>1, LeaveTyped DEF Places
    <3> QED
      BY <2>b, <3>1, <3>2, <3>3 DEF ConvTypeInv
  <2>14. ASSUME NEW t \in Loops, Play(t) \/ Played(t) PROVE ConvTypeInv'
    <3>1. ThreadsOK'
      BY <2>14, <2>b DEF Play, Played
    <3>2. voice' \in Voices /\ player' \in Loops \union {NoThread}
          /\ UNCHANGED <<thread, stop, status>>
      BY <2>0, <2>14 DEF Play, Played, SpeechOK, Voices
    <3> QED
      BY <2>0, <3>1, <3>2 DEF ConvTypeInv, SpeechOK
  <2>15. CASE UNCHANGED convVars
    BY <2>0, <2>b, <2>15 DEF convVars, ConvTypeInv
  <2> QED
    BY <2>1, <2>2, <2>3, <2>4, <2>5, <2>6, <2>7, <2>8, <2>9, <2>10, <2>11,
       <2>12, <2>13, <2>14, <2>15 DEF ConvNext, SessionStep, LoopStep
<1>3. ConvTypeInv => ConvTypeOK
  BY DEF ConvTypeInv, ThreadsOK, SpeechOK, LoopType, Statuses, Voices,
     ConvTypeOK
<1> QED
  BY <1>1, <1>2, <1>3, PTL


-----------------------------------------------------------------------------
(* The feeds of the HI state.                                              *)
FeedType == [kind : Kinds, at : {"closed", "count", "list", "send"},
             sent : BOOLEAN, made : Pictures]

(* What is made of a reading is a picture, with no more notes than there   *)
(* are.                                                                    *)
LEMMA PictureTyped ==
  ASSUME NEW s \in States, NEW kind
  PROVE  /\ CountOf(kind, s) \in 0..Cardinality(Notes)
         /\ ListOf(kind, s) \in SUBSET (Notes \union {Seed})
         /\ Picture(kind, s) \in Pictures
<1>1. NotesIn(s) \in SUBSET Notes /\ PublicNotes(s) \in SUBSET (Notes \union {Seed})
      /\ Enriched(s) \in SUBSET (Notes \union {Seed})
  BY DEF NotesIn, PublicNotes, Enriched
<1>2. /\ IsFiniteSet(NotesIn(s)) /\ Cardinality(NotesIn(s)) <= Cardinality(Notes)
      /\ Cardinality(NotesIn(s)) \in Nat /\ Cardinality(Notes) \in Nat
  BY <1>1, FeedAssumption, FS_Subset, FS_CardinalityType
<1>3. CountOf(kind, s) \in 0..Cardinality(Notes)
  BY <1>2 DEF CountOf
<1>4. ListOf(kind, s) \in SUBSET (Notes \union {Seed})
  BY <1>1 DEF ListOf
<1> QED
  BY <1>3, <1>4 DEF Picture, Pictures

(* What the readings leave is a state, too.                                *)
LEMMA ReadingTyped ==
  ASSUME FeedTypeOK, NEW s \in {kept, Unreadable}
  PROVE  s \in States /\ (Reads(s) => noteEdits' \in 0..MaxNoteEdits)
BY FeedAssumption
DEF FeedTypeOK, Unreadable, States, Reads, CountEdit

(* The state of the feeds is typed, whatever they read and show.           *)
LEMMA FeedTypes == FeedInit /\ [][FeedNext]_feedVars => []FeedTypeOK
<1>a. Blank \in Pictures
  <2>1. Cardinality(Notes) \in Nat
    BY FeedAssumption, FS_CardinalityType
  <2> QED
    BY <2>1 DEF Blank, Pictures
<1>b. Unreadable \in States
  BY DEF Unreadable, States
<1>c. NoFeed \in FeedType
  BY <1>a DEF NoFeed, FeedType, Kinds
<1>1. FeedInit => FeedTypeOK
  BY <1>a, <1>b, <1>c, FeedAssumption DEF FeedInit, FeedTypeOK, FeedType
<1>2. FeedTypeOK /\ [FeedNext]_feedVars => FeedTypeOK'
  <2> SUFFICES ASSUME FeedTypeOK, [FeedNext]_feedVars PROVE FeedTypeOK'
    OBVIOUS
  <2>0. /\ kept \in States /\ noteEdits \in 0..MaxNoteEdits
        /\ feed \in [Feeds -> FeedType] /\ seen \in [Feeds \union Pages -> Pictures]
        /\ dashCache \in [age : 0..CacheTicks, state : States]
    BY DEF FeedTypeOK, FeedType
  <2>a. CountEdit => noteEdits' \in 0..MaxNoteEdits
    BY <2>0, FeedAssumption DEF CountEdit
  <2>b. ASSUME NEW c \in Feeds, NEW w \in FeedType, feed' = [feed EXCEPT ![c] = w],
               noteEdits' \in 0..MaxNoteEdits,
               UNCHANGED <<kept, seen, dashCache>>
        PROVE  FeedTypeOK'
    BY <2>0, <2>b DEF FeedTypeOK, FeedType
  <2>c. ASSUME NEW c \in Feeds,
               NEW to \in {"closed", "count", "list", "send"}, MoveFeed(c, to),
               noteEdits' \in 0..MaxNoteEdits,
               UNCHANGED <<kept, seen, dashCache>>
        PROVE  FeedTypeOK'
    <3> DEFINE w == [feed[c] EXCEPT !.at = to]
    <3>1. w \in FeedType /\ feed' = [feed EXCEPT ![c] = w]
      BY <2>0, <2>c DEF MoveFeed, FeedType
    <3> HIDE DEF w
    <3> QED
      BY <2>b, <2>c, <3>1
  <2>1. ASSUME NEW c \in Feeds, OpenFeed(c) PROVE FeedTypeOK'
    <3>1. PICK kind \in Kinds :
            feed' = [feed EXCEPT ![c] = [NoFeed EXCEPT !.kind = kind,
                                                       !.at = StartOfRound(kind)]]
      BY <2>1 DEF OpenFeed
    <3> DEFINE o == [NoFeed EXCEPT !.kind = kind]
               w == [o EXCEPT !.at = StartOfRound(kind)]
    <3>2. o \in FeedType
      BY <1>c DEF FeedType
    <3>3. feed' = [feed EXCEPT ![c] = w]
      BY <3>1, <1>c DEF FeedType
    <3> HIDE DEF o
    <3>4. w \in FeedType
      BY <3>2 DEF FeedType, StartOfRound
    <3> HIDE DEF w
    <3> QED
      BY <2>0, <2>1, <2>b, <3>3, <3>4 DEF OpenFeed
  <2>2. ASSUME NEW c \in Feeds, ReadStatus(c) PROVE FeedTypeOK'
    <3>1. PICK s \in {kept, Unreadable} :
            /\ Reads(s)
            /\ feed' = [feed EXCEPT ![c].at = "list",
                                    ![c].made.count = CountOf(feed[c].kind, s)]
      BY <2>2 DEF ReadStatus
    <3> DEFINE n == CountOf(feed[c].kind, s)
               made == [feed[c].made EXCEPT !.count = n]
               o == [feed[c] EXCEPT !.at = "list"]
               w == [o EXCEPT !.made = made]
    <3>2. n \in 0..Cardinality(Notes) /\ noteEdits' \in 0..MaxNoteEdits
      BY <3>1, ReadingTyped, PictureTyped
    <3>3. feed' = [feed EXCEPT ![c] = w]
      BY ZenonT(40), <2>0, <3>1 DEF FeedType, Pictures
    <3> HIDE DEF n
    <3>4. made \in Pictures /\ o \in FeedType
      BY SMTT(30), <2>0, <3>2 DEF FeedType, Pictures
    <3> HIDE DEF made, o
    <3>5. w \in FeedType
      BY <3>4 DEF FeedType
    <3> HIDE DEF w
    <3> QED
      BY <2>2, <2>b, <3>2, <3>3, <3>5 DEF ReadStatus
  <2>3. ASSUME NEW c \in Feeds, ReadNotes(c) PROVE FeedTypeOK'
    <3>1. PICK s \in {kept, Unreadable} :
            /\ Reads(s)
            /\ feed' = [feed EXCEPT ![c].at = "send",
                                    ![c].made.notes = ListOf(feed[c].kind, s)]
      BY <2>3 DEF ReadNotes
    <3> DEFINE n == ListOf(feed[c].kind, s)
               made == [feed[c].made EXCEPT !.notes = n]
               o == [feed[c] EXCEPT !.at = "send"]
               w == [o EXCEPT !.made = made]
    <3>2. n \in SUBSET (Notes \union {Seed}) /\ noteEdits' \in 0..MaxNoteEdits
      BY <3>1, ReadingTyped, PictureTyped
    <3>3. feed' = [feed EXCEPT ![c] = w]
      BY ZenonT(40), <2>0, <3>1 DEF FeedType, Pictures
    <3> HIDE DEF n
    <3>4. made \in Pictures /\ o \in FeedType
      BY <2>0, <3>2 DEF FeedType, Pictures
    <3> HIDE DEF made, o
    <3>5. w \in FeedType
      BY <3>4 DEF FeedType
    <3> HIDE DEF w
    <3> QED
      BY <2>3, <2>b, <3>2, <3>3, <3>5 DEF ReadNotes
  <2>4. ASSUME NEW c \in Feeds, SendPicture(c) PROVE FeedTypeOK'
    <3> DEFINE o == [feed[c] EXCEPT !.at = StartOfRound(feed[c].kind)]
               w == [o EXCEPT !.sent = TRUE]
    <3>1. feed' = [feed EXCEPT ![c] = w]
      BY <2>0, <2>4 DEF SendPicture, FeedType
    <3>2. o \in FeedType
      BY <2>0 DEF FeedType, StartOfRound
    <3> HIDE DEF o
    <3>3. w \in FeedType
      BY <3>2 DEF FeedType
    <3> HIDE DEF w
    <3>4. feed' \in [Feeds -> FeedType]
      BY <2>0, <3>1, <3>3
    <3>5. seen' \in [Feeds \union Pages -> Pictures]
      BY <2>0, <2>4 DEF SendPicture, FeedType
    <3>6. UNCHANGED <<kept, dashCache, noteEdits>>
      BY <2>4 DEF SendPicture
    <3> QED
      BY <2>0, <3>4, <3>5, <3>6 DEF FeedTypeOK, FeedType
  <2>5. ASSUME NEW c \in Feeds, BuilderFails(c) \/ EndFeed(c) PROVE FeedTypeOK'
    BY <2>5, <2>a, <2>c DEF BuilderFails, EndFeed
  <2>6. ASSUME NEW p \in Pages, Render(p) PROVE FeedTypeOK'
    <3>1. /\ dashCache' \in [age : 0..CacheTicks, state : States]
          /\ noteEdits' \in 0..MaxNoteEdits
      <4>1. CASE dashCache.age < CacheTicks
        BY <2>0, <2>6, <4>1 DEF Render
      <4>2. CASE ~ (dashCache.age < CacheTicks)
        <5>1. PICK s \in {kept, Unreadable} :
                Reads(s) /\ dashCache' = [age |-> 0, state |-> s]
          BY <2>6, <4>2 DEF Render
        <5>2. 0 \in 0..CacheTicks
          BY FeedAssumption
        <5> QED
          BY <5>1, <5>2, ReadingTyped
      <4> QED
        BY <4>1, <4>2
    <3>2. Picture("page", dashCache'.state) \in Pictures
      BY <3>1, PictureTyped
    <3>3. seen' \in [Feeds \union Pages -> Pictures]
      BY <2>0, <2>6, <3>2 DEF Render, Show
    <3>4. UNCHANGED <<kept, feed>>
      BY <2>6 DEF Render
    <3> QED
      BY <2>0, <3>1, <3>3, <3>4 DEF FeedTypeOK, FeedType
  <2>7. CASE CacheAges
    <3>1. dashCache' = [dashCache EXCEPT !.age = dashCache.age + 1]
          /\ dashCache.age + 1 \in 0..CacheTicks
          /\ UNCHANGED <<kept, feed, seen, noteEdits>>
      BY <2>0, <2>7, FeedAssumption DEF CacheAges
    <3>2. dashCache' \in [age : 0..CacheTicks, state : States]
      BY <2>0, <3>1
    <3> QED
      BY <2>0, <3>1, <3>2 DEF FeedTypeOK, FeedType
  <2>8. CASE EditNote
    <3>1. kept' \in States
      BY <2>0, <2>8 DEF EditNote, States
    <3> QED
      BY <2>0, <2>8, <2>a, <3>1 DEF EditNote, FeedTypeOK, FeedType
  <2>9. CASE UNCHANGED feedVars
    BY <2>9 DEF feedVars, FeedTypeOK
  <2> QED
    BY <2>1, <2>2, <2>3, <2>4, <2>5, <2>6, <2>7, <2>8, <2>9
    DEF FeedNext, FeedStep
<1> QED
  BY <1>1, <1>2, PTL

-----------------------------------------------------------------------------
(* The voice loop.                                                         *)

(* What is left of an utterance is the end of it.                          *)
LEMMA RestIsSuffix ==
  ASSUME NEW words \in Texts, NEW i \in Nat \ {0}, From(words, i) # << >>
  PROVE  IsSuffix(From(words, i), words)
<1> DEFINE rest == From(words, i)
           a == Reverse(rest)
           b == Reverse(words)
<1>1. /\ rest \in Texts /\ Len(words) \in Nat /\ i <= Len(words)
      /\ Len(rest) = Len(words) - i + 1
      /\ \A j \in 1..Len(rest) : rest[j] = words[i + j - 1]
  BY DEF From, Texts
<1> HIDE DEF rest
<1>2. /\ a \in Texts /\ Len(a) = Len(rest)
      /\ \A j \in 1..Len(rest) : a[j] = rest[Len(rest) - j + 1]
  <2>1. Len(rest) \in Nat
    BY <1>1
  <2> QED
    BY <1>1, <2>1 DEF Reverse, Texts
<1>3. /\ b \in Texts /\ Len(b) = Len(words)
      /\ \A j \in 1..Len(words) : b[j] = words[Len(words) - j + 1]
  BY <1>1 DEF Reverse, Texts
<1>4. Len(a) <= Len(b) /\ \A j \in 1..Len(a) : a[j] = b[j]
  <2> HIDE DEF a, b
  <2>1. Len(a) <= Len(b) /\ Len(rest) <= Len(words)
    BY <1>1, <1>2, <1>3
  <2>2. ASSUME NEW j \in 1..Len(a) PROVE a[j] = b[j]
    <3>1. j \in 1..Len(rest) /\ j \in 1..Len(words)
          /\ Len(rest) - j + 1 \in 1..Len(rest)
      BY <1>1, <1>2, <2>1
    <3>2. rest[Len(rest) - j + 1] = words[i + (Len(rest) - j + 1) - 1]
      BY <1>1, <3>1
    <3>3. i + (Len(rest) - j + 1) - 1 = Len(words) - j + 1
      BY <1>1, <3>1
    <3> QED
      BY <1>2, <1>3, <3>1, <3>2, <3>3
  <2> QED
    BY <2>1, <2>2
<1>5. SubSeq(a, 1, Len(a)) = SubSeq(b, 1, Len(a))
  <2> HIDE DEF a, b
  <2>1. Len(a) \in Nat /\ Len(b) \in Nat
    BY <1>1, <1>2, <1>3
  <2> QED
    BY <1>2, <1>3, <1>4, <2>1 DEF Texts
<1> HIDE DEF a, b
<1>6. IsPrefix(a, b)
  BY <1>4, <1>5 DEF IsPrefix
<1> QED
  BY <1>6 DEF IsSuffix, a, b, rest

(* What the match leaves of an utterance is the end of it, too.            *)
LEMMA MatchLeavesSuffix ==
  ASSUME NEW words \in Texts, Phrase \in Texts,
         NEW rest, rest = WakeMatch(words), rest \notin {<< >>, NoMatch}
  PROVE  IsSuffix(rest, words)
<1>1. Len(Phrase) \in Nat /\ Len(words) \in Nat
  BY DEF Texts
<1>2. Min({WakeWindow, Len(words)}) + 1 \in Nat \ {0}
  BY <1>1 DEF WakeWindow, Min
<1>3. Starts(words) # {} => Min(Starts(words)) + Len(Phrase) \in Nat \ {0}
  <2>1. Starts(words) \in SUBSET (Nat \ {0})
    BY DEF Starts, Texts
  <2> QED
    BY <1>1, <2>1, MinIsIn
<1>4. PICK i \in Nat \ {0} : rest = From(words, i)
  BY <1>1, <1>2, <1>3 DEF WakeMatch
<1> QED
  BY <1>4, RestIsSuffix

(* The round, the utterance and the answer of the voice loop stay what     *)
(* they are taken for: what was routed is the end of what was said.        *)
LEMMA VoiceTypes == VoiceInit /\ [][VoiceNext]_voiceVars => []VoiceTypeOK
<1> DEFINE Said == Utterances \union Replies \union {<< >>}
<1>a. Said \subseteq Texts /\ Phrase \in Texts
  <2>1. ASSUME NEW words \in Utterances PROVE words \in Texts
    <3>1. PICK n \in Nat : words \in [1..n -> DOMAIN Letters]
      BY VoiceAssumption DEF Utterances, BoundedSeq, SeqOf
    <3> QED
      BY <3>1 DEF Texts
  <2>2. Replies \subseteq Texts /\ Phrase \in Texts /\ << >> \in Texts
    BY VoiceAssumption DEF Texts
  <2> QED
    BY <2>1, <2>2
<1>1. VoiceInit => VoiceTypeOK
  BY DEF VoiceInit, VoiceTypeOK
<1>2. VoiceTypeOK /\ [VoiceNext]_voiceVars => VoiceTypeOK'
  <2> SUFFICES ASSUME VoiceTypeOK, [VoiceNext]_voiceVars PROVE VoiceTypeOK'
    OBVIOUS
  <2>1. CASE Capture
    BY <2>1 DEF Capture, VoiceTypeOK
  <2>2. CASE LoopFails \/ SpeechEnds
    BY <2>2 DEF LoopFails, SpeechEnds, VoiceTypeOK
  <2>3. CASE ProcessVoice
    <3>1. said \in Texts /\ round = "heard"
          /\ UNCHANGED <<wakeNeeded, said, speech>>
      BY <1>a, <2>3 DEF ProcessVoice, VoiceTypeOK
    <3>2. said # << >> => IsSuffix(said, said)
      <4>1. From(said, 1) = said
        BY <3>1 DEF From, Texts
      <4> QED
        BY <3>1, <4>1, RestIsSuffix
    <3>3. CASE Ignore
      BY <2>3, <3>1, <3>3 DEF Ignore, VoiceTypeOK
    <3>4. CASE RouteWords(said)
      BY <3>1, <3>2, <3>4 DEF RouteWords, VoiceTypeOK
    <3>5. CASE RouteWords(WakeMatch(said)) /\ WakeMatch(said) \notin {<< >>, NoMatch}
      <4>1. IsSuffix(WakeMatch(said), said)
        BY <1>a, <3>1, <3>5, MatchLeavesSuffix
      <4> QED
        BY <3>1, <3>5, <4>1 DEF RouteWords, VoiceTypeOK
    <3> QED
      BY <2>3, <3>3, <3>4, <3>5 DEF ProcessVoice
  <2>4. CASE EndRound
    BY <2>4 DEF EndRound, PrintResponse, VoiceTypeOK
  <2>5. CASE UNCHANGED voiceVars
    BY <2>5 DEF voiceVars, VoiceTypeOK
  <2> QED
    BY <2>1, <2>2, <2>3, <2>4, <2>5 DEF VoiceNext, VoiceStep
<1> QED
  BY <1>1, <1>2, PTL

-----------------------------------------------------------------------------
(* All of them.                                                            *)

(* Whatever the number of devices, viewers, clients, sessions and pages,   *)
(* every service keeps its state within its type: also the bounds in it,   *)
(* the entries of a board, the requests of a bucket, the waiting of a      *)
(* pool.                                                                   *)
THEOREM ServicesTyped == Spec => []TypeOK
<1>1. Init => SyncInit /\ ClassInit /\ ChatInit /\ ConvInit /\ FeedInit
              /\ VoiceInit
  BY DEF Init
<1>2. [Next]_vars => [SyncNext]_syncVars
  BY DEF Next, vars, syncVars
<1>3. [Next]_vars => [ClassNext]_classVars
  BY DEF Next, vars, classVars
<1>4. [Next]_vars => [ChatNext]_chatVars
  BY DEF Next, vars, chatVars
<1>5. [Next]_vars => [ConvNext]_convVars
  BY DEF Next, vars, convVars
<1>6. [Next]_vars => [FeedNext]_feedVars
  BY DEF Next, vars, feedVars
<1>7. [Next]_vars => [VoiceNext]_voiceVars
  BY DEF Next, vars, voiceVars
<1> QED
  BY <1>1, <1>2, <1>3, <1>4, <1>5, <1>6, <1>7, SyncTypes, ClassTypes,
     ChatTypes, ConvTypes, FeedTypes, VoiceTypes, PTL DEF Spec, TypeOK

=============================================================================
