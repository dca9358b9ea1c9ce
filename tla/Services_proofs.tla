--------------------------- MODULE Services_proofs ---------------------------
(***************************************************************************)
(* Proofs about the services that have safety properties: device sync      *)
(* (DeviceSync), the live class board (LiveClass), the tokens of the       *)
(* website chat (PublicChat) and the wake phrase (VoiceLoop), each for any *)
(* values of its constants.                                                *)
(***************************************************************************)
EXTENDS Services, FiniteSetTheorems, WellFoundedInduction, TLAPS

(* Device sync.  A batch under way holds only memories that have been      *)
(* public, so that a memory that never was is found only at home.          *)
SyncPlaces == {"idle", "pull", "merge", "collect", "push", "save"}
Batches == SUBSET (Memories \X Values)

SyncTyped ==
  /\ sync \in [Syncers -> [at : SyncPlaces, peer : Devices \union {Nobody},
                           batch : Batches]]
  /\ \A s \in Syncers : sync[s].at # "idle" => sync[s].peer \in Devices

SyncShape ==
  /\ store \in [Devices -> [Memories -> Values]]
  /\ born \in 0..Len(Home)
  /\ SyncTyped

PublicIsKnown ==
  \A d \in Devices, m \in Memories : store[d][m] = "public" => m \in public

OthersAtHome ==
  \A d \in Devices, m \in Memories :
    store[d][m] # "absent" => d = Home[m] \/ m \in public

BatchesArePublic ==
  \A s \in Syncers : \A m \in Memories, v \in Values :
    <<m, v>> \in sync[s].batch => m \in public

SyncInv == SyncShape /\ PublicIsKnown /\ OthersAtHome /\ BatchesArePublic

(* The share level that lets private memories out is excluded.             *)
KeepsPrivate == Share \in {"public", "none"}

(* What may be sent to a peer has been public.                             *)
LEMMA ShareableIsPublic ==
  ASSUME KeepsPrivate, SyncInv, NEW d \in Devices, NEW since
  PROVE  /\ Shareable(d, since) \subseteq Memories \X Values
         /\ \A m \in Memories, v \in Values :
              <<m, v>> \in Shareable(d, since) => m \in public
<1>1. \A m \in Listed(d) : m \in Memories /\ m \in public
  BY DEF Listed, KeepsPrivate, SyncInv, PublicIsKnown
<1>2. \A m \in Memories : store[d][m] \in Values
  BY DEF SyncInv, SyncShape
<1> QED
  BY <1>1, <1>2 DEF Shareable

(* A merge puts into a store only what the batch holds.                    *)
LEMMA MergeTakesTheBatch ==
  ASSUME SyncShape, NEW d \in Devices, NEW batch, MergeInto(d, batch)
  PROVE  /\ store' \in [Devices -> [Memories -> Values]]
         /\ \A e \in Devices, m \in Memories :
              store'[e][m] = store[e][m] \/ \E v \in Values : <<m, v>> \in batch
<1> DEFINE Merged(m) ==
      IF \E v \in Values : <<m, v>> \in batch /\ Accepts(d, m, batch)
      THEN CHOOSE v \in Values : <<m, v>> \in batch ELSE store[d][m]
<1>1. store' = [store EXCEPT ![d] = [m \in Memories |-> Merged(m)]]
  BY DEF MergeInto
<1>2. ASSUME NEW m \in Memories
      PROVE  /\ Merged(m) \in Values
             /\ Merged(m) = store[d][m] \/ \E v \in Values : <<m, v>> \in batch
  <2>1. CASE \E v \in Values : <<m, v>> \in batch /\ Accepts(d, m, batch)
    <3>1. (CHOOSE v \in Values : <<m, v>> \in batch) \in Values
      BY <2>1
    <3> QED
      BY <2>1, <3>1
  <2>2. CASE ~ \E v \in Values : <<m, v>> \in batch /\ Accepts(d, m, batch)
    BY <2>2 DEF SyncShape
  <2> QED
    BY <2>1, <2>2
<1> HIDE DEF Merged
<1> QED
  BY <1>1, <1>2 DEF SyncShape

(* A batch of what has been public brings nothing private to a device.     *)
LEMMA MergeKeepsPrivate ==
  ASSUME SyncInv, NEW s \in Syncers, NEW d \in Devices,
         MergeInto(d, sync[s].batch), public' = public
  PROVE  PublicIsKnown' /\ OthersAtHome'
<1>1. ASSUME NEW e \in Devices, NEW m \in Memories
      PROVE  store'[e][m] = store[e][m] \/ m \in public
  BY MergeTakesTheBatch DEF SyncInv, BatchesArePublic
<1> QED
  BY <1>1 DEF SyncInv, PublicIsKnown, OthersAtHome

(* A step of a sync changes the batch of that sync and of no other.        *)
LEMMA MoveTakesBatch ==
  ASSUME SyncTyped, NEW s \in Syncers, sync[s].at # "idle",
         NEW at \in SyncPlaces \ {"idle"}, NEW batch \in Batches,
         Move(s, at, batch)
  PROVE  /\ SyncTyped' /\ sync'[s].batch = batch
         /\ \A r \in Syncers \ {s} : sync'[r].batch = sync[r].batch
<1>1. sync' = [sync EXCEPT ![s] = [[@ EXCEPT !.at = at] EXCEPT !.batch = batch]]
  BY DEF Move, SyncTyped
<1> QED
  BY <1>1 DEF SyncTyped

(* A sync that ends holds nothing.                                         *)
LEMMA FinishDropsBatch ==
  ASSUME SyncTyped, NEW s \in Syncers, Finish(s)
  PROVE  /\ SyncTyped' /\ sync'[s].batch = {}
         /\ \A r \in Syncers \ {s} : sync'[r].batch = sync[r].batch
BY DEF Finish, Nothing, SyncTyped, SyncPlaces, Batches

(* A step that fills the batch with what is public, or empties it.         *)
LEMMA BatchStaysPublic ==
  ASSUME SyncInv, NEW s \in Syncers, UNCHANGED public,
         \A r \in Syncers \ {s} : sync'[r].batch = sync[r].batch,
         \A m \in Memories, v \in Values :
           <<m, v>> \in sync'[s].batch => m \in public
  PROVE  BatchesArePublic'
BY DEF SyncInv, BatchesArePublic

(* A memory is on another device than the one it was created on only if it *)
(* was public before, whatever is hidden, deleted or lost meanwhile.       *)
THEOREM PrivateStaysHome ==
  KeepsPrivate => (SyncSpec => []NoPrivateMemoryLeaves)
<1> SUFFICES ASSUME KeepsPrivate PROVE SyncSpec => []NoPrivateMemoryLeaves
  OBVIOUS
<1>1. SyncInit => SyncInv
  BY SyncersAssumption DEF SyncInit, SyncInv, SyncShape, SyncTyped,
     PublicIsKnown, OthersAtHome, BatchesArePublic, Values, SyncPlaces, Batches,
     Nothing
<1>2. SyncInv /\ [SyncNext]_syncVars => SyncInv'
  <2> SUFFICES ASSUME SyncInv, [SyncNext]_syncVars PROVE SyncInv'
    OBVIOUS
  <2>1. ASSUME NEW v \in {"private", "public"}, Create(v) PROVE SyncInv'
    <3>1. born' \in 1..Len(Home) /\ born' \in Memories
          /\ Home[born'] \in Devices
      BY <2>1, SyncersAssumption DEF Create, SyncInv, SyncShape, Memories
    <3> QED
      BY <2>1, <3>1
      DEF Create, SyncInv, SyncShape, SyncTyped, PublicIsKnown, OthersAtHome,
         BatchesArePublic, Values
  <2>2. ASSUME NEW d \in Devices, NEW m \in Memories, NEW v \in Values,
               ChangeMemory(d, m, v)
        PROVE  SyncInv'
    BY <2>2
    DEF ChangeMemory, SyncInv, SyncShape, SyncTyped, PublicIsKnown, OthersAtHome,
       BatchesArePublic, Values
  <2>3. ASSUME NEW s \in Syncers, NEW p \in Devices, BeginSync(s, p)
        PROVE  SyncInv'
    BY <2>3 DEF BeginSync, SyncInv, SyncShape, SyncTyped, PublicIsKnown,
       OthersAtHome, BatchesArePublic, SyncPlaces, Batches
  <2>4. ASSUME NEW s \in Syncers, Pull(s) PROVE SyncInv'
    <3> DEFINE batch == Shareable(sync[s].peer, 0)
    <3>1. sync[s].peer \in Devices
      BY <2>4, SyncersAssumption DEF Pull, SyncInv, SyncShape, SyncTyped
    <3>2. batch \in Batches
          /\ \A m \in Memories, v \in Values : <<m, v>> \in batch => m \in public
      BY <3>1, ShareableIsPublic DEF Batches
    <3> HIDE DEF batch
    <3>3. UNCHANGED <<store, born, public>> /\ sync[s].at # "idle"
          /\ \E at \in SyncPlaces \ {"idle"} : Move(s, at, batch)
      BY <2>4 DEF Pull, batch, SyncPlaces
    <3>4. SyncTyped' /\ BatchesArePublic'
      BY <3>2, <3>3, MoveTakesBatch, BatchStaysPublic DEF SyncInv, SyncShape
    <3> QED
      BY <3>3, <3>4 DEF SyncInv, SyncShape, PublicIsKnown, OthersAtHome
  <2>5. ASSUME NEW s \in Syncers, Merge(s) PROVE SyncInv'
    <3>1. s[1] \in Devices
      BY <2>5, SyncersAssumption DEF Merge, SyncInv, SyncShape, SyncTyped
    <3>2. MergeInto(s[1], sync[s].batch) /\ UNCHANGED <<born, public>>
          /\ sync[s].at # "idle" /\ {} \in Batches
          /\ \E at \in SyncPlaces \ {"idle"} : Move(s, at, {})
      BY <2>5 DEF Merge, SyncPlaces, Batches
    <3>3. SyncTyped' /\ BatchesArePublic'
      BY <3>2, MoveTakesBatch, BatchStaysPublic DEF SyncInv, SyncShape
    <3>4. store' \in [Devices -> [Memories -> Values]]
          /\ PublicIsKnown' /\ OthersAtHome'
      BY <3>1, <3>2, MergeTakesTheBatch, MergeKeepsPrivate DEF SyncInv
    <3> QED
      BY <3>2, <3>3, <3>4 DEF SyncInv, SyncShape
  <2>6. ASSUME NEW s \in Syncers, Collect(s) PROVE SyncInv'
    <3> DEFINE batch == Shareable(s[1], before[s[1]][sync[s].peer])
    <3>1. s[1] \in Devices
      BY <2>6, SyncersAssumption DEF Collect, SyncInv, SyncShape, SyncTyped
    <3>2. batch \in Batches
          /\ \A m \in Memories, v \in Values : <<m, v>> \in batch => m \in public
      BY <3>1, ShareableIsPublic DEF Batches
    <3> HIDE DEF batch
    <3>3. UNCHANGED <<store, born, public>> /\ sync[s].at # "idle"
          /\ \E at \in SyncPlaces \ {"idle"} : Move(s, at, batch)
      BY <2>6 DEF Collect, batch, SyncPlaces
    <3>4. SyncTyped' /\ BatchesArePublic'
      BY <3>2, <3>3, MoveTakesBatch, BatchStaysPublic DEF SyncInv, SyncShape
    <3> QED
      BY <3>3, <3>4 DEF SyncInv, SyncShape, PublicIsKnown, OthersAtHome
  <2>7. ASSUME NEW s \in Syncers, Push(s) PROVE SyncInv'
    <3>1. sync[s].peer \in Devices
      BY <2>7, SyncersAssumption DEF Push, SyncInv, SyncShape, SyncTyped
    <3>2. MergeInto(sync[s].peer, sync[s].batch) /\ UNCHANGED <<born, public>>
          /\ sync[s].at # "idle" /\ {} \in Batches
          /\ \E at \in SyncPlaces \ {"idle"} : Move(s, at, {})
      BY <2>7 DEF Push, SyncPlaces, Batches
    <3>3. SyncTyped' /\ BatchesArePublic'
      BY <3>2, MoveTakesBatch, BatchStaysPublic DEF SyncInv, SyncShape
    <3>4. store' \in [Devices -> [Memories -> Values]]
          /\ PublicIsKnown' /\ OthersAtHome'
      BY <3>1, <3>2, MergeTakesTheBatch, MergeKeepsPrivate DEF SyncInv
    <3> QED
      BY <3>2, <3>3, <3>4 DEF SyncInv, SyncShape
  <2>8. ASSUME NEW s \in Syncers, SaveSync(s) \/ PeerTimeOut(s) PROVE SyncInv'
    <3>1. Finish(s) /\ UNCHANGED <<store, born, public>>
      BY <2>8 DEF SaveSync, PeerTimeOut
    <3>2. SyncTyped' /\ BatchesArePublic'
      BY <3>1, FinishDropsBatch, BatchStaysPublic DEF SyncInv, SyncShape
    <3> QED
      BY <3>1, <3>2 DEF SyncInv, SyncShape, PublicIsKnown, OthersAtHome
  <2>9. ASSUME NEW s \in Syncers, Lose(s) PROVE SyncInv'
    <3>1. Finish(s) /\ UNCHANGED <<born, public>>
      BY <2>9 DEF Lose
    <3>2. SyncTyped' /\ BatchesArePublic'
      BY <3>1, FinishDropsBatch, BatchStaysPublic DEF SyncInv, SyncShape
    <3>3. CASE UNCHANGED store
      BY <3>1, <3>2, <3>3 DEF SyncInv, SyncShape, PublicIsKnown, OthersAtHome
    <3>4. CASE sync[s].at = "push" /\ MergeInto(sync[s].peer, sync[s].batch)
      <4>1. sync[s].peer \in Devices
        BY <3>4 DEF SyncInv, SyncShape, SyncTyped
      <4>2. store' \in [Devices -> [Memories -> Values]]
            /\ PublicIsKnown' /\ OthersAtHome'
        BY <4>1, <3>1, <3>4, MergeTakesTheBatch, MergeKeepsPrivate DEF SyncInv
      <4> QED
        BY <3>1, <3>2, <4>2 DEF SyncInv, SyncShape
    <3> QED
      BY <2>9, <3>3, <3>4 DEF Lose
  <2>10. CASE UNCHANGED syncVars
    BY <2>10
    DEF syncVars, SyncInv, SyncShape, SyncTyped, PublicIsKnown, OthersAtHome,
       BatchesArePublic
  <2> QED
    BY <2>1, <2>2, <2>3, <2>4, <2>5, <2>6, <2>7, <2>8, <2>9, <2>10
    DEF SyncNext, SyncStep
<1>3. SyncInv => NoPrivateMemoryLeaves
  BY SyncersAssumption DEF SyncInv, OthersAtHome, NoPrivateMemoryLeaves
<1> QED
  BY <1>1, <1>2, <1>3, PTL DEF SyncSpec

-----------------------------------------------------------------------------
(* The live class board.  What is in memory and what is on disk are boards *)
(* whose focus is on a block, on the welcome block or on nothing.          *)
BoardType == [revision : Int, blocks : Seq(Int), focus : Int, updated : Int]
FocusedBoards ==
  {b \in BoardType : b.focus \in Range(b.blocks) \union {NoFocus, Welcome}}

BoardInv == edits \in Nat /\ memory \in FocusedBoards /\ boardFile \in FocusedBoards

(* Whatever board a request publishes, it is counted and saved or not.     *)
LEMMA ChangeKeepsFocus ==
  ASSUME BoardInv, NEW board \in FocusedBoards, ChangeBoard(board)
  PROVE  BoardInv'
<1>1. edits' \in Nat /\ boardFile' \in {memory', boardFile}
  BY DEF ChangeBoard, Counting, Publish, SaveBoard, BoardInv
<1> DEFINE counted == [board EXCEPT !.revision = @ + 1]
<1>2. board \in BoardType /\ memory' = [counted EXCEPT !.updated = edits']
  BY DEF ChangeBoard, FocusedBoards, BoardType
<1>3. /\ memory' \in BoardType
      /\ memory'.blocks = board.blocks /\ memory'.focus = board.focus
  <2>1. counted \in BoardType /\ counted.blocks = board.blocks
        /\ counted.focus = board.focus
    BY <1>2 DEF BoardType
  <2> HIDE DEF counted
  <2> QED
    BY <1>1, <1>2, <2>1 DEF BoardType
<1>4. memory' \in FocusedBoards
  BY <1>3 DEF FocusedBoards
<1> QED
  BY <1>1, <1>4 DEF BoardInv

(* A new block is on the board, also when the oldest one gives way.        *)
LEMMA WithBlockFocused ==
  ASSUME NEW board \in FocusedBoards, NEW b \in Int
  PROVE  WithBlock(board, b) \in FocusedBoards
<1> DEFINE all == Append(board.blocks, b)
           blocks == IF Len(all) > Cap THEN Tail(all) ELSE all
<1>1. all \in Seq(Int) /\ Len(all) = Len(board.blocks) + 1
      /\ Len(board.blocks) \in Nat /\ all[Len(all)] = b
  BY DEF FocusedBoards, BoardType
<1>2. blocks \in Seq(Int) /\ b \in Range(blocks)
  <2>1. CASE Len(all) > Cap
    <3>1. Len(board.blocks) >= 1
      BY <1>1, <2>1, ClassAssumption
    <3> HIDE DEF all
    <3>2. Tail(all) \in Seq(Int) /\ Len(Tail(all)) = Len(all) - 1
          /\ Tail(all)[Len(all) - 1] = all[Len(all)]
      BY <1>1, <3>1
    <3>3. Len(all) - 1 \in DOMAIN Tail(all)
      BY <1>1, <3>1, <3>2
    <3> QED
      BY <1>1, <2>1, <3>2, <3>3 DEF Range
  <2>2. CASE ~ (Len(all) > Cap)
    <3> HIDE DEF all
    <3>1. Len(all) \in DOMAIN all
      BY <1>1
    <3> QED
      BY <1>1, <2>2, <3>1 DEF Range
  <2> HIDE DEF blocks
  <2> QED
    BY <2>1, <2>2
<1> HIDE DEF blocks
<1>3. WithBlock(board, b) = [[board EXCEPT !.blocks = blocks] EXCEPT !.focus = b]
  BY DEF WithBlock, blocks, FocusedBoards, BoardType
<1> QED
  BY <1>2, <1>3 DEF FocusedBoards, BoardType

(* What undo leaves has the focus on its last block.                       *)
LEMMA UndoneFocused ==
  ASSUME NEW board \in FocusedBoards, NEW left,
         left = IF board.blocks = << >> THEN << >> ELSE Front(board.blocks)
  PROVE  [board EXCEPT !.blocks = left,
                       !.focus = IF left = << >> THEN NoFocus ELSE Last(left)]
           \in FocusedBoards
<1>1. left \in Seq(Int)
  BY DEF FocusedBoards, BoardType, Front
<1> DEFINE focus == IF left = << >> THEN NoFocus ELSE Last(left)
<1>2. focus \in Int /\ focus \in Range(left) \union {NoFocus, Welcome}
  BY <1>1 DEF Last, Range, NoFocus
<1> HIDE DEF focus
<1>3. [[board EXCEPT !.blocks = left] EXCEPT !.focus = focus] \in FocusedBoards
  BY <1>1, <1>2 DEF FocusedBoards, BoardType
<1> QED
  BY <1>3 DEF focus, FocusedBoards, BoardType

(* The focus of the board in memory is on one of its blocks, on the        *)
(* welcome block or on nothing, for boards of any size, any number of      *)
(* viewers and any restarts.                                               *)
THEOREM FocusStaysOnBoard == ClassSpec => []FocusOnBoard
<1>1. ClassInit => BoardInv
  BY DEF ClassInit, BoardInv, Default, FocusedBoards, BoardType, Welcome, Range
<1>2. BoardInv /\ [ClassNext]_classVars => BoardInv'
  <2> SUFFICES ASSUME BoardInv, [ClassNext]_classVars PROVE BoardInv'
    OBVIOUS
  <2>1. CASE AddBlock
    <3>1. edits + 1 \in Int /\ memory \in FocusedBoards
      BY DEF BoardInv
    <3> QED
      BY <2>1, <3>1, WithBlockFocused, ChangeKeepsFocus DEF AddBlock
  <2>2. CASE Undo
    <3> DEFINE left == IF memory.blocks = << >> THEN << >> ELSE Front(memory.blocks)
               board == [memory EXCEPT !.blocks = left,
                           !.focus = IF left = << >> THEN NoFocus ELSE Last(left)]
    <3>1. board \in FocusedBoards
      BY UndoneFocused DEF BoardInv
    <3>2. ChangeBoard(board)
      BY <2>2 DEF Undo
    <3> HIDE DEF board
    <3> QED
      BY <3>1, <3>2, ChangeKeepsFocus
  <2>3. CASE ClearBoard
    <3> DEFINE board == [memory EXCEPT !.blocks = << >>, !.focus = NoFocus]
    <3>1. /\ board = [[memory EXCEPT !.blocks = << >>] EXCEPT !.focus = NoFocus]
          /\ memory \in BoardType /\ << >> \in Seq(Int) /\ NoFocus \in Int
      BY DEF BoardInv, FocusedBoards, BoardType, NoFocus
    <3> HIDE DEF board
    <3>2. board \in BoardType /\ board.focus = NoFocus
      BY <3>1 DEF BoardType
    <3>4. board \in FocusedBoards
      BY <3>2 DEF FocusedBoards
    <3>3. ChangeBoard(board)
      BY <2>3 DEF ClearBoard, board
    <3> QED
      BY <3>3, <3>4, ChangeKeepsFocus
  <2>4. CASE EditField
    BY <2>4, ChangeKeepsFocus DEF EditField, BoardInv
  <2>5. CASE Reset
    <3>1. edits' \in Nat /\ Default(edits') \in FocusedBoards
      BY <2>5 DEF Reset, Counting, BoardInv, Default, FocusedBoards, BoardType,
         Welcome, Range
    <3> QED
      BY <2>5, <3>1 DEF Reset, Publish, SaveBoard, BoardInv
  <2>6. CASE Join
    <3>1. edits' \in Nat /\ memory' \in FocusedBoards
      BY SMTT(30), <2>6 DEF Join, Counting, BoardInv, FocusedBoards, BoardType
    <3> QED
      BY <2>6, <3>1 DEF Join, Publish, SaveBoard, BoardInv
  <2>7. ASSUME NEW b \in 0..MaxEdits, FocusOn(b) PROVE BoardInv'
    <3>1. b \in Int /\ b \in Range(memory.blocks) /\ memory \in BoardType
      BY <2>7, ClassAssumption DEF FocusOn, BoardInv, FocusedBoards
    <3> DEFINE board == [memory EXCEPT !.focus = b]
    <3>2. /\ board \in BoardType /\ board.blocks = memory.blocks
          /\ board.focus = b /\ ChangeBoard(board)
      BY <2>7, <3>1 DEF BoardType, FocusOn
    <3> HIDE DEF board
    <3>3. board \in FocusedBoards
      BY <3>1, <3>2 DEF FocusedBoards
    <3> QED
      BY <3>2, <3>3, ChangeKeepsFocus
  <2>8. CASE RestartServer
    <3>1. boardFile \in BoardType /\ Load(boardFile) \in BoardType
          /\ Load(boardFile).blocks = boardFile.blocks
          /\ Load(boardFile).focus \in {boardFile.focus, Welcome}
      BY DEF Load, BoardInv, FocusedBoards, BoardType, Welcome
    <3>2. Load(boardFile) \in FocusedBoards
      BY <3>1 DEF FocusedBoards, BoardInv
    <3> QED
      BY <2>8, <3>2 DEF RestartServer, BoardInv
  <2>9. ASSUME NEW v \in Viewers, Connect(v) \/ Send(v) \/ Disconnect(v)
        PROVE  BoardInv'
    BY <2>9 DEF Connect, Send, Disconnect, BoardInv
  <2>10. CASE UNCHANGED classVars
    BY <2>10 DEF classVars, BoardInv
  <2> QED
    BY <2>1, <2>2, <2>3, <2>4, <2>5, <2>6, <2>7, <2>8, <2>9, <2>10
    DEF ClassNext, Request
<1>3. BoardInv => FocusOnBoard
  BY DEF BoardInv, FocusedBoards, FocusOnBoard
<1> QED
  BY <1>1, <1>2, <1>3, PTL DEF ClassSpec

-----------------------------------------------------------------------------
(* The website chat.  A cached list that still holds the token while the   *)
(* file does not was read before the token was taken out.                  *)
Admissions == {"none", "new", "admitted", "checked", "asking", "reply", "error"}

TokenInv ==
  /\ token \in BOOLEAN /\ revoked \in Nat
  /\ cache \in [age : Nat, valid : BOOLEAN]
  /\ ask \in [Questions -> Admissions]
  /\ (cache.valid /\ cache.age < TokenTTL /\ ~token) => revoked <= cache.age

(* Using the list, or reading it again, keeps this so.                     *)
LEMMA LoadKeepsTokenInv ==
  ASSUME TokenInv, LoadTokens
  PROVE  /\ cache' \in [age : Nat, valid : BOOLEAN]
         /\ (cache'.valid /\ ~token) => (revoked <= cache'.age
                                          /\ cache'.age < TokenTTL)
BY ChatAssumption DEF TokenInv, LoadTokens

(* A token that was taken out of the file lets nobody in once the cached   *)
(* list is too old, however many requests use the list meanwhile.          *)
LEMMA TokenSafety ==
  ChatInit /\ [][ChatNext]_chatVars => RevokedTokenStops
<1>1. ChatInit => TokenInv
  BY ChatAssumption DEF ChatInit, TokenInv, NoCache, Admissions
<1>2. TokenInv /\ [ChatNext]_chatVars => TokenInv'
  <2> SUFFICES ASSUME TokenInv, [ChatNext]_chatVars PROVE TokenInv'
    OBVIOUS
  <2>1. ASSUME NEW q \in Questions, NEW a \in Admissions, Answer(q, a)
        PROVE  ask' \in [Questions -> Admissions]
    BY <2>1 DEF Answer, TokenInv
  <2>2. ASSUME NEW q \in Questions, WithoutAi(q)
        PROVE  ask' \in [Questions -> Admissions]
    BY <2>2 DEF WithoutAi, Answer, TokenInv, Admissions
  <2>3. ASSUME NEW q \in Questions,
               Type(q) \/ Ask(q) \/ ReadConfig(q) \/ Submit(q) \/ TimeOut(q)
                 \/ CallEnds(q)
        PROVE  TokenInv'
    <3>1. UNCHANGED <<token, cache, revoked>>
      BY <2>3 DEF Type, Ask, ReadConfig, Submit, TimeOut, CallEnds, Settings
    <3>2. ask' \in [Questions -> Admissions]
      BY <2>1, <2>2, <2>3 DEF Type, Ask, ReadConfig, Submit, TimeOut, CallEnds,
         Admissions, TokenInv
    <3> QED
      BY <3>1, <3>2 DEF TokenInv
  <2>4. ASSUME NEW q \in Questions, AskByToken(q) PROVE TokenInv'
    <3>1. ask' \in [Questions -> Admissions]
      BY <2>1, <2>4 DEF AskByToken, Admissions, TokenInv
    <3>2. LoadTokens /\ UNCHANGED <<token, revoked>>
      BY <2>4 DEF AskByToken, Settings
    <3> QED
      BY <3>1, <3>2, LoadKeepsTokenInv DEF TokenInv
  <2>5. CASE SubmitForm \/ TakeCall
    BY <2>5 DEF SubmitForm, TakeCall, Settings, TokenInv
  <2>6. CASE ChangeSettings
    <3>1. UNCHANGED <<cache, ask>>
      BY <2>6 DEF ChangeSettings
    <3>2. CASE UNCHANGED <<token, revoked>>
      BY <3>1, <3>2 DEF TokenInv
    <3>3. CASE token' = ~token /\ revoked' = 0
      <4>1. token' \in BOOLEAN
        BY <3>3
      <4> QED
        BY <3>1, <3>3, <4>1 DEF TokenInv
    <3> QED
      BY <2>6, <3>2, <3>3 DEF ChangeSettings
  <2>7. CASE Tick
    <3>1. UNCHANGED <<token, ask>>
      BY <2>7 DEF Tick, Settings
    <3>2. cache' = [cache EXCEPT !.age = IF @ < TokenTTL THEN @ + 1 ELSE @]
          /\ revoked' = IF ~token /\ revoked <= TokenTTL
                        THEN revoked + 1 ELSE revoked
      BY <2>7 DEF Tick
    <3>3. /\ cache' \in [age : Nat, valid : BOOLEAN] /\ revoked' \in Nat
          /\ cache'.valid = cache.valid
          /\ cache'.age = IF cache.age < TokenTTL THEN cache.age + 1 ELSE cache.age
          /\ revoked' <= revoked + 1
      BY <3>2, ChatAssumption DEF TokenInv
    <3> QED
      BY <3>1, <3>3, ChatAssumption DEF TokenInv
  <2>8. CASE UNCHANGED chatVars
    BY <2>8 DEF chatVars, TokenInv
  <2> QED
    BY <2>3, <2>4, <2>5, <2>6, <2>7, <2>8 DEF ChatNext, ThreadStep
<1>3. TokenInv /\ [ChatNext]_chatVars =>
        [\A q \in Questions :
           (ask[q] = "new" /\ ask'[q] = "admitted" /\ ~config.enabled) =>
             token \/ revoked < TokenTTL]_chatVars
  <2> SUFFICES ASSUME TokenInv, ChatNext, NEW q \in Questions, ask[q] = "new",
                      ask'[q] = "admitted", ~config.enabled
               PROVE  token \/ revoked < TokenTTL
    OBVIOUS
  <2>1. CASE AskByToken(q)
    <3>1. cache'.valid /\ LoadTokens
      BY <2>1 DEF AskByToken, Answer, TokenInv
    <3> QED
      BY <3>1, LoadKeepsTokenInv, ChatAssumption DEF TokenInv
  <2>2. CASE ~AskByToken(q)
    <3>1. \A p \in Questions : \A a : Answer(p, a) => ask'[q] = ask[q] \/ p = q
      BY DEF Answer, TokenInv
    <3> QED
      BY <2>2, <3>1
      DEF ChatNext, ThreadStep, Type, Ask, AskByToken, ReadConfig,
         Submit, TimeOut, CallEnds, SubmitForm, TakeCall, ChangeSettings, Tick,
         WithoutAi
  <2> QED
    BY <2>1, <2>2
<1> QED
  BY <1>1, <1>2, <1>3, PTL DEF RevokedTokenStops

(* So it is of the website chat, as its threads and clients are scheduled. *)
THEOREM TokensExpire == ChatSpec => RevokedTokenStops
BY TokenSafety, PTL DEF ChatSpec

-----------------------------------------------------------------------------
(* The wake phrase.                                                        *)

Texts == Seq(DOMAIN Letters)
VoiceInv == said \in Texts /\ command \in Texts /\ speech \in Texts

(* A set of natural numbers has a smallest one.                            *)
LEMMA MinIsIn ==
  ASSUME NEW S \in SUBSET Nat, S # {}
  PROVE  Min(S) \in S /\ \A y \in S : Min(S) <= y
<1>1. PICK x \in S : \A y \in S : ~ (<<y, x>> \in OpToRel(<, Nat))
  BY NatLessThanWellFounded, WFMin
<1>2. ASSUME NEW y \in S PROVE x <= y
  <2>1. x \in Nat /\ y \in Nat /\ <<y, x>> \in Nat \X Nat
    OBVIOUS
  <2>2. ~ (y < x)
    BY <1>1, <2>1 DEF OpToRel
  <2> QED
    BY <2>1, <2>2
<1> QED
  BY <1>2 DEF Min

(* The empty sequence is the one without words.                            *)
LEMMA SomeWords ==
  ASSUME NEW words \in Texts
  PROVE  words # << >> <=> Len(words) \in Nat \ {0}
<1>1. Len(<< >>) = 0 /\ Len(words) \in Nat
  BY DEF Texts
<1>2. Len(words) = 0 => words = << >>
  BY DEF Texts
<1> QED
  BY <1>1, <1>2

(* What is left of an utterance is one, or empty.                          *)
LEMMA FromIsText ==
  ASSUME NEW words \in Texts, NEW i \in Nat \ {0}
  PROVE  From(words, i) \in Texts
BY DEF From, Texts

(* What is routed are the last words, behind a place of the utterance.     *)
LEMMA FromIsSuffix ==
  ASSUME NEW words \in Texts, NEW i \in Nat, From(words, i + 1) # << >>
  PROVE  /\ From(words, i + 1) \in Texts
         /\ i <= Len(words) - 1
         /\ IsSuffix(From(words, i + 1), From(words, i + 1))
<1>1. /\ From(words, i + 1) \in Texts
      /\ i + 1 <= Len(words)
  BY DEF From, Texts
<1> QED
  BY <1>1 DEF IsSuffix, IsPrefix

(* The words of the phrase, found one after another from some place on.    *)
LEMMA PhraseIsBehind ==
  ASSUME NEW words \in Texts, NEW k \in 1..Len(words), Phrase \in Texts,
         Phrase # << >>, IsPrefix(Phrase, From(words, k))
  PROVE  /\ k + Len(Phrase) - 1 \in 1..Len(words)
         /\ ToSet(Phrase) \subseteq
              ToSet(SubSeq(words, 1, k + Len(Phrase) - 1))
<1> DEFINE rest == From(words, k)
           n == Len(Phrase)
<1>1. n \in Nat \ {0} /\ Len(words) \in Nat
  BY DEF Texts
<1>2. /\ rest \in Texts /\ Len(rest) = Len(words) - k + 1
      /\ \A j \in 1..Len(rest) : rest[j] = words[k + j - 1]
  BY DEF From, Texts
<1>3. n <= Len(rest) /\ SubSeq(Phrase, 1, n) = SubSeq(rest, 1, n)
  BY DEF IsPrefix
<1>4. \A j \in 1..n : Phrase[j] = words[k + j - 1]
  <2> SUFFICES ASSUME NEW j \in 1..n PROVE Phrase[j] = words[k + j - 1]
    OBVIOUS
  <2> HIDE DEF rest
  <2>1. SubSeq(Phrase, 1, n)[j] = Phrase[j] /\ SubSeq(rest, 1, n)[j] = rest[j]
    BY <1>1, <1>2, <1>3 DEF Texts
  <2> QED
    BY <1>1, <1>2, <1>3, <2>1
<1>5. k + n - 1 \in 1..Len(words)
  BY <1>1, <1>2, <1>3
<1>6. /\ Len(SubSeq(words, 1, k + n - 1)) = k + n - 1
      /\ \A j \in 1..(k + n - 1) : SubSeq(words, 1, k + n - 1)[j] = words[j]
  BY <1>5 DEF Texts
<1>7. ASSUME NEW x \in ToSet(Phrase)
      PROVE  x \in ToSet(SubSeq(words, 1, k + n - 1))
  <2>1. PICK j \in 1..n : x = Phrase[j]
    BY DEF ToSet, Texts
  <2>2. k + j - 1 \in 1..(k + n - 1) /\ x = words[k + j - 1]
    BY <1>1, <1>4, <2>1
  <2>3. k + j - 1 \in DOMAIN SubSeq(words, 1, k + n - 1)
    BY <1>1, <1>6, <2>2 DEF Texts
  <2> QED
    BY <1>6, <2>2, <2>3 DEF ToSet
<1> QED
  BY <1>5, <1>7

(* Of up to three words, three quarters are all.                           *)
LEMMA NearHoldsAll ==
  ASSUME NEW words \in Texts, Phrase \in Texts, Len(Phrase) \in 1..3,
         Near(words)
  PROVE  LET n == Min({WakeWindow, Len(words)}) IN
         /\ n \in 1..Len(words)
         /\ ToSet(Phrase) \subseteq ToSet(SubSeq(words, 1, n))
<1> DEFINE n == Min({WakeWindow, Len(words)})
           window == ToSet(SubSeq(words, 1, n))
           found == {i \in DOMAIN Phrase : Phrase[i] \in window}
<1>1. WakeWindow \in Nat \ {0} /\ Len(words) \in Nat
  BY DEF WakeWindow, Texts
<1>2. n \in {WakeWindow, Len(words)} /\ n <= Len(words)
  BY <1>1 DEF Min
<1> HIDE DEF n
<1>3. found \in SUBSET (1..Len(Phrase)) /\ DOMAIN Phrase = 1..Len(Phrase)
  BY DEF Texts
<1>4. 4 * Cardinality(found) >= 3 * Len(Phrase)
  BY DEF Near, n
<1> HIDE DEF found
<1>5. /\ IsFiniteSet(1..Len(Phrase)) /\ IsFiniteSet(found)
      /\ Cardinality(1..Len(Phrase)) = Len(Phrase)
      /\ Cardinality(found) <= Len(Phrase)
      /\ Cardinality(found) = Len(Phrase) => found = 1..Len(Phrase)
  <2>1. Len(Phrase) \in Nat \ {0}
    OBVIOUS
  <2>2. /\ IsFiniteSet(1..Len(Phrase))
        /\ Cardinality(1..Len(Phrase)) = Len(Phrase)
    BY <2>1, FS_Interval
  <2> QED
    BY <1>3, <2>2, FS_Subset
<1>6. Cardinality(found) \in Nat
  BY <1>5, FS_CardinalityType
<1>7. found = DOMAIN Phrase
  BY <1>3, <1>4, <1>5, <1>6
<1>8. ToSet(Phrase) \subseteq window
  BY <1>7 DEF found, ToSet
<1>9. n # 0
  <2> SUFFICES ASSUME n = 0 PROVE FALSE
    OBVIOUS
  <2>1. window = {}
    BY DEF ToSet, Texts
  <2>2. 1 \in DOMAIN Phrase
    BY <1>3
  <2>3. Phrase[1] \in ToSet(Phrase)
    BY <2>2 DEF ToSet
  <2> HIDE DEF window
  <2> QED
    BY <1>8, <2>1, <2>3
<1> QED
  BY SMTT(30), <1>1, <1>2, <1>8, <1>9 DEF n

(* What the match leaves of the utterance was said after the phrase.       *)
LEMMA MatchIsBehindPhrase ==
  ASSUME NEW words \in Texts, Phrase \in Texts, Len(Phrase) \in 1..3,
         NEW rest, rest = WakeMatch(words), rest \notin {<< >>, NoMatch}
  PROVE  \E i \in 1..(Len(words) - 1) :
           /\ ToSet(Phrase) \subseteq ToSet(SubSeq(words, 1, i))
           /\ IsSuffix(rest, From(words, i + 1))
<1>1. Phrase # << >> /\ Len(Phrase) \in Nat \ {0} /\ Len(words) \in Nat
  <2>1. Len(Phrase) \in Nat \ {0}
    OBVIOUS
  <2>2. Len(words) \in Nat
    BY DEF Texts
  <2> QED
    BY <2>1, <2>2, SomeWords
<1>2. ASSUME NEW k \in 1..Len(words), IsPrefix(Phrase, From(words, k)),
             rest = From(words, k + Len(Phrase))
      PROVE  \E i \in 1..(Len(words) - 1) :
               /\ ToSet(Phrase) \subseteq ToSet(SubSeq(words, 1, i))
               /\ IsSuffix(rest, From(words, i + 1))
  <2> DEFINE i == k + Len(Phrase) - 1
  <2>1. i \in 1..Len(words) /\ ToSet(Phrase) \subseteq ToSet(SubSeq(words, 1, i))
    BY <1>1, <1>2, PhraseIsBehind
  <2>2. rest = From(words, i + 1)
    BY <1>1, <1>2
  <2> HIDE DEF i
  <2>3. i <= Len(words) - 1 /\ IsSuffix(rest, From(words, i + 1))
    BY <2>1, <2>2, FromIsSuffix
  <2> QED
    BY <1>1, <2>1, <2>3
<1>3. CASE IsPrefix(Phrase, words)
  <2>1. From(words, 1) = words /\ 1 \in 1..Len(words)
    BY <1>1, <1>3 DEF From, Texts, IsPrefix
  <2>2. rest = From(words, 1 + Len(Phrase))
    BY <1>1, <1>3 DEF WakeMatch
  <2> QED
    BY <1>2, <1>3, <2>1, <2>2
<1>4. CASE ~IsPrefix(Phrase, words) /\ Near(words)
  <2> DEFINE n == Min({WakeWindow, Len(words)})
  <2>1. n \in 1..Len(words) /\ ToSet(Phrase) \subseteq ToSet(SubSeq(words, 1, n))
    BY <1>4, NearHoldsAll
  <2>2. rest = From(words, n + 1)
    BY <1>4 DEF WakeMatch
  <2> HIDE DEF n
  <2>3. n <= Len(words) - 1 /\ IsSuffix(rest, From(words, n + 1))
    BY <2>1, <2>2, FromIsSuffix
  <2> QED
    BY <1>1, <2>1, <2>3
<1>5. CASE ~IsPrefix(Phrase, words) /\ ~Near(words)
  <2>1. Starts(words) # {} /\ rest = From(words, Min(Starts(words)) + Len(Phrase))
    BY <1>5 DEF WakeMatch
  <2>2. Starts(words) \in SUBSET Nat
    BY DEF Starts, Texts
  <2>3. Min(Starts(words)) \in Starts(words)
    BY <2>1, <2>2, MinIsIn
  <2>4. /\ Min(Starts(words)) \in 1..Len(words)
        /\ IsPrefix(Phrase, From(words, Min(Starts(words))))
    BY <2>3 DEF Starts, Texts
  <2> QED
    BY <1>2, <2>1, <2>4
<1> QED
  BY <1>3, <1>4, <1>5

(* With a wake phrase of up to three words, whatever is routed while it is *)
(* needed was said after it.  Of a longer one the fuzzy match lets a word  *)
(* be missing.                                                             *)
LEMMA WakeSafety ==
  Len(Phrase) \in 1..3 =>
    (VoiceInit /\ [][VoiceNext]_voiceVars => OnlyWokenCommandsRun)
<1> SUFFICES ASSUME Len(Phrase) \in 1..3
             PROVE  VoiceInit /\ [][VoiceNext]_voiceVars => OnlyWokenCommandsRun
  OBVIOUS
<1>0. Phrase \in Texts /\ Len(Phrase) \in Nat \ {0}
  <2>1. Len(Phrase) \in Nat \ {0}
    OBVIOUS
  <2> QED
    BY <2>1, VoiceAssumption DEF Texts
<1>1. VoiceInit => VoiceInv
  BY DEF VoiceInit, VoiceInv, Texts
<1>2. VoiceInv /\ [VoiceNext]_voiceVars => VoiceInv'
  <2> SUFFICES ASSUME VoiceInv, [VoiceNext]_voiceVars PROVE VoiceInv'
    OBVIOUS
  <2>1. CASE Capture
    <3>1. ASSUME NEW words \in Utterances PROVE words \in Texts
      <4>1. PICK n \in Nat : words \in [1..n -> DOMAIN Letters]
        BY VoiceAssumption DEF Utterances, BoundedSeq, SeqOf
      <4> QED
        BY <4>1 DEF Texts
    <3>2. said' \in Utterances \union {speech} /\ command' = command /\ speech' = speech
      BY <2>1 DEF Capture
    <3>3. said' \in Texts
      BY <3>1, <3>2 DEF VoiceInv
    <3> QED
      BY <3>2, <3>3 DEF VoiceInv
  <2>2. CASE LoopFails \/ SpeechEnds
    <3>1. << >> \in Texts
      BY DEF Texts
    <3> QED
      BY <2>2, <3>1 DEF LoopFails, SpeechEnds, VoiceInv
  <2>3. CASE ProcessVoice
    <3>1. WakeMatch(said) = NoMatch \/ WakeMatch(said) \in Texts
      <4>1. said \in Texts /\ Phrase \in Texts /\ Len(Phrase) \in Nat \ {0}
        BY <1>0 DEF VoiceInv
      <4>2. Len(said) \in Nat
        BY <4>1 DEF Texts
      <4>3. Min({WakeWindow, Len(said)}) + 1 \in Nat \ {0}
        BY <4>1, <4>2 DEF WakeWindow, Min
      <4>4. Starts(said) # {} => Min(Starts(said)) + Len(Phrase) \in Nat \ {0}
        <5>1. Starts(said) \in SUBSET Nat
          BY <4>1 DEF Starts, Texts
        <5> QED
          BY <4>1, <5>1, MinIsIn
      <4> QED
        BY <4>1, <4>3, <4>4, FromIsText DEF WakeMatch
    <3> QED
      BY <2>3, <3>1 DEF ProcessVoice, Ignore, RouteWords, VoiceInv
  <2>4. CASE EndRound
    BY <2>4, VoiceAssumption DEF EndRound, PrintResponse, VoiceInv, Texts
  <2>5. CASE UNCHANGED voiceVars
    BY <2>5 DEF voiceVars, VoiceInv
  <2> QED
    BY <2>1, <2>2, <2>3, <2>4, <2>5 DEF VoiceNext, VoiceStep
<1>3. VoiceInv /\ [VoiceNext]_voiceVars =>
        [(wakeNeeded /\ round' = "routed" /\ round = "heard") =>
           \E i \in 1..(Len(said) - 1) :
             /\ ToSet(Phrase) \subseteq ToSet(SubSeq(said, 1, i))
             /\ command' # << >>
             /\ IsSuffix(command', From(said, i + 1))]_voiceVars
  <2> SUFFICES ASSUME VoiceInv, VoiceNext, wakeNeeded, round' = "routed",
                      round = "heard"
               PROVE  \E i \in 1..(Len(said) - 1) :
                        /\ ToSet(Phrase) \subseteq ToSet(SubSeq(said, 1, i))
                        /\ command' # << >>
                        /\ IsSuffix(command', From(said, i + 1))
    OBVIOUS
  <2>1. ProcessVoice
    BY DEF VoiceNext, VoiceStep, Capture, LoopFails, EndRound, SpeechEnds
  <2>2. Phrase \in Texts /\ Phrase # << >> /\ said \in Texts
    BY <1>0, SomeWords DEF VoiceInv
  <2>3. command' = WakeMatch(said) /\ command' \notin {<< >>, NoMatch}
    BY <2>1, <2>2 DEF ProcessVoice, Ignore, RouteWords
  <2> QED
    BY <2>2, <2>3, MatchIsBehindPhrase
<1> QED
  BY <1>1, <1>2, <1>3, PTL DEF OnlyWokenCommandsRun

(* So it is of the voice loop, whenever it processes what it has heard.    *)
THEOREM WokenOnly ==
  Len(Phrase) \in 1..3 => (VoiceSpec => OnlyWokenCommandsRun)
BY WakeSafety, PTL DEF VoiceSpec

(* And so both are of the services side by side: neither a client with a   *)
(* revoked token nor words said before the wake phrase get through.        *)
THEOREM MeantOnly ==
  Len(Phrase) \in 1..3 => (Spec => OnlyTheMeantIsDone)
<1>1. Init => ChatInit /\ VoiceInit
  BY DEF Init
<1>2. [Next]_vars => [ChatNext]_chatVars
  BY DEF Next, vars, chatVars
<1>3. [Next]_vars => [VoiceNext]_voiceVars
  BY DEF Next, vars, voiceVars
<1> QED
  BY <1>1, <1>2, <1>3, TokenSafety, WakeSafety, PTL
  DEF Spec, OnlyTheMeantIsDone

=============================================================================
