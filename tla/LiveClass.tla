----------------------------- MODULE LiveClass -----------------------------
(***************************************************************************)
(* The live class board of web/api.py: a teacher edits it by POST requests,*)
(* viewers watch it on a websocket each.  A request runs to its end on the *)
(* event loop, so it is one step; a websocket waits for its queue and for  *)
(* every send, and other requests run meanwhile.                           *)
(***************************************************************************)
EXTENDS Integers, Sequences, SequencesExt

CONSTANTS
  Viewers,
  QueueSize, \* messages a websocket may lag behind (32)
  Cap,       \* blocks on the board (80)
  MaxEdits,  \* bound: requests that change the board
  MaxServers \* bound: restarts of the web server

VARIABLES
  memory,    \* _LIVE_CLASS_STATE
  boardFile, \* live class state on disk
  sent,      \* the board of the last broadcast
  watch,     \* what each websocket handler does
  shown,     \* the board each viewer's browser shows
  edits, servers

classVars == <<memory, boardFile, sent, watch, shown, edits, servers>>

ASSUME ClassAssumption ==
  /\ QueueSize \in Nat \ {0} /\ Cap \in Nat \ {0}
  /\ MaxEdits \in Nat /\ MaxServers \in Nat

(* A block is known by its id, the number of the edit that added it; the   *)
(* number of the last edit stands for updatedAt and all other fields.      *)
Welcome == 0
NoFocus == -1
Default(now) ==
  [revision |-> 1, blocks |-> <<Welcome>>, focus |-> Welcome, updated |-> now]

Closed == [at |-> "closed", queue |-> << >>, subscribed |-> FALSE]

Boards == [revision : 1..(MaxEdits + 1), blocks : BoundedSeq(0..MaxEdits, Cap),
           focus : NoFocus..MaxEdits, updated : 0..MaxEdits]

ClassTypeOK ==
  /\ {memory, boardFile, sent} \subseteq Boards
  /\ \A v \in Viewers :
       /\ shown[v] \in Boards
       /\ watch[v].at \in {"closed", "greet", "watch"}
       /\ Range(watch[v].queue) \subseteq Boards
       /\ Len(watch[v].queue) <= QueueSize + 1
       /\ watch[v].at = "closed" => watch[v] = Closed
  /\ edits \in 0..MaxEdits /\ servers \in 0..MaxServers

ClassInit ==
  /\ memory = Default(0) /\ boardFile = memory /\ sent = memory
  /\ watch = [v \in Viewers |-> Closed] /\ shown = [v \in Viewers |-> memory]
  /\ edits = 0 /\ servers = 0

-----------------------------------------------------------------------------
(* Requests.                                                               *)

(* put_nowait: a websocket whose queue is full is no longer subscribed; its*)
(* handler is not told and goes on with what is queued, then with pings.   *)
(* The first message of a queue of a viewer is the greeting, sent on       *)
(* connect; it takes no place in the queue.                                *)
Room(w) == Len(w.queue) < QueueSize + (IF w.at = "greet" THEN 1 ELSE 0)

(* Mutant: what does not fit is dropped and the websocket stays subscribed.*)
BroadcastIfRoom(board) ==
  watch' = [v \in Viewers |->
    IF watch[v].subscribed /\ Room(watch[v])
    THEN [watch[v] EXCEPT !.queue = Append(@, board)] ELSE watch[v]]

Broadcast(board) ==
  watch' = [v \in Viewers |->
    IF ~watch[v].subscribed THEN watch[v]
    ELSE IF Room(watch[v])
         THEN [watch[v] EXCEPT !.queue = Append(@, board)]
         ELSE [watch[v] EXCEPT !.subscribed = FALSE]]

(* _live_class_save_state swallows every error.                            *)
SaveBoard(board) == boardFile' \in {board, boardFile}

Publish(board) ==
  /\ SaveBoard(board) /\ Broadcast(board) /\ sent' = board
  /\ UNCHANGED <<shown, servers>>

Counting == edits < MaxEdits /\ edits' = edits + 1

ChangeBoard(board) ==
  /\ Counting
  /\ memory' = [board EXCEPT !.revision = @ + 1, !.updated = edits']
  /\ Publish(memory')

(* _live_class_add_block: the oldest block gives way.                      *)
WithBlock(board, b) ==
  LET all == Append(board.blocks, b) IN
  [board EXCEPT !.blocks = IF Len(all) > Cap THEN Tail(all) ELSE all,
                !.focus = b]

(* Text, heading, code, list, quote, homework, link, image, divider.       *)
AddBlock == ChangeBoard(WithBlock(memory, edits + 1))

FocusOn(b) ==
  b \in Range(memory.blocks) /\ ChangeBoard([memory EXCEPT !.focus = b])

(* Mutant: undo leaves the focus where it is.                              *)
UndoBlockOnly ==
  ChangeBoard([memory EXCEPT
    !.blocks = IF @ = << >> THEN @ ELSE Front(@)])

Undo ==
  LET left == IF memory.blocks = << >> THEN << >> ELSE Front(memory.blocks) IN
  ChangeBoard([memory EXCEPT !.blocks = left,
                        !.focus = IF left = << >> THEN NoFocus ELSE Last(left)])

ClearBoard == ChangeBoard([memory EXCEPT !.blocks = << >>, !.focus = NoFocus])

(* title, subtitle, teacher, room, status, theme, and an empty block.      *)
EditField == ChangeBoard(memory)

(* The default board is saved and sent out, but it does not replace the    *)
(* board in memory, which the next request works on.                       *)
Reset == Counting /\ Publish(Default(edits')) /\ UNCHANGED memory

(* A learner joins: the list of viewers changes, the revision does not.    *)
Join ==
  /\ Counting
  /\ memory' = [memory EXCEPT !.updated = edits'] /\ Publish(memory')

Request == \/ AddBlock \/ Undo \/ ClearBoard \/ EditField \/ Reset \/ Join
           \/ \E b \in 0..MaxEdits : FocusOn(b)

-----------------------------------------------------------------------------
(* Websockets.                                                             *)

(* Accept, register the queue, read the current board.                     *)
Connect(v) ==
  /\ watch[v].at = "closed"
  /\ watch' = [watch EXCEPT ![v] =
       [at |-> "greet", queue |-> <<memory>>, subscribed |-> TRUE]]
  /\ UNCHANGED <<memory, boardFile, sent, shown, edits, servers>>

Send(v) ==
  /\ watch[v].queue # << >>
  /\ shown' = [shown EXCEPT ![v] = Head(watch[v].queue)]
  /\ watch' = [watch EXCEPT ![v].at = "watch", ![v].queue = Tail(@)]
  /\ UNCHANGED <<memory, boardFile, sent, edits, servers>>

Disconnect(v) ==
  /\ watch[v].at # "closed" /\ watch' = [watch EXCEPT ![v] = Closed]
  /\ UNCHANGED <<memory, boardFile, sent, shown, edits, servers>>

(* The board is loaded again: an empty focus becomes the default one.      *)
Load(board) ==
  [board EXCEPT !.focus = IF @ = NoFocus THEN Welcome ELSE @]

RestartServer ==
  /\ servers < MaxServers /\ servers' = servers + 1
  /\ memory' = Load(boardFile) /\ sent' = memory'
  /\ watch' = [v \in Viewers |-> Closed]
  /\ UNCHANGED <<boardFile, shown, edits>>

ClassNext ==
  \/ Request \/ RestartServer
  \/ \E v \in Viewers : Connect(v) \/ Send(v) \/ Disconnect(v)

(* Messages are sent as long as the viewer is connected.                   *)
ClassFairness == \A v \in Viewers : WF_classVars(Send(v))

ClassSpec == ClassInit /\ [][ClassNext]_classVars /\ ClassFairness

-----------------------------------------------------------------------------
(* Properties.                                                             *)

(* The focus is on a block of the board, whatever is undone, cleared, cut  *)
(* off or loaded again; browsers scroll to it.  Only the welcome block, the*)
(* default focus, may be missing.                                          *)
FocusOnBoard ==
  memory.focus \in Range(memory.blocks) \union {NoFocus, Welcome}

(* A viewer who has connected comes to show the board, whatever happens    *)
(* between registering the queue and the first send.  Excepted are a viewer*)
(* who was dropped for being slow, and a board that was reset: it differs  *)
(* from the one in memory.                                                 *)
BoardsCatchUp ==
  \A v \in Viewers :
    (watch[v].subscribed /\ shown[v] # memory) ~>
      (shown[v] = memory \/ sent # memory \/ ~watch[v].subscribed)

=============================================================================
