------------------------------ MODULE LiveFeed ------------------------------
(***************************************************************************)
(* How others see the HI state: the API's event stream and websockets poll *)
(* it and send what is new, the dashboard's pages read it through a cache. *)
(* Nobody is told of a change, and each feed puts its picture together from*)
(* several readings of state.json, of which the notes and their visibility *)
(* are kept here.                                                          *)
(***************************************************************************)
EXTENDS Integers, FiniteSets

CONSTANTS
  Notes,       \* memories in state.json
  Seed,        \* PUBLIC_MEMORY, shown when there is no memory
  Feeds,       \* connections of browsers
  Pages,       \* dashboard sessions
  CacheTicks,  \* ttl of the dashboard's cache (2.5 s)
  MaxNoteEdits \* bound: changes of the state, lost connections and errors

VARIABLES
  kept,      \* state.json: note -> "absent", "private" or "public"
  feed,      \* connection -> its handler
  seen,      \* feed or page -> what its browser shows
  dashCache, \* get_dashboard_state: the cached result and its age
  noteEdits

feedVars == <<kept, feed, seen, dashCache, noteEdits>>

ASSUME FeedAssumption ==
  /\ IsFiniteSet(Notes) /\ Seed \notin Notes /\ Feeds \intersect Pages = {}
  /\ CacheTicks \in Nat \ {0} /\ MaxNoteEdits \in Nat

Kinds == {"sse", "live", "public"}
States == [Notes -> {"absent", "private", "public"}]
Unreadable == [n \in Notes |-> "absent"]  \* _read_json: an error gives {}

(* get_status counts, get_state lists; enrich_dashboard_state fills an     *)
(* empty memory with the seed, and get_public_state shows what is public.  *)
NotesIn(s) == {n \in Notes : s[n] # "absent"}
Enriched(s) == IF NotesIn(s) = {} THEN {Seed} ELSE NotesIn(s)
PublicNotes(s) ==
  IF NotesIn(s) = {} THEN {Seed} ELSE {n \in Notes : s[n] = "public"}

(* What a builder makes of one reading: how many, and which.               *)
CountOf(kind, s) == IF kind = "public" THEN 0 ELSE Cardinality(NotesIn(s))
ListOf(kind, s) ==
  IF kind = "public" THEN PublicNotes(s)
  ELSE IF kind = "page" THEN Enriched(s) ELSE NotesIn(s)
Picture(kind, s) == [count |-> CountOf(kind, s), notes |-> ListOf(kind, s)]

Pictures == [count : 0..Cardinality(Notes), notes : SUBSET (Notes \union {Seed})]
Blank == [count |-> 0, notes |-> {}]
NoFeed == [kind |-> "public", at |-> "closed", sent |-> FALSE, made |-> Blank]

FeedTypeOK ==
  /\ kept \in States /\ noteEdits \in 0..MaxNoteEdits
  /\ feed \in [Feeds -> [kind : Kinds, at : {"closed", "count", "list", "send"},
                         sent : BOOLEAN, made : Pictures]]
  /\ seen \in [Feeds \union Pages -> Pictures]
  /\ dashCache \in [age : 0..CacheTicks, state : States]

FeedInit ==
  /\ kept \in States /\ feed = [c \in Feeds |-> NoFeed]
  /\ seen = [x \in Feeds \union Pages |-> Blank]
  /\ dashCache = [age |-> CacheTicks, state |-> Unreadable] /\ noteEdits = 0

MoveFeed(c, to) == feed' = [feed EXCEPT ![c].at = to]
CountEdit == noteEdits < MaxNoteEdits /\ noteEdits' = noteEdits + 1

-----------------------------------------------------------------------------
(* The connections.                                                        *)

(* A reading sees the file of now, or fails while the command line's       *)
(* rewrite has emptied it; such failures are counted with the changes.     *)
Reads(s) ==
  \/ s = kept /\ UNCHANGED noteEdits
  \/ s = Unreadable /\ kept # s /\ CountEdit

StartOfRound(kind) == IF kind = "public" THEN "list" ELSE "count"

(* The live socket and the event stream want a token with the scope "read";*)
(* the public socket is open.                                              *)
OpenFeed(c) ==
  /\ feed[c].at = "closed"
  /\ \E kind \in Kinds :
       feed' = [feed EXCEPT ![c] = [NoFeed EXCEPT !.kind = kind,
                                                  !.at = StartOfRound(kind)]]
  /\ UNCHANGED <<kept, seen, dashCache, noteEdits>>

(* get_live: first the status, then the state, each read for itself.       *)
ReadStatus(c) ==
  /\ feed[c].at = "count"
  /\ \E s \in {kept, Unreadable} :
       /\ Reads(s)
       /\ feed' = [feed EXCEPT ![c].at = "list",
                               ![c].made.count = CountOf(feed[c].kind, s)]
  /\ UNCHANGED <<kept, seen, dashCache>>

ReadNotes(c) ==
  /\ feed[c].at = "list"
  /\ \E s \in {kept, Unreadable} :
       /\ Reads(s)
       /\ feed' = [feed EXCEPT ![c].at = "send",
                               ![c].made.notes = ListOf(feed[c].kind, s)]
  /\ UNCHANGED <<kept, seen, dashCache>>

(* Mutant: a picture whose status is the same is taken for the last one.   *)
IsNewByStatus(c) == ~feed[c].sent \/ feed[c].made.count # seen[c].count

(* current_json # last_payload.  The public picture holds the time and so  *)
(* always differs.                                                         *)
IsNew(c) ==
  ~feed[c].sent \/ feed[c].kind = "public" \/ feed[c].made # seen[c]

(* What is new is sent; then the handler sleeps until the next round.      *)
SendPicture(c) ==
  /\ feed[c].at = "send"
  /\ feed' = [feed EXCEPT ![c].at = StartOfRound(feed[c].kind), ![c].sent = TRUE]
  /\ seen' = IF IsNew(c) THEN [seen EXCEPT ![c] = feed[c].made] ELSE seen
  /\ UNCHANGED <<kept, dashCache, noteEdits>>

(* A builder raises: the event stream skips the round, a socket is closed. *)
BuilderFails(c) ==
  /\ feed[c].at \in {"count", "list"} /\ CountEdit
  /\ MoveFeed(c, IF feed[c].kind = "sse" THEN "count" ELSE "closed")
  /\ UNCHANGED <<kept, seen, dashCache>>

(* The browser is gone, or the event stream has run for its time.          *)
EndFeed(c) ==
  /\ feed[c].at # "closed" /\ CountEdit /\ MoveFeed(c, "closed")
  /\ UNCHANGED <<kept, seen, dashCache>>

-----------------------------------------------------------------------------
(* The dashboard, and the state itself.                                    *)

Show(p) == seen' = [seen EXCEPT ![p] = Picture("page", dashCache'.state)]

(* Mutant: each use of the cached result makes it young again.             *)
RenderAndRenew(p) ==
  /\ IF dashCache.age < CacheTicks
     THEN dashCache' = [dashCache EXCEPT !.age = 0] /\ UNCHANGED noteEdits
     ELSE \E s \in {kept, Unreadable} :
            Reads(s) /\ dashCache' = [age |-> 0, state |-> s]
  /\ Show(p) /\ UNCHANGED <<kept, feed>>

(* A page runs, on a click or by its timer.                                *)
Render(p) ==
  /\ IF dashCache.age < CacheTicks
     THEN UNCHANGED <<dashCache, noteEdits>>
     ELSE \E s \in {kept, Unreadable} :
            Reads(s) /\ dashCache' = [age |-> 0, state |-> s]
  /\ Show(p) /\ UNCHANGED <<kept, feed>>

CacheAges ==
  /\ dashCache.age < CacheTicks
  /\ dashCache' = [dashCache EXCEPT !.age = @ + 1]
  /\ UNCHANGED <<kept, feed, seen, noteEdits>>

(* A memory is added, deleted, published or withdrawn; a new state.json    *)
(* takes the place of the old one.                                         *)
EditNote ==
  /\ CountEdit
  /\ \E n \in Notes, to \in {"absent", "private", "public"} :
       to # kept[n] /\ kept' = [kept EXCEPT ![n] = to]
  /\ UNCHANGED <<feed, seen, dashCache>>

FeedStep(c) == ReadStatus(c) \/ ReadNotes(c) \/ SendPicture(c)

FeedNext ==
  \/ \E c \in Feeds :
       OpenFeed(c) \/ FeedStep(c) \/ BuilderFails(c) \/ EndFeed(c)
  \/ \E p \in Pages : Render(p)
  \/ CacheAges \/ EditNote

(* An open connection is served, a page's timer runs it again, time passes.*)
FeedFairness ==
  /\ \A c \in Feeds : WF_feedVars(FeedStep(c))
  /\ \A p \in Pages : WF_feedVars(Render(p))
  /\ WF_feedVars(CacheAges)

FeedSpec == FeedInit /\ [][FeedNext]_feedVars /\ FeedFairness

-----------------------------------------------------------------------------
(* A browser comes to show the state as it is, however the state changes   *)
(* between the readings a picture is made of: a memory that is withdrawn   *)
(* leaves the public page.  Excepted is a connection that ends.            *)
ConnectionsCatchUp ==
  \A c \in Feeds :
    (feed[c].at # "closed" /\ seen[c] # Picture(feed[c].kind, kept)) ~>
      (feed[c].at = "closed" \/ seen[c] = Picture(feed[c].kind, kept))

(* The same of an open dashboard page, whose timer runs it again: what it  *)
(* shows gets too old for the cache, however often pages use it.           *)
PagesCatchUp ==
  \A p \in Pages :
    seen[p] \notin {Blank, Picture("page", kept)} ~>
      seen[p] = Picture("page", kept)

=============================================================================
