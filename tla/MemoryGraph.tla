---------------------------- MODULE MemoryGraph ----------------------------
(***************************************************************************)
(* The graph over Kingofyadav/memory_store.py: connections between         *)
(* memories, computed from their similarity or made by hand, and the       *)
(* retention policy that archives and deletes what is too old; the walk    *)
(* over them is in GraphWalk.  Workers of the HI listener do all of this at*)
(* the same time; the API's threads, which merge the memories of other     *)
(* devices, do what an import does.  Each connection to the database       *)
(* commits by itself: an insert and the refresh of its connections are two *)
(* transactions, and the refresh reads the memories before it begins to    *)
(* write.                                                                  *)
(***************************************************************************)
EXTENDS Integers, Sequences, SequencesExt, FiniteSets, FiniteSetsExt

CONSTANTS
  Writers,      \* workers of the listener
  Nodes,        \* memories
  Score,        \* the similarity of two memories, 0 for none
  RefreshLimit, \* the limit of refresh_connections
  Old,          \* memories past the age of their importance
  Links         \* bound: pairs of memories that are linked by hand

VARIABLES
  living,   \* the table memories
  edges,    \* memory_connections: source, target, relation
  writer,   \* worker -> what it is doing
  archived, \* memories in a file of logs/memory_archive
  expired,  \* memories the retention policy has deleted
  linked    \* links made by hand between memories that were not deleted since

graphVars == <<living, edges, writer, archived, expired, linked>>

Resting == [at |-> "free", memory |-> {}, near |-> {}]
Relations == {"related", "link"}

GraphTypeOK ==
  /\ living \subseteq Nodes
  /\ edges \subseteq Nodes \X Nodes \X Relations
  /\ writer \in [Writers ->
                  [at : {"free", "inserted", "read", "archive", "expire"},
                   memory : SUBSET Nodes, near : SUBSET Nodes]]
  /\ archived \subseteq Old /\ expired \subseteq Old
  /\ linked \subseteq Nodes \X Nodes

GraphInit ==
  /\ living = {} /\ edges = {} /\ writer = [w \in Writers |-> Resting]
  /\ archived = {} /\ expired = {} /\ linked = {}

Table == <<living, edges, linked>>
Retention == <<archived, expired>>
IsFree(w) == writer[w] = Resting
Become(w, r) == writer' = [writer EXCEPT ![w] = r]

-----------------------------------------------------------------------------
(* Memories.                                                               *)

(* upsert_memory, its first transaction: a memory is saved, synced from    *)
(* state.json, imported or merged.  The last two skip what is like a memory*)
(* that was there in an earlier transaction, and insert it or not whatever *)
(* is there now.                                                           *)
Upsert(w, m) ==
  /\ IsFree(w) /\ living' = living \union {m}
  /\ Become(w, [at |-> "inserted", memory |-> {m}, near |-> {}])
  /\ UNCHANGED <<edges, linked, Retention>>

(* The similar memories with the highest scores.                           *)
NearestOf(m) ==
  LET similar == {x \in living \ {m} : Score[m, x] > 0}
  IN {x \in similar :
        LET better == {y \in similar : Score[m, y] > Score[m, x]}
        IN Cardinality(better) < RefreshLimit}

(* refresh_connections reads all memories.  Nothing is done for one that   *)
(* is gone.                                                                *)
RefreshReads(w) ==
  /\ writer[w].at = "inserted"
  /\ \E m \in writer[w].memory :
       Become(w, IF m \in living
                 THEN [writer[w] EXCEPT !.at = "read", !.near = NearestOf(m)]
                 ELSE Resting)
  /\ UNCHANGED <<Table, Retention>>

(* Mutant: the refresh clears every connection of the memory.              *)
RefreshClearsAll(w) ==
  /\ writer[w].at = "read" /\ Become(w, Resting)
  /\ \E m \in writer[w].memory :
       edges' = {e \in edges : e[1] # m}
                \union {<<m, x, "related">> : x \in writer[w].near}
                \union {<<x, m, "related">> : x \in writer[w].near}
  /\ UNCHANGED <<living, linked, Retention>>

(* Its transaction: the computed connections of the memory are replaced,   *)
(* and each gets its mirror.                                               *)
RefreshWrites(w) ==
  /\ writer[w].at = "read" /\ Become(w, Resting)
  /\ \E m \in writer[w].memory :
       edges' = {e \in edges : ~(e[1] = m /\ e[3] = "related")}
                \union {<<m, x, "related">> : x \in writer[w].near}
                \union {<<x, m, "related">> : x \in writer[w].near}
  /\ UNCHANGED <<living, linked, Retention>>

(* add_typed_connection; a link of the relation "related" is like one that *)
(* is computed.                                                            *)
Link(w, s, t) ==
  /\ IsFree(w) /\ <<s, t>> \in Links /\ {s, t} \subseteq living
  /\ \E r \in Relations :
       /\ edges' = edges \union {<<s, t, r>>}
       /\ linked' = IF r = "link" THEN linked \union {<<s, t>>} ELSE linked
  /\ UNCHANGED <<living, writer, Retention>>

Without(gone) ==
  /\ living' = living \ gone
  /\ edges' = {e \in edges : e[1] \notin gone /\ e[2] \notin gone}
  /\ linked' = {e \in linked : e[1] \notin gone /\ e[2] \notin gone}

(* delete_memory.                                                          *)
DeleteMemory(w, m) ==
  /\ IsFree(w) /\ m \in living /\ Without({m})
  /\ UNCHANGED <<writer, Retention>>

-----------------------------------------------------------------------------
(* Retention.                                                              *)

(* apply_retention_policy reads what is too old.  Bound: two runs do not   *)
(* fall into the same second, whose name their archive would share.        *)
CheckRetention(w) ==
  /\ IsFree(w) /\ Old \intersect living # {}
  /\ Become(w, [at |-> "archive", memory |-> Old \intersect living,
                near |-> {}])
  /\ UNCHANGED <<Table, Retention>>

Archive(w) ==
  archived' = archived \union writer[w].memory /\ UNCHANGED <<Table, expired>>
Expire(w) ==
  /\ Without(writer[w].memory) /\ expired' = expired \union writer[w].memory
  /\ UNCHANGED archived
FirstStep(w) ==
  writer[w].at = "archive" /\ Become(w, [writer[w] EXCEPT !.at = "expire"])
SecondStep(w) == writer[w].at = "expire" /\ Become(w, Resting)

(* Mutant: the memories are deleted first, and archived then.              *)
ExpireThenArchive(w) ==
  (FirstStep(w) /\ Expire(w)) \/ (SecondStep(w) /\ Archive(w))

(* They are written to an archive, and deleted in one transaction.         *)
ArchiveThenExpire(w) ==
  (FirstStep(w) /\ Archive(w)) \/ (SecondStep(w) /\ Expire(w))

(* The process is killed, or the database is locked for too long.          *)
WriterFails(w) ==
  ~IsFree(w) /\ Become(w, Resting) /\ UNCHANGED <<Table, Retention>>

GraphNext ==
  \E w \in Writers :
    \/ RefreshReads(w) \/ RefreshWrites(w)
    \/ CheckRetention(w) \/ ArchiveThenExpire(w) \/ WriterFails(w)
    \/ \E m \in Nodes : Upsert(w, m) \/ DeleteMemory(w, m)
    \/ \E s, t \in Nodes : Link(w, s, t)

GraphSpec == GraphInit /\ [][GraphNext]_graphVars

-----------------------------------------------------------------------------
(* Properties.                                                             *)

(* A link made by hand stays while its memories do: no refresh and no      *)
(* other process takes it away.                                            *)
LinksStay == \A l \in linked : <<l[1], l[2], "link">> \in edges

(* What the retention policy has deleted is in an archive, wherever its    *)
(* worker failed.                                                          *)
ExpiredIsArchived == expired \subseteq archived

=============================================================================
