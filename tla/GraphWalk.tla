----------------------------- MODULE GraphWalk -----------------------------
(***************************************************************************)
(* knowledge_graph_query of Kingofyadav/memory_store.py: the walk over the *)
(* connections between memories, in whatever state MemoryGraph's workers   *)
(* have left them.                                                         *)
(***************************************************************************)
EXTENDS MemoryGraph

CONSTANTS
  MaxDepth, MaxNodes, \* limits of a walk
  Fan \* connections of a memory that it follows

FullScore == 10

(* A walk is over a finite table, and a score is a part of the full one.   *)
ASSUME WalkAssumption ==
  /\ IsFiniteSet(Nodes)
  /\ Score \in [Nodes \X Nodes -> 0..FullScore]
  /\ MaxDepth \in Nat /\ MaxNodes \in Nat /\ Fan \in Nat

(* The score of a connection; one made by hand has the full score.         *)
Strength(e) == IF e[3] = "link" THEN FullScore ELSE Score[e[1], e[2]]

(* Connections in the order of their scores, equal ones in any order.      *)
Strongest(rows) == CHOOSE e \in rows : \A f \in rows : Strength(f) <= Strength(e)
ByScore(rows) ==
  LET rest[i \in 0..Cardinality(rows)] ==
        IF i = 0 THEN rows ELSE rest[i - 1] \ {Strongest(rest[i - 1])}
  IN [i \in 1..Cardinality(rows) |-> Strongest(rest[i - 1])]

(* The connections of a memory that are followed: its Fan strongest.       *)
Followed(m) ==
  LET rows == ByScore({e \in edges : e[1] = m})
  IN {rows[i] : i \in 1..Min({Fan, Len(rows)})}

(* Mutant: a node at the full depth is still expanded.                     *)
TooDeep(at, depth) == at > depth
Deepest(at, depth) == at >= depth

(* A walk has a queue of memories and how far they are, the memories it has*)
(* visited, and those it will show.                                        *)
AtRoot(root) == [queue |-> << <<root, 0>> >>, visited |-> {}, nodes |-> {}]
Ends(s, limit) == s.queue = << >> \/ Cardinality(s.nodes) >= limit

(* A turn of its loop: a memory is visited once, one that is not in the    *)
(* table is passed over, and of one that is shown the connections to others*)
(* that were not visited are followed.                                     *)
Expand(s, depth) ==
  LET m == Head(s.queue)[1]
      at == Head(s.queue)[2]
      seen == s.visited \union {m}
      shown == m \in living \ s.visited
      next == ByScore(IF shown /\ ~Deepest(at, depth)
                      THEN {e \in Followed(m) : e[2] \notin seen} ELSE {})
  IN [queue |-> Tail(s.queue) \o
                  [i \in 1..Len(next) |-> <<next[i][2], at + 1>>],
      visited |-> seen,
      nodes |-> IF shown THEN s.nodes \union {m} ELSE s.nodes]

(* The loop.  A connection is queued once at most, which bounds its turns. *)
Turns == 1 + Cardinality(edges)
Walk(root, depth, limit) ==
  LET turn[n \in 0..Turns] ==
        IF n = 0 THEN AtRoot(root)
        ELSE IF Ends(turn[n - 1], limit) THEN turn[n - 1]
        ELSE Expand(turn[n - 1], depth)
  IN turn[Turns]

KnowledgeGraphQuery(root, depth, limit) == Walk(root, depth, limit).nodes

-----------------------------------------------------------------------------
(* Properties.                                                             *)

(* What can be reached from a memory in so many steps, over connections    *)
(* that are followed and memories that are in the table.                   *)
Within(root, n) ==
  LET reached[k \in 0..n] ==
        IF k = 0 THEN {root} \intersect living
        ELSE reached[k - 1] \union
             {x \in living : \E m \in reached[k - 1] :
                               \E e \in Followed(m) : e[2] = x}
  IN reached[n]

(* The walk shows what is within its depth and, where it has to stop at its*)
(* limit, the nearer ones first, also in a graph whose connections lead to *)
(* memories that are gone.                                                 *)
WalkFindsNearest ==
  \A root \in living, depth \in 1..MaxDepth, limit \in 1..MaxNodes :
    LET nodes == KnowledgeGraphQuery(root, depth, limit)
        near == Within(root, depth)
    IN /\ nodes \subseteq near
       /\ Cardinality(nodes) = Min({limit, Cardinality(near)})
       /\ \A n \in 1..depth :
            nodes \subseteq Within(root, n - 1)
            \/ Within(root, n - 1) \subseteq nodes

=============================================================================
