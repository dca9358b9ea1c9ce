-------------------------- MODULE GraphWalk_proofs --------------------------
(***************************************************************************)
(* Proofs about the memory graph (MemoryGraph) and the walk over it        *)
(* (GraphWalk), for any number of workers, any finite set of memories, any *)
(* limits and any scores: what no refresh and no retention takes away, and *)
(* that a walk shows what is near, up to its limit and nearest first.      *)
(***************************************************************************)
EXTENDS GraphWalk, FiniteSetTheorems, SequenceTheorems, WellFoundedInduction,
        TLAPS

-----------------------------------------------------------------------------
(* The memory graph.                                                       *)

(* What is about to be deleted is in an archive, and too old.              *)
GraphInv ==
  /\ GraphTypeOK /\ LinksStay /\ ExpiredIsArchived
  /\ \A w \in Writers :
       /\ writer[w].at \in {"archive", "expire"} => writer[w].memory \subseteq Old
       /\ writer[w].at = "expire" => writer[w].memory \subseteq archived

WriterType == [at : {"free", "inserted", "read", "archive", "expire"},
               memory : SUBSET Nodes, near : SUBSET Nodes]

(* Deleting memories takes their links with them.                          *)
LEMMA WithoutKeepsLinks ==
  ASSUME GraphTypeOK, LinksStay, NEW gone, Without(gone)
  PROVE  /\ living' \subseteq Nodes /\ edges' \subseteq Nodes \X Nodes \X Relations
         /\ linked' \subseteq Nodes \X Nodes /\ LinksStay'
<1>1. /\ living' \subseteq Nodes /\ edges' \subseteq Nodes \X Nodes \X Relations
      /\ linked' \subseteq Nodes \X Nodes
  BY DEF Without, GraphTypeOK
<1>2. ASSUME NEW l \in linked' PROVE <<l[1], l[2], "link">> \in edges'
  BY <1>2 DEF Without, LinksStay
<1> QED
  BY <1>1, <1>2 DEF LinksStay

(* A step that changes only what a worker is doing.                        *)
LEMMA WorkerStep ==
  ASSUME GraphInv, NEW w \in Writers, NEW r \in WriterType, Become(w, r),
         UNCHANGED <<living, edges, linked, expired>>,
         archived \subseteq archived', archived' \subseteq Old,
         r.at \in {"archive", "expire"} => r.memory \subseteq Old,
         r.at = "expire" => r.memory \subseteq archived'
  PROVE  GraphInv'
<1>1. /\ writer' \in [Writers -> WriterType] /\ writer'[w] = r
      /\ \A v \in Writers \ {w} : writer'[v] = writer[v]
  BY DEF Become, GraphInv, GraphTypeOK, WriterType
<1>2. GraphTypeOK'
  BY <1>1 DEF GraphInv, GraphTypeOK, WriterType
<1> QED
  BY <1>1, <1>2 DEF GraphInv, LinksStay, ExpiredIsArchived

(* Every step of a process keeps the invariant of the memory graph.        *)
LEMMA GraphInvStep == GraphInv /\ [GraphNext]_graphVars => GraphInv'
<1> SUFFICES ASSUME GraphInv, [GraphNext]_graphVars PROVE GraphInv'
  OBVIOUS
<1>0. Resting \in WriterType /\ Resting.at = "free"
      /\ \A w \in Writers : writer[w] \in WriterType
  BY DEF Resting, WriterType, GraphInv, GraphTypeOK
<1>1. ASSUME NEW w \in Writers, NEW m \in Nodes, Upsert(w, m) PROVE GraphInv'
  <2> DEFINE r == [at |-> "inserted", memory |-> {m}, near |-> {}]
  <2>1. r \in WriterType /\ r.at = "inserted"
    BY DEF WriterType
  <2>2. /\ living' = living \union {m} /\ Become(w, r)
        /\ UNCHANGED <<edges, linked, archived, expired>>
    BY <1>1 DEF Upsert, Retention
  <2> HIDE DEF r
  <2>3. /\ writer' \in [Writers -> WriterType] /\ writer'[w] = r
        /\ \A v \in Writers \ {w} : writer'[v] = writer[v]
    BY <2>1, <2>2 DEF Become, GraphInv, GraphTypeOK, WriterType
  <2>4. GraphTypeOK'
    BY <2>2, <2>3 DEF GraphInv, GraphTypeOK, WriterType
  <2> QED
    BY <2>1, <2>2, <2>3, <2>4 DEF GraphInv, LinksStay, ExpiredIsArchived
<1>2. ASSUME NEW w \in Writers, RefreshReads(w) PROVE GraphInv'
  <2>1. PICK m \in writer[w].memory :
          Become(w, IF m \in living
                    THEN [writer[w] EXCEPT !.at = "read", !.near = NearestOf(m)]
                    ELSE Resting)
    BY <1>2 DEF RefreshReads
  <2>2. NearestOf(m) \in SUBSET Nodes
    BY DEF NearestOf, GraphInv, GraphTypeOK
  <2> DEFINE near == NearestOf(m)
             r == [writer[w] EXCEPT !.at = "read", !.near = near]
  <2>3. r \in WriterType /\ r.at = "read"
    <3> HIDE DEF near
    <3>1. near \in SUBSET Nodes
      BY <2>2 DEF near
    <3> QED
      BY <1>0, <3>1 DEF WriterType
  <2>4. Become(w, r) \/ Become(w, Resting)
    BY <2>1
  <2>5. UNCHANGED <<living, edges, linked, archived, expired>>
    BY <1>2 DEF RefreshReads, Table, Retention
  <2>6. archived' \subseteq Old
    BY <2>5 DEF GraphInv, GraphTypeOK
  <2> HIDE DEF r
  <2> QED
    BY <1>0, <2>3, <2>4, <2>5, <2>6, WorkerStep
<1>3. ASSUME NEW w \in Writers, RefreshWrites(w) PROVE GraphInv'
  <2>1. PICK m \in writer[w].memory :
          edges' = {e \in edges : ~(e[1] = m /\ e[3] = "related")}
                     \union {<<m, x, "related">> : x \in writer[w].near}
                     \union {<<x, m, "related">> : x \in writer[w].near}
    BY <1>3 DEF RefreshWrites
  <2>2. Become(w, Resting) /\ UNCHANGED <<living, linked, archived, expired>>
    BY <1>3 DEF RefreshWrites, Retention
  <2>3. edges' \subseteq Nodes \X Nodes \X Relations
    <3>1. m \in Nodes /\ writer[w].near \subseteq Nodes
      BY <1>0 DEF WriterType
    <3> QED
      BY <2>1, <3>1 DEF GraphInv, GraphTypeOK, Relations
  <2>4. LinksStay'
    <3>1. ASSUME NEW l \in linked PROVE <<l[1], l[2], "link">> \in edges'
      <4>1. <<l[1], l[2], "link">> \in edges
        BY DEF GraphInv, LinksStay
      <4>2. <<l[1], l[2], "link">>[3] = "link"
        OBVIOUS
      <4> QED
        BY <2>1, <4>1, <4>2
    <3> QED
      BY <2>2, <3>1 DEF LinksStay
  <2>5. /\ writer' \in [Writers -> WriterType] /\ writer'[w] = Resting
        /\ \A v \in Writers \ {w} : writer'[v] = writer[v]
    BY <1>0, <2>2 DEF Become, GraphInv, GraphTypeOK, WriterType
  <2>6. GraphTypeOK'
    BY <2>2, <2>3, <2>5 DEF GraphInv, GraphTypeOK, WriterType
  <2> QED
    BY <1>0, <2>2, <2>4, <2>5, <2>6 DEF GraphInv, ExpiredIsArchived
<1>4. ASSUME NEW w \in Writers, NEW s \in Nodes, NEW t \in Nodes, Link(w, s, t)
      PROVE  GraphInv'
  <2>1. PICK r \in Relations :
          /\ edges' = edges \union {<<s, t, r>>}
          /\ linked' = IF r = "link" THEN linked \union {<<s, t>>} ELSE linked
    BY <1>4 DEF Link
  <2>2. UNCHANGED <<living, writer, archived, expired>>
    BY <1>4 DEF Link, Retention
  <2>3. GraphTypeOK'
    BY <2>1, <2>2 DEF GraphInv, GraphTypeOK
  <2>4. ASSUME NEW l \in linked' PROVE <<l[1], l[2], "link">> \in edges'
    <3>1. CASE l \in linked
      BY <2>1, <3>1 DEF GraphInv, LinksStay
    <3>2. CASE r = "link" /\ l = <<s, t>>
      <4>1. l[1] = s /\ l[2] = t
        BY <3>2
      <4> QED
        BY <2>1, <3>2, <4>1
    <3> QED
      BY <2>1, <3>1, <3>2
  <2>5. LinksStay'
    BY <2>4 DEF LinksStay
  <2> QED
    BY <2>2, <2>3, <2>5 DEF GraphInv, ExpiredIsArchived
<1>5. ASSUME NEW w \in Writers, NEW m \in Nodes, DeleteMemory(w, m)
      PROVE  GraphInv'
  <2>1. Without({m}) /\ UNCHANGED <<writer, archived, expired>>
    BY <1>5 DEF DeleteMemory, Retention
  <2> QED
    BY <2>1, WithoutKeepsLinks DEF GraphInv, GraphTypeOK, ExpiredIsArchived
<1>6. ASSUME NEW w \in Writers, CheckRetention(w) PROVE GraphInv'
  <2> DEFINE r == [at |-> "archive", memory |-> Old \intersect living,
                   near |-> {}]
  <2>1. r \in WriterType /\ r.at = "archive" /\ r.memory \subseteq Old
    BY DEF WriterType, GraphInv, GraphTypeOK
  <2>2. Become(w, r) /\ UNCHANGED <<living, edges, linked, archived, expired>>
    BY <1>6 DEF CheckRetention, Table, Retention
  <2>3. archived' \subseteq Old
    BY <2>2 DEF GraphInv, GraphTypeOK
  <2> HIDE DEF r
  <2> QED
    BY <2>1, <2>2, <2>3, WorkerStep
<1>7. ASSUME NEW w \in Writers, FirstStep(w), Archive(w) PROVE GraphInv'
  <2> DEFINE r == [writer[w] EXCEPT !.at = "expire"]
  <2>1. r \in WriterType /\ r.at = "expire" /\ r.memory = writer[w].memory
    BY <1>0 DEF WriterType
  <2>2. /\ Become(w, r) /\ writer[w].at = "archive"
        /\ archived' = archived \union writer[w].memory
        /\ UNCHANGED <<living, edges, linked, expired>>
    BY <1>7 DEF FirstStep, Archive, Table
  <2>3. writer[w].memory \subseteq Old /\ archived' \subseteq Old
    BY <2>2 DEF GraphInv, GraphTypeOK
  <2> HIDE DEF r
  <2> QED
    BY <2>1, <2>2, <2>3, WorkerStep
<1>8. ASSUME NEW w \in Writers, SecondStep(w), Expire(w) PROVE GraphInv'
  <2>1. /\ Become(w, Resting) /\ Without(writer[w].memory)
        /\ expired' = expired \union writer[w].memory /\ archived' = archived
        /\ writer[w].memory \subseteq archived /\ writer[w].memory \subseteq Old
    BY <1>8 DEF SecondStep, Expire, GraphInv
  <2>2. /\ writer' \in [Writers -> WriterType] /\ writer'[w] = Resting
        /\ \A v \in Writers \ {w} : writer'[v] = writer[v]
    BY <1>0, <2>1 DEF Become, GraphInv, GraphTypeOK, WriterType
  <2>3. /\ living' \subseteq Nodes /\ edges' \subseteq Nodes \X Nodes \X Relations
        /\ linked' \subseteq Nodes \X Nodes /\ LinksStay'
    BY <2>1, WithoutKeepsLinks DEF GraphInv
  <2>4. GraphTypeOK'
    BY <2>1, <2>2, <2>3 DEF GraphInv, GraphTypeOK, WriterType
  <2> QED
    BY <1>0, <2>1, <2>2, <2>3, <2>4 DEF GraphInv, ExpiredIsArchived
<1>9. ASSUME NEW w \in Writers, WriterFails(w) PROVE GraphInv'
  <2>1. Become(w, Resting) /\ UNCHANGED <<living, edges, linked, archived, expired>>
    BY <1>9 DEF WriterFails, Table, Retention
  <2>2. archived' \subseteq Old
    BY <2>1 DEF GraphInv, GraphTypeOK
  <2> QED
    BY <1>0, <2>1, <2>2, WorkerStep
<1>10. CASE UNCHANGED graphVars
  BY <1>10 DEF graphVars, GraphInv, GraphTypeOK, LinksStay, ExpiredIsArchived
<1> QED
  BY <1>1, <1>2, <1>3, <1>4, <1>5, <1>6, <1>7, <1>8, <1>9, <1>10
  DEF GraphNext, ArchiveThenExpire

(* Links made by hand stay, and what is deleted for its age is archived,   *)
(* whatever workers refresh, delete and fail meanwhile.                    *)
THEOREM GraphIsKept ==
  GraphSpec => [](GraphTypeOK /\ LinksStay /\ ExpiredIsArchived)
<1>1. GraphInit => GraphInv
  BY DEF GraphInit, GraphInv, GraphTypeOK, LinksStay, ExpiredIsArchived,
     Resting
<1>2. GraphInv => GraphTypeOK /\ LinksStay /\ ExpiredIsArchived
  BY DEF GraphInv
<1> QED
  BY <1>1, <1>2, GraphInvStep, PTL DEF GraphSpec

-----------------------------------------------------------------------------
(* Numbers, and what is done over and over.                                *)

(* A set of numbers has a least one.                                       *)
LEMMA LeastNumber ==
  ASSUME NEW S \in SUBSET Nat, S # {}
  PROVE  \E n \in S : \A k \in S : n <= k
<1>1. PICK n \in S : \A k \in S : ~(<<k, n>> \in OpToRel(<, Nat))
  BY NatLessThanWellFounded, WFMin
<1>2. ASSUME NEW k \in S PROVE n <= k
  <2>1. n \in Nat /\ k \in Nat /\ ~(<<k, n>> \in OpToRel(<, Nat))
    BY <1>1
  <2> QED
    BY <2>1 DEF OpToRel
<1> QED
  BY <1>2

(* A set of numbers with 0 and the next of each that is below n has all up *)
(* to n.                                                                   *)
LEMMA CountingTo ==
  ASSUME NEW n \in Nat, NEW S, 0 \in S,
         \A i \in 0..n : i \in S /\ i < n => i + 1 \in S
  PROVE  0..n \subseteq S
<1> SUFFICES ASSUME (0..n) \ S # {} PROVE FALSE
  OBVIOUS
<1> DEFINE R == (0..n) \ S
<1>0. R \in SUBSET Nat /\ R # {}
  OBVIOUS
<1>1. PICK k \in R : \A i \in R : k <= i
  <2> HIDE DEF R
  <2> QED
    BY <1>0, LeastNumber
<1>2. k # 0 /\ k - 1 \in 0..n /\ k - 1 < n /\ (k - 1) + 1 = k /\ ~(k <= k - 1)
  BY <1>1
<1> QED
  BY <1>1, <1>2

(* What is done n times to a, of a set that it does not lead out of.       *)
IsIteration(f, T, a, step, n) ==
  /\ f \in [0..n -> T] /\ f[0] = a
  /\ \A i \in 1..n : f[i] = step[f[i - 1]]

(* Something can be done any number of times.                              *)
LEMMA Iteration ==
  ASSUME NEW T, NEW a \in T, NEW step \in [T -> T], NEW n \in Nat
  PROVE  \E f : IsIteration(f, T, a, step, n)
<1> DEFINE S == {k \in Nat : \E f : IsIteration(f, T, a, step, k)}
<1>1. 0 \in S
  <2> DEFINE f == [i \in 0..0 |-> a]
  <2>1. IsIteration(f, T, a, step, 0)
    BY DEF IsIteration
  <2> QED
    BY <2>1
<1>2. ASSUME NEW k \in Nat, k \in S PROVE k + 1 \in S
  <2>1. PICK g : IsIteration(g, T, a, step, k)
    BY <1>2
  <2> DEFINE f == [i \in 0..(k + 1) |-> IF i = k + 1 THEN step[g[k]] ELSE g[i]]
  <2>2. k \in 0..k /\ g[k] \in T /\ step[g[k]] \in T
    BY <2>1 DEF IsIteration
  <2>3. \A i \in 0..k : i \in 0..(k + 1) /\ i # k + 1 /\ f[i] = g[i] /\ g[i] \in T
    BY <2>1 DEF IsIteration
  <2>4. f[k + 1] = step[f[k]]
    BY <2>2, <2>3
  <2>5. ASSUME NEW i \in 1..(k + 1) PROVE f[i] = step[f[i - 1]]
    <3>1. CASE i = k + 1
      BY <2>4, <3>1
    <3>2. CASE i # k + 1
      <4>1. i \in 1..k /\ i \in 0..k /\ i - 1 \in 0..k
        BY <3>2
      <4>2. f[i] = g[i] /\ f[i - 1] = g[i - 1]
        BY <2>3, <4>1
      <4>3. g[i] = step[g[i - 1]]
        BY <2>1, <4>1 DEF IsIteration
      <4> QED
        BY <4>2, <4>3
    <3> QED
      BY <3>1, <3>2
  <2>6. f[0] = a
    BY <2>1, <2>3 DEF IsIteration
  <2>7. f \in [0..(k + 1) -> T]
    <3>1. \A i \in 0..(k + 1) : i = k + 1 \/ i \in 0..k
      OBVIOUS
    <3>2. \A i \in 0..(k + 1) : f[i] \in T
      BY <2>2, <2>3, <3>1
    <3> QED
      BY <3>2
  <2> HIDE DEF f
  <2>8. IsIteration(f, T, a, step, k + 1)
    BY <2>5, <2>6, <2>7 DEF IsIteration
  <2> QED
    BY <2>8
<1> HIDE DEF S
<1>3. 0..n \subseteq S
  BY <1>1, <1>2, CountingTo
<1>4. n \in S
  BY <1>3
<1> QED
  BY <1>4 DEF S

-----------------------------------------------------------------------------
(* Connections in the order of their scores.                               *)

(* A score is a number up to the full one.                                 *)
LEMMA StrengthType ==
  ASSUME WalkAssumption, GraphTypeOK, NEW e \in edges
  PROVE  Strength(e) \in 0..FullScore
<1>1. e[1] \in Nodes /\ e[2] \in Nodes /\ <<e[1], e[2]>> \in Nodes \X Nodes
  BY DEF GraphTypeOK
<1>2. Score[<<e[1], e[2]>>] \in 0..FullScore
  BY <1>1 DEF WalkAssumption
<1>3. FullScore \in 0..FullScore
  BY DEF FullScore
<1> QED
  BY <1>2, <1>3, Zenon DEF Strength

(* One of some connections is the strongest.                               *)
LEMMA StrongestIsOne ==
  ASSUME WalkAssumption, GraphTypeOK, NEW rows \in SUBSET edges, rows # {}
  PROVE  Strongest(rows) \in rows
<1> DEFINE S == {FullScore - Strength(e) : e \in rows}
<1>1. \A e \in rows : Strength(e) \in 0..FullScore
  BY StrengthType
<1>2. S \subseteq Nat /\ S # {}
  BY <1>1 DEF FullScore
<1>3. PICK n \in S : \A k \in S : n <= k
  <2> HIDE DEF S
  <2> QED
    BY <1>2, LeastNumber
<1>4. PICK e \in rows : n = FullScore - Strength(e)
  BY <1>3
<1>5. ASSUME NEW f \in rows PROVE Strength(f) <= Strength(e)
  <2>1. FullScore - Strength(e) <= FullScore - Strength(f)
    BY <1>3, <1>4
  <2> QED
    BY <1>1, <2>1 DEF FullScore
<1>6. \E g \in rows : \A f \in rows : Strength(f) <= Strength(g)
  BY <1>5
<1> QED
  BY <1>6 DEF Strongest

(* All connections of a memory can be put into the order of their scores:  *)
(* each is there.                                                          *)
LEMMA ByScoreIsAll ==
  ASSUME WalkAssumption, GraphTypeOK, NEW rows \in SUBSET edges,
         IsFiniteSet(rows)
  PROVE  /\ ByScore(rows) \in Seq(rows)
         /\ Len(ByScore(rows)) = Cardinality(rows)
         /\ \A e \in rows : \E i \in 1..Cardinality(rows) : ByScore(rows)[i] = e
<1> DEFINE n == Cardinality(rows)
           rest[i \in 0..n] ==
             IF i = 0 THEN rows ELSE rest[i - 1] \ {Strongest(rest[i - 1])}
           step == [s \in SUBSET rows |-> s \ {Strongest(s)}]
<1>1. n \in Nat
  BY FS_CardinalityType
<1>2. PICK f : IsIteration(f, SUBSET rows, rows, step, n)
  <2>1. step \in [SUBSET rows -> SUBSET rows] /\ rows \in SUBSET rows
    OBVIOUS
  <2> HIDE DEF step, n
  <2> QED
    BY <1>1, <2>1, Iteration
<1>3. f = [i \in 0..n |-> IF i = 0 THEN rows
                          ELSE f[i - 1] \ {Strongest(f[i - 1])}]
  <2>1. f = [i \in 0..n |-> f[i]] /\ f[0] = rows
    BY <1>2 DEF IsIteration
  <2>2. ASSUME NEW i \in 0..n, i # 0
        PROVE  f[i] = f[i - 1] \ {Strongest(f[i - 1])}
    <3>1. i \in 1..n /\ i - 1 \in 0..n
      BY <1>1, <2>2
    <3>2. f[i - 1] \in SUBSET rows /\ f[i] = step[f[i - 1]]
      BY <1>2, <3>1 DEF IsIteration
    <3> QED
      BY <3>2
  <2> HIDE DEF n
  <2> QED
    BY <2>1, <2>2
<1>4. rest = [i \in 0..n |-> IF i = 0 THEN rows
                             ELSE rest[i - 1] \ {Strongest(rest[i - 1])}]
  BY <1>3
<1>5. ByScore(rows) = [i \in 1..n |-> Strongest(rest[i - 1])]
  BY DEF ByScore
<1> HIDE DEF rest, n
<1> DEFINE S == {i \in 0..n : /\ rest[i] \in SUBSET rows
                              /\ Cardinality(rest[i]) = n - i
                              /\ \A e \in rows \ rest[i] :
                                   \E j \in 1..i : Strongest(rest[j - 1]) = e}
<1>6. 0 \in S
  <2>1. 0 \in 0..n /\ rest[0] = rows
    BY <1>1, <1>4
  <2> QED
    BY <1>1, <2>1 DEF n
<1>7. ASSUME NEW i \in 0..n, i \in S, i < n
      PROVE  /\ i + 1 \in S
             /\ Strongest(rest[i]) \in rows
  <2>1. /\ rest[i] \in SUBSET rows /\ Cardinality(rest[i]) = n - i
        /\ \A e \in rows \ rest[i] : \E j \in 1..i : Strongest(rest[j - 1]) = e
    BY <1>7
  <2>2. IsFiniteSet(rest[i])
    BY <2>1, FS_Subset
  <2>3. rest[i] # {}
    BY <1>1, <1>7, <2>1, FS_EmptySet
  <2>4. Strongest(rest[i]) \in rest[i]
    BY <2>1, <2>3, StrongestIsOne
  <2>5. i + 1 \in 0..n /\ i + 1 # 0 /\ (i + 1) - 1 = i /\ n - (i + 1) = (n - i) - 1
    BY <1>1, <1>7
  <2>6. rest[i + 1] = rest[i] \ {Strongest(rest[i])}
    BY <1>4, <2>5
  <2>7. Cardinality(rest[i + 1]) = n - (i + 1)
    <3>1. ASSUME NEW T, IsFiniteSet(T), NEW x \in T
          PROVE  Cardinality(T \ {x}) = Cardinality(T) - 1
      BY <3>1, FS_RemoveElement
    <3>2. Cardinality(rest[i] \ {Strongest(rest[i])}) = Cardinality(rest[i]) - 1
      BY <2>2, <2>4, <3>1, Zenon
    <3> QED
      BY <2>1, <2>5, <2>6, <3>2
  <2>8. ASSUME NEW e \in rows \ rest[i + 1]
        PROVE  \E j \in 1..(i + 1) : Strongest(rest[j - 1]) = e
    <3>1. CASE e = Strongest(rest[i])
      <4>1. i + 1 \in 1..(i + 1)
        BY <1>1, <1>7
      <4> QED
        BY <2>5, <3>1, <4>1
    <3>2. CASE e # Strongest(rest[i])
      <4>1. PICK j \in 1..i : Strongest(rest[j - 1]) = e
        BY <2>1, <2>6, <2>8, <3>2
      <4>2. j \in 1..(i + 1)
        BY <1>1, <1>7
      <4> QED
        BY <4>1, <4>2
    <3> QED
      BY <3>1, <3>2
  <2>9. rest[i + 1] \in SUBSET rows
    BY <2>1, <2>6
  <2> QED
    BY <2>1, <2>4, <2>5, <2>7, <2>8, <2>9
<1> HIDE DEF S
<1>8. 0..n \subseteq S
  BY <1>1, <1>6, <1>7, CountingTo
<1>9. \A i \in 1..n : i - 1 \in 0..n /\ i - 1 < n
  BY <1>1
<1>10. \A i \in 1..n : Strongest(rest[i - 1]) \in rows
  BY <1>7, <1>8, <1>9
<1>11. \A e \in rows : \E i \in 1..n : Strongest(rest[i - 1]) = e
  <2>1. n \in 0..n /\ n - n = 0
    BY <1>1
  <2>2. /\ rest[n] \in SUBSET rows /\ Cardinality(rest[n]) = 0
        /\ \A e \in rows \ rest[n] : \E j \in 1..n : Strongest(rest[j - 1]) = e
    BY <1>8, <2>1 DEF S
  <2>3. rest[n] = {}
    BY <2>2, FS_Subset, FS_EmptySet
  <2> QED
    BY <2>2, <2>3
<1>12. ByScore(rows) \in Seq(rows) /\ Len(ByScore(rows)) = n
  BY <1>1, <1>5, <1>10, IsASeq, LenProperties
<1>13. \A e \in rows : \E i \in 1..n : ByScore(rows)[i] = e
  BY <1>5, <1>11
<1> QED
  BY <1>12, <1>13 DEF n

(* The smaller of two numbers.                                             *)
LEMMA MinOfTwo ==
  ASSUME NEW i \in Nat, NEW j \in Nat
  PROVE  Min({i, j}) = IF i <= j THEN i ELSE j
BY DEF Min

(* Connections are finitely many.                                          *)
LEMMA EdgesFinite ==
  ASSUME WalkAssumption, GraphTypeOK
  PROVE  IsFiniteSet(edges)
<1> DEFINE T == (Nodes \X Nodes) \X Relations
           f == [e \in edges |-> <<<<e[1], e[2]>>, e[3]>>]
<1>1. IsFiniteSet(Relations)
  <2>1. IsFiniteSet({"related"})
    BY FS_Singleton
  <2>2. Relations = {"related"} \union {"link"}
    BY DEF Relations
  <2> QED
    BY <2>1, <2>2, FS_AddElement
<1>2. IsFiniteSet(T)
  BY <1>1, FS_Product DEF WalkAssumption
<1>3. edges \subseteq Nodes \X Nodes \X Relations
  BY DEF GraphTypeOK
<1>4. f \in [edges -> T]
  BY <1>3
<1>5. ASSUME NEW d \in edges, NEW e \in edges, f[d] = f[e]
      PROVE  d = e
  <2>1. d[1] = e[1] /\ d[2] = e[2] /\ d[3] = e[3]
    BY <1>5
  <2>2. d \in Nodes \X Nodes \X Relations /\ e \in Nodes \X Nodes \X Relations
    BY <1>3
  <2> QED
    BY <2>1, <2>2
<1> HIDE DEF f, T
<1>6. f \in Injection(edges, T)
  BY <1>4, <1>5 DEF Injection, IsInjective
<1> QED
  BY <1>2, <1>6, FS_Injection

EdgesOf(m) == {e \in edges : e[1] = m}

(* Those that are followed begin at the memory.                            *)
LEMMA FollowedAre ==
  ASSUME WalkAssumption, GraphTypeOK, NEW m
  PROVE  /\ IsFiniteSet(EdgesOf(m)) /\ EdgesOf(m) \subseteq edges
         /\ Followed(m) \subseteq EdgesOf(m)
<1> DEFINE rows == ByScore(EdgesOf(m))
<1>1. IsFiniteSet(EdgesOf(m)) /\ EdgesOf(m) \in SUBSET edges
  BY EdgesFinite, FS_Subset DEF EdgesOf
<1>2. rows \in Seq(EdgesOf(m)) /\ Len(rows) \in Nat
  BY <1>1, ByScoreIsAll, LenProperties
<1>3. Followed(m) = {rows[i] : i \in 1..Min({Fan, Len(rows)})}
  BY DEF Followed, EdgesOf
<1> HIDE DEF rows
<1>4. \A i \in 1..Min({Fan, Len(rows)}) : i \in 1..Len(rows)
  BY <1>2, MinOfTwo DEF WalkAssumption
<1>5. \A i \in 1..Len(rows) : rows[i] \in EdgesOf(m)
  BY <1>2, ElementOfSeq
<1> QED
  BY <1>1, <1>3, <1>4, <1>5

-----------------------------------------------------------------------------
(* What is near a memory.                                                  *)

Beside(S) == {x \in living : \E m \in S : \E e \in Followed(m) : e[2] = x}

(* Two that do the same agree as far as both go.                           *)
LEMMA IterationsAgree ==
  ASSUME NEW T, NEW a \in T, NEW step \in [T -> T],
         NEW k \in Nat, NEW n \in Nat, k <= n,
         NEW f, IsIteration(f, T, a, step, k),
         NEW g, IsIteration(g, T, a, step, n)
  PROVE  f[k] = g[k]
<1> DEFINE S == {i \in 0..k : f[i] = g[i]}
<1>1. 0 \in S
  BY DEF IsIteration
<1>2. ASSUME NEW i \in 0..k, i \in S, i < k PROVE i + 1 \in S
  <2>1. i + 1 \in 1..k /\ i + 1 \in 1..n /\ (i + 1) - 1 = i /\ i + 1 \in 0..k
    BY <1>2
  <2>2. f[i + 1] = step[f[i]] /\ g[i + 1] = step[g[i]]
    BY <2>1 DEF IsIteration
  <2> QED
    BY <1>2, <2>1, <2>2
<1> HIDE DEF S
<1>3. 0..k \subseteq S
  BY <1>1, <1>2, CountingTo
<1> QED
  BY <1>3 DEF S

(* What is within n steps is found by going one step further n times.      *)
LEMMA WithinIs ==
  ASSUME WalkAssumption, GraphTypeOK, NEW root, NEW n \in Nat
  PROVE  \E f : /\ IsIteration(f, SUBSET living, {root} \intersect living,
                     [S \in SUBSET living |-> S \union Beside(S)], n)
                /\ Within(root, n) = f[n]
<1> DEFINE a == {root} \intersect living
           step == [S \in SUBSET living |-> S \union Beside(S)]
           reached[k \in 0..n] ==
             IF k = 0 THEN {root} \intersect living
             ELSE reached[k - 1] \union
                  {x \in living : \E m \in reached[k - 1] :
                                    \E e \in Followed(m) : e[2] = x}
<1>1. a \in SUBSET living /\ step \in [SUBSET living -> SUBSET living]
  BY DEF Beside
<1>2. PICK f : IsIteration(f, SUBSET living, a, step, n)
  <2> HIDE DEF a, step
  <2> QED
    BY <1>1, Iteration
<1>3. f = [k \in 0..n |->
             IF k = 0 THEN {root} \intersect living
             ELSE f[k - 1] \union
                  {x \in living : \E m \in f[k - 1] :
                                    \E e \in Followed(m) : e[2] = x}]
  <2>1. f = [k \in 0..n |-> f[k]] /\ f[0] = {root} \intersect living
    BY <1>2 DEF IsIteration
  <2>2. ASSUME NEW k \in 0..n, k # 0
        PROVE  f[k] = f[k - 1] \union
                      {x \in living : \E m \in f[k - 1] :
                                        \E e \in Followed(m) : e[2] = x}
    <3>1. k \in 1..n /\ k - 1 \in 0..n
      BY <2>2
    <3>2. f[k - 1] \in SUBSET living /\ f[k] = step[f[k - 1]]
      BY <1>2, <3>1 DEF IsIteration
    <3> QED
      BY <3>2 DEF Beside
  <2> QED
    BY <2>1, <2>2
<1>4. reached = [k \in 0..n |->
             IF k = 0 THEN {root} \intersect living
             ELSE reached[k - 1] \union
                  {x \in living : \E m \in reached[k - 1] :
                                    \E e \in Followed(m) : e[2] = x}]
  BY <1>3, ZenonT(40)
<1>5. Within(root, n) = reached[n]
  BY DEF Within
<1> HIDE DEF reached
<1>6. IsIteration(reached, SUBSET living, a, step, n)
  <2> DEFINE S == {k \in 0..n : reached[k] \in SUBSET living}
  <2>1. 0 \in S /\ reached[0] = a
    BY <1>4
  <2>2. ASSUME NEW k \in 0..n, k \in S, k < n
        PROVE  k + 1 \in S /\ reached[k + 1] = step[reached[k]]
    <3>1. k + 1 \in 0..n /\ k + 1 # 0 /\ (k + 1) - 1 = k
      BY <2>2
    <3>2. reached[k + 1] = reached[k] \union Beside(reached[k])
      BY <1>4, <3>1 DEF Beside
    <3>3. Beside(reached[k]) \subseteq living
      BY DEF Beside
    <3> QED
      BY <2>2, <3>1, <3>2, <3>3
  <2> HIDE DEF S, a, step
  <2>3. 0..n \subseteq S
    BY <2>1, <2>2, CountingTo
  <2>4. reached \in [0..n -> SUBSET living]
    <3>1. \A k \in 0..n : reached[k] \in SUBSET living
      BY <2>3 DEF S
    <3>2. reached = [k \in 0..n |-> reached[k]]
      BY <1>4
    <3> QED
      BY <3>1, <3>2
  <2>5. \A k \in 1..n : reached[k] = step[reached[k - 1]]
    <3>1. \A k \in 1..n : k - 1 \in 0..n /\ k - 1 < n /\ (k - 1) + 1 = k
      OBVIOUS
    <3> QED
      BY <2>2, <2>3, <3>1
  <2> QED
    BY <2>1, <2>4, <2>5 DEF IsIteration
<1> QED
  BY <1>5, <1>6

(* Nothing but the memory itself, if it is in the table, is within no step.*)
LEMMA WithinNone ==
  ASSUME WalkAssumption, GraphTypeOK, NEW root
  PROVE  Within(root, 0) = {root} \intersect living
<1>1. 0 \in Nat
  OBVIOUS
<1> QED
  BY <1>1, WithinIs DEF IsIteration

(* One step further is what lies beside what is within less.               *)
LEMMA WithinNext ==
  ASSUME WalkAssumption, GraphTypeOK, NEW root, NEW n \in Nat
  PROVE  /\ Within(root, n) \subseteq living
         /\ Within(root, n + 1) = Within(root, n) \union Beside(Within(root, n))
<1> DEFINE T == SUBSET living
           a == {root} \intersect living
           step == [S \in SUBSET living |-> S \union Beside(S)]
<1>1. PICK f : IsIteration(f, T, a, step, n) /\ Within(root, n) = f[n]
  BY WithinIs
<1>2. n + 1 \in Nat /\ n <= n + 1 /\ n \in 0..n /\ n + 1 \in 1..(n + 1)
      /\ (n + 1) - 1 = n
  OBVIOUS
<1>3. PICK g : IsIteration(g, T, a, step, n + 1) /\ Within(root, n + 1) = g[n + 1]
  BY <1>2, WithinIs
<1>4. a \in T /\ step \in [T -> T]
  BY DEF Beside
<1> HIDE DEF T, a, step
<1>5. f[n] = g[n]
  BY <1>1, <1>2, <1>3, <1>4, IterationsAgree
<1>6. f[n] \in T /\ g[n + 1] = step[g[n]]
  BY <1>1, <1>2, <1>3 DEF IsIteration
<1> QED
  BY <1>1, <1>3, <1>5, <1>6 DEF T, step

(* What is within less is within more.                                     *)
LEMMA WithinMore ==
  ASSUME WalkAssumption, GraphTypeOK, NEW root, NEW i \in Nat, NEW n \in Nat,
         i <= n
  PROVE  Within(root, i) \subseteq Within(root, n)
<1> DEFINE S == {j \in Nat : Within(root, i) \subseteq Within(root, i + j)}
<1>1. 0 \in S
  BY i + 0 = i
<1>2. ASSUME NEW j \in Nat, j \in S PROVE j + 1 \in S
  <2>1. i + j \in Nat /\ (i + j) + 1 = i + (j + 1) /\ j + 1 \in Nat
    OBVIOUS
  <2>2. Within(root, i + (j + 1)) = Within(root, i + j) \union Beside(Within(root, i + j))
    BY <2>1, WithinNext
  <2> QED
    BY <1>2, <2>1, <2>2
<1>3. n - i \in Nat /\ n - i \in 0..(n - i) /\ i + (n - i) = n
  OBVIOUS
<1> HIDE DEF S
<1>4. 0..(n - i) \subseteq S
  BY <1>1, <1>2, <1>3, CountingTo
<1> QED
  BY <1>3, <1>4 DEF S

-----------------------------------------------------------------------------
(* One turn of the walk.                                                   *)

WalkType ==
  [queue : Seq(Nodes \X Nat), visited : SUBSET Nodes, nodes : SUBSET Nodes]

(* What a turn does: next is what it puts into the queue.                  *)
Shown(s) == s.queue[1][1] \in living \ s.visited
IsExpansion(s, t, next, depth) ==
  /\ t.visited = s.visited \union {s.queue[1][1]}
  /\ t.nodes = IF Shown(s) THEN s.nodes \union {s.queue[1][1]} ELSE s.nodes
  /\ next \in Seq(Followed(s.queue[1][1])) /\ Len(next) \in Nat
  /\ Len(t.queue) = (Len(s.queue) - 1) + Len(next)
  /\ \A i \in 1..(Len(s.queue) - 1) : t.queue[i] = s.queue[i + 1]
  /\ \A i \in 1..Len(next) :
       t.queue[(Len(s.queue) - 1) + i] = <<next[i][2], s.queue[1][2] + 1>>
  /\ Len(next) <= Cardinality(EdgesOf(s.queue[1][1]))
  /\ ~Shown(s) \/ s.queue[1][2] >= depth => Len(next) = 0
  /\ Shown(s) /\ s.queue[1][2] < depth =>
       \A e \in Followed(s.queue[1][1]) :
         e[2] \in t.visited \/ \E i \in 1..Len(next) : next[i] = e

(* That is what Expand does: it takes the head of the queue and puts the   *)
(* connections of a memory it shows behind all that waits.                 *)
LEMMA ExpandIs ==
  ASSUME WalkAssumption, GraphTypeOK, NEW depth \in Nat,
         NEW s \in WalkType, s.queue # << >>
  PROVE  /\ Expand(s, depth) \in WalkType
         /\ \E next : IsExpansion(s, Expand(s, depth), next, depth)
<1> DEFINE q == s.queue
           m == Head(q)[1]
           at == Head(q)[2]
           seen == s.visited \union {m}
           shown == m \in living \ s.visited
           rows == IF shown /\ ~Deepest(at, depth)
                   THEN {e \in Followed(m) : e[2] \notin seen} ELSE {}
           next == ByScore(rows)
           tail == [i \in 1..Len(next) |-> <<next[i][2], at + 1>>]
           t == Expand(s, depth)
<1>1. q \in Seq(Nodes \X Nat) /\ s.visited \in SUBSET Nodes /\ s.nodes \in SUBSET Nodes
      /\ Len(q) \in Nat /\ Len(q) > 0
  BY EmptySeq, LenProperties DEF WalkType
<1>2. /\ Head(q) = q[1] /\ q[1] \in Nodes \X Nat /\ m \in Nodes /\ at \in Nat
      /\ Tail(q) \in Seq(Nodes \X Nat) /\ Len(Tail(q)) = Len(q) - 1
      /\ \A i \in 1..(Len(q) - 1) : Tail(q)[i] = q[i + 1]
  <2>1. Head(q) = q[1] /\ q[1] \in Nodes \X Nat
    BY <1>1, ElementOfSeq
  <2>2. /\ Tail(q) \in Seq(Nodes \X Nat) /\ Len(Tail(q)) = Len(q) - 1
        /\ \A i \in 1..(Len(q) - 1) : Tail(q)[i] = q[i + 1]
    BY <1>1, HeadTailProperties
  <2> QED
    BY <2>1, <2>2
<1>3. /\ Followed(m) \subseteq EdgesOf(m) /\ EdgesOf(m) \subseteq edges
      /\ IsFiniteSet(EdgesOf(m))
  BY FollowedAre
<1>4. rows \subseteq Followed(m) /\ rows \in SUBSET EdgesOf(m) /\ rows \in SUBSET edges
  BY <1>3
<1>5. IsFiniteSet(rows) /\ Cardinality(rows) <= Cardinality(EdgesOf(m))
      /\ Cardinality(rows) \in Nat
  BY <1>3, <1>4, FS_Subset, FS_CardinalityType
<1>6. /\ next \in Seq(rows) /\ Len(next) = Cardinality(rows)
      /\ \A e \in rows : \E i \in 1..Len(next) : next[i] = e
  <2> HIDE DEF rows
  <2> QED
    BY <1>4, <1>5, ByScoreIsAll
<1>7. next \in Seq(Followed(m))
  <2> HIDE DEF rows, next
  <2> QED
    BY <1>4, <1>6, SeqMonotonic
<1>8. t = [queue |-> Tail(q) \o tail, visited |-> seen,
           nodes |-> IF shown THEN s.nodes \union {m} ELSE s.nodes]
  BY DEF Expand
<1>9. \A e \in Followed(m) : e[2] \in Nodes
  BY <1>3 DEF GraphTypeOK
<1>10. /\ tail \in Seq(Nodes \X Nat) /\ Len(tail) = Len(next)
       /\ \A i \in 1..Len(next) : tail[i] = <<next[i][2], at + 1>>
  <2>1. \A i \in 1..Len(next) : next[i] \in Followed(m)
    <3> HIDE DEF next, rows
    <3> QED
      BY <1>7, ElementOfSeq
  <2>2. Len(next) \in Nat
    BY <1>5, <1>6
  <2> HIDE DEF next, rows
  <2>3. \A i \in 1..Len(next) : <<next[i][2], at + 1>> \in Nodes \X Nat
    BY <1>2, <1>9, <2>1
  <2>4. tail \in Seq(Nodes \X Nat)
    BY <2>2, <2>3, IsASeq
  <2> QED
    BY <2>2, <2>4, LenProperties
<1> HIDE DEF tail, next, rows
<1>11. /\ Tail(q) \o tail \in Seq(Nodes \X Nat)
       /\ Len(Tail(q) \o tail) = (Len(q) - 1) + Len(next)
       /\ \A i \in 1..(Len(q) - 1) : (Tail(q) \o tail)[i] = q[i + 1]
       /\ \A i \in 1..Len(next) :
            (Tail(q) \o tail)[(Len(q) - 1) + i] = <<next[i][2], at + 1>>
  <2>1. Len(next) \in Nat /\ Len(q) - 1 \in Nat
    BY <1>1, <1>5, <1>6
  <2>2. /\ Tail(q) \o tail \in Seq(Nodes \X Nat)
        /\ Len(Tail(q) \o tail) = Len(Tail(q)) + Len(tail)
        /\ \A i \in 1..(Len(Tail(q)) + Len(tail)) : (Tail(q) \o tail)[i] =
             IF i <= Len(Tail(q)) THEN Tail(q)[i] ELSE tail[i - Len(Tail(q))]
    <3>1. Tail(q) \in Seq(Nodes \X Nat) /\ tail \in Seq(Nodes \X Nat)
      BY <1>2, <1>10
    <3> QED
      BY <3>1, ConcatProperties, Zenon
  <2>3. ASSUME NEW i \in 1..(Len(q) - 1) PROVE (Tail(q) \o tail)[i] = q[i + 1]
    BY <1>2, <1>10, <2>1, <2>2, <2>3
  <2>4. ASSUME NEW i \in 1..Len(next)
        PROVE  (Tail(q) \o tail)[(Len(q) - 1) + i] = <<next[i][2], at + 1>>
    <3>1. /\ (Len(q) - 1) + i \in 1..(Len(Tail(q)) + Len(tail))
          /\ ~((Len(q) - 1) + i <= Len(Tail(q)))
          /\ ((Len(q) - 1) + i) - Len(Tail(q)) = i
      BY <1>2, <1>10, <2>1, <2>4
    <3> QED
      BY <1>10, <2>2, <2>4, <3>1
  <2> QED
    BY <1>2, <1>10, <2>2, <2>3, <2>4
<1>12. t \in WalkType
  BY <1>1, <1>2, <1>8, <1>11 DEF WalkType
<1>13. ASSUME ~shown \/ at >= depth PROVE Len(next) = 0
  <2>1. rows = {}
    BY <1>13 DEF rows, Deepest
  <2> QED
    BY <1>6, <2>1, FS_EmptySet
<1>14. ASSUME shown, at < depth, NEW e \in Followed(m)
       PROVE  e[2] \in seen \/ \E i \in 1..Len(next) : next[i] = e
  <2>1. e[2] \notin seen => e \in rows
    BY <1>2, <1>14 DEF rows, Deepest
  <2> QED
    BY <1>6, <2>1
<1>15. IsExpansion(s, t, next, depth)
  <2>1. m = q[1][1] /\ at = q[1][2] /\ (shown <=> Shown(s))
    BY <1>2 DEF Shown
  <2>2. /\ t.visited = seen /\ t.queue = Tail(q) \o tail
        /\ t.nodes = IF shown THEN s.nodes \union {m} ELSE s.nodes
    BY <1>8
  <2>3. Len(next) \in Nat /\ Len(next) <= Cardinality(EdgesOf(m))
    BY <1>5, <1>6
  <2> HIDE DEF m, at, shown, seen, t
  <2> QED
    BY <1>7, <1>11, <1>13, <1>14, <2>1, <2>2, <2>3 DEF IsExpansion, seen
<1> QED
  BY <1>12, <1>15

-----------------------------------------------------------------------------
(* What holds between the turns of a walk.                                 *)

(* Places in the queue, and how far the memory of a place is.              *)
Places(s) == 1..Len(s.queue)
Level(s, i) == s.queue[i][2]

(* A memory was visited, or will be at this level or a nearer one.         *)
Comes(s, x, k) ==
  x \in s.visited \/ \E i \in Places(s) : s.queue[i][1] = x /\ Level(s, i) <= k

(* The queue is in the order of levels, and has two of them at most.       *)
Ordered(s, depth) ==
  \A i, j \in Places(s) :
    /\ Level(s, i) <= depth /\ Level(s, j) <= Level(s, i) + 1
    /\ i <= j => Level(s, i) <= Level(s, j)

(* A memory is not farther than its level says, and those that are shown   *)
(* are no farther than those that wait.                                    *)
Nearby(s, root, depth) ==
  /\ s.nodes \subseteq Within(root, depth)
  /\ \A i \in Places(s) :
       /\ s.nodes \subseteq Within(root, Level(s, i))
       /\ s.queue[i][1] \in living =>
            s.queue[i][1] \in Within(root, Level(s, i))

(* Nothing is forgotten that a memory that is shown leads to.              *)
NothingMissed(s, root, depth) ==
  /\ Comes(s, root, 0)
  /\ \A k \in Nat : \A m \in s.nodes \intersect Within(root, k) :
       \A e \in Followed(m) : k < depth => Comes(s, e[2], k + 1)

WalkInv(s, root, depth, limit) ==
  /\ s \in WalkType
  /\ s.nodes = s.visited \intersect living /\ Cardinality(s.nodes) <= limit
  /\ Ordered(s, depth) /\ Nearby(s, root, depth) /\ NothingMissed(s, root, depth)

(* Places and levels are numbers.                                          *)
LEMMA PlacesType ==
  ASSUME NEW s \in WalkType
  PROVE  /\ Len(s.queue) \in Nat
         /\ \A i \in Places(s) : s.queue[i] \in Nodes \X Nat /\ Level(s, i) \in Nat
<1>1. s.queue \in Seq(Nodes \X Nat)
  BY DEF WalkType
<1>2. \A i \in 1..Len(s.queue) : s.queue[i] \in Nodes \X Nat
  BY <1>1, ElementOfSeq
<1> QED
  BY <1>1, <1>2, LenProperties DEF Places, Level

(* When all that wait are farther, everything near was visited.            *)
LEMMA NearIsVisited ==
  ASSUME WalkAssumption, GraphTypeOK, NEW root \in living, NEW depth \in Nat,
         NEW limit, NEW s, WalkInv(s, root, depth, limit),
         NEW k \in 0..depth, \A i \in Places(s) : Level(s, i) > k
  PROVE  Within(root, k) \subseteq s.nodes
<1>1. /\ s \in WalkType /\ s.nodes = s.visited \intersect living
      /\ NothingMissed(s, root, depth)
  BY DEF WalkInv
<1>2. \A i \in Places(s) : Level(s, i) \in Nat
  BY <1>1, PlacesType
<1>3. ASSUME NEW x, NEW j \in 0..k, Comes(s, x, j) PROVE x \in s.visited
  BY <1>2, <1>3 DEF Comes
<1> DEFINE S == {j \in 0..k : Within(root, j) \subseteq s.nodes}
<1>4. 0 \in S
  BY <1>1, <1>3, WithinNone DEF NothingMissed
<1>5. ASSUME NEW j \in 0..k, j \in S, j < k PROVE j + 1 \in S
  <2>1. j \in Nat /\ j + 1 \in 0..k /\ j < depth
    BY <1>5
  <2>2. ASSUME NEW m \in Within(root, j), NEW e \in Followed(m), e[2] \in living
        PROVE  e[2] \in s.nodes
    <3>1. m \in s.nodes \intersect Within(root, j)
      BY <1>5
    <3>2. Comes(s, e[2], j + 1)
      BY <1>1, <2>1, <3>1 DEF NothingMissed
    <3> QED
      BY <1>1, <1>3, <2>1, <2>2, <3>2
  <2>3. Within(root, j + 1) = Within(root, j) \union Beside(Within(root, j))
    BY <2>1, WithinNext
  <2> QED
    BY <1>5, <2>1, <2>2, <2>3 DEF Beside
<1> HIDE DEF S
<1>6. 0..k \subseteq S
  BY <1>4, <1>5, CountingTo
<1> QED
  BY <1>6 DEF S

(* What waits after a turn waited before it, or is next to the memory whose*)
(* turn it was.                                                            *)
LEMMA WaitsAfter ==
  ASSUME NEW depth \in Nat, NEW s \in WalkType, NEW t \in WalkType, NEW next,
         Len(s.queue) > 0, IsExpansion(s, t, next, depth), NEW j \in Places(t)
  PROVE  \/ j + 1 \in Places(s) /\ t.queue[j] = s.queue[j + 1]
         \/ /\ j >= Len(s.queue) /\ Shown(s) /\ Level(s, 1) < depth
            /\ \E e \in Followed(s.queue[1][1]) :
                 t.queue[j] = <<e[2], Level(s, 1) + 1>>
<1> DEFINE n == Len(s.queue) - 1
<1>1. Len(s.queue) \in Nat /\ n \in Nat /\ 1 \in Places(s) /\ Level(s, 1) \in Nat
  BY PlacesType DEF Places
<1>2. Len(next) \in Nat /\ Len(t.queue) = n + Len(next) /\ j \in 1..(n + Len(next))
  BY DEF IsExpansion, Places
<1>3. CASE j <= n
  <2>1. j \in 1..n /\ j + 1 \in 1..Len(s.queue)
    BY <1>1, <1>2, <1>3
  <2> QED
    BY <2>1 DEF IsExpansion, Places
<1>4. CASE ~(j <= n)
  <2>1. j - n \in 1..Len(next) /\ n + (j - n) = j /\ j >= Len(s.queue)
        /\ Len(next) # 0
    <3>1. ASSUME NEW l \in Nat, NEW d \in Nat, NEW c \in Nat,
                 c = l - 1, j \in 1..(c + d), ~(j <= c)
          PROVE  j - c \in 1..d /\ c + (j - c) = j /\ j >= l /\ d # 0
      BY <3>1
    <3> HIDE DEF n
    <3>2. n = Len(s.queue) - 1
      BY DEF n
    <3> QED
      BY <1>1, <1>2, <1>4, <3>1, <3>2
  <2>2. next[j - n] \in Followed(s.queue[1][1])
    BY <2>1, ElementOfSeq DEF IsExpansion
  <2>3. t.queue[n + (j - n)] = <<next[j - n][2], s.queue[1][2] + 1>>
    BY <2>1 DEF IsExpansion
  <2>4. Shown(s) /\ ~(Level(s, 1) >= depth)
    BY <2>1 DEF IsExpansion, Level
  <2>5. t.queue[j] = <<next[j - n][2], Level(s, 1) + 1>>
    BY <2>1, <2>3 DEF Level
  <2>6. Level(s, 1) < depth
    BY <1>1, <2>4
  <2> HIDE DEF n
  <2> QED
    BY <2>1, <2>2, <2>4, <2>5, <2>6
<1> QED
  BY <1>3, <1>4

(* What comes still comes after a turn.                                    *)
LEMMA StillComes ==
  ASSUME NEW depth \in Nat, NEW s \in WalkType, NEW t \in WalkType, NEW next,
         Len(s.queue) > 0, IsExpansion(s, t, next, depth),
         NEW x, NEW k \in Nat, Comes(s, x, k)
  PROVE  Comes(t, x, k)
<1>1. CASE x \in s.visited
  BY <1>1 DEF IsExpansion, Comes
<1>2. CASE x \notin s.visited
  <2>1. PICK i \in Places(s) : s.queue[i][1] = x /\ Level(s, i) <= k
    BY <1>2 DEF Comes
  <2>2. CASE i = 1
    BY <2>1, <2>2 DEF IsExpansion, Comes
  <2>3. CASE i # 1
    <3>1. /\ i - 1 \in 1..(Len(s.queue) - 1) /\ (i - 1) + 1 = i
          /\ i - 1 \in Places(t)
      <4>1. Len(s.queue) \in Nat /\ Len(next) \in Nat
            /\ Len(t.queue) = (Len(s.queue) - 1) + Len(next)
        BY PlacesType DEF IsExpansion
      <4> QED
        BY <2>3, <4>1 DEF Places
    <3>2. t.queue[i - 1] = s.queue[i]
      BY <3>1 DEF IsExpansion
    <3> QED
      BY <2>1, <3>1, <3>2 DEF Comes, Level
  <2> QED
    BY <2>2, <2>3
<1> QED
  BY <1>1, <1>2

(* The invariant holds when a walk starts.                                 *)
LEMMA StartsRight ==
  ASSUME WalkAssumption, GraphTypeOK, NEW root \in living, NEW depth \in Nat,
         NEW limit \in Nat
  PROVE  WalkInv(AtRoot(root), root, depth, limit)
<1> DEFINE s == AtRoot(root)
<1>1. /\ s.queue = << <<root, 0>> >> /\ s.visited = {} /\ s.nodes = {}
      /\ s = [queue |-> << <<root, 0>> >>, visited |-> {}, nodes |-> {}]
  BY DEF AtRoot
<1>2. root \in Nodes
  BY DEF GraphTypeOK
<1>3. s \in WalkType
  BY <1>1, <1>2 DEF WalkType
<1>4. Places(s) = {1} /\ s.queue[1][1] = root /\ Level(s, 1) = 0
  BY <1>1 DEF Places, Level
<1> HIDE DEF s
<1>5. Cardinality(s.nodes) <= limit /\ s.nodes = s.visited \intersect living
  BY <1>1, FS_EmptySet
<1>6. Ordered(s, depth)
  BY <1>4 DEF Ordered, Level
<1>7. Nearby(s, root, depth)
  <2>1. root \in Within(root, 0)
    BY WithinNone
  <2>2. ASSUME NEW i \in Places(s)
        PROVE  s.queue[i][1] \in Within(root, Level(s, i))
    BY <1>4, <2>1, <2>2
  <2> QED
    BY <1>1, <2>2 DEF Nearby
<1>8. NothingMissed(s, root, depth)
  <2>1. Comes(s, root, 0)
    BY <1>4 DEF Comes
  <2> QED
    BY <1>1, <2>1 DEF NothingMissed
<1> QED
  BY <1>3, <1>5, <1>6, <1>7, <1>8 DEF WalkInv, s

(* A turn keeps it.                                                        *)
LEMMA TurnKeeps ==
  ASSUME WalkAssumption, GraphTypeOK, NEW root \in living, NEW depth \in Nat,
         NEW limit \in Nat, NEW s, WalkInv(s, root, depth, limit),
         ~Ends(s, limit)
  PROVE  WalkInv(Expand(s, depth), root, depth, limit)
<1>1. /\ s \in WalkType /\ s.nodes = s.visited \intersect living
      /\ Ordered(s, depth) /\ Nearby(s, root, depth)
      /\ NothingMissed(s, root, depth)
  BY DEF WalkInv
<1>2. s.queue # << >> /\ ~(Cardinality(s.nodes) >= limit)
  BY DEF Ends
<1>3. PICK t, next : /\ t = Expand(s, depth) /\ t \in WalkType
                     /\ IsExpansion(s, t, next, depth)
  BY <1>1, <1>2, ExpandIs
<1> DEFINE m == s.queue[1][1]
           at == Level(s, 1)
<1>4. /\ Len(s.queue) \in Nat /\ Len(s.queue) > 0 /\ 1 \in Places(s)
      /\ m \in Nodes /\ at \in Nat /\ at <= depth
      /\ \A i \in Places(s) : Level(s, i) \in Nat /\ 1 <= i
  <2>1. s.queue \in Seq(Nodes \X Nat)
    BY <1>1 DEF WalkType
  <2>2. Len(s.queue) \in Nat /\ Len(s.queue) > 0
    BY <1>2, <2>1, EmptySeq, LenProperties
  <2>3. 1 \in Places(s) /\ \A i \in Places(s) : 1 <= i
    BY <2>2 DEF Places
  <2>4. s.queue[1] \in Nodes \X Nat /\ \A i \in Places(s) : Level(s, i) \in Nat
    BY <1>1, <2>3, PlacesType
  <2> QED
    BY <1>1, <2>2, <2>3, <2>4 DEF Ordered
<1>5. /\ t.visited = s.visited \union {m}
      /\ t.nodes = IF Shown(s) THEN s.nodes \union {m} ELSE s.nodes
      /\ Shown(s) <=> m \in living \ s.visited
  BY <1>3 DEF IsExpansion, Shown
<1>6. m \in living => m \in Within(root, at)
  BY <1>1, <1>4 DEF Nearby
<1>7. t.nodes = t.visited \intersect living
  BY <1>1, <1>5
<1>8. Cardinality(t.nodes) <= limit
  <2>1. IsFiniteSet(s.nodes)
    BY <1>1, FS_Subset DEF WalkType, WalkAssumption
  <2>2. /\ Cardinality(s.nodes) \in Nat
        /\ Cardinality(s.nodes \union {m}) =
             IF m \in s.nodes THEN Cardinality(s.nodes) ELSE Cardinality(s.nodes) + 1
    BY <2>1, FS_CardinalityType, FS_AddElement
  <2> QED
    BY <1>2, <1>5, <2>2
<1>9. ASSUME NEW j \in Places(t)
      PROVE  \/ j + 1 \in Places(s) /\ t.queue[j] = s.queue[j + 1]
             \/ /\ j >= Len(s.queue) /\ Shown(s) /\ at < depth
                /\ \E e \in Followed(m) : t.queue[j] = <<e[2], at + 1>>
  BY <1>1, <1>3, <1>4, WaitsAfter
<1>10. ASSUME NEW j \in Places(t)
       PROVE  /\ Level(t, j) \in Nat /\ at <= Level(t, j) /\ Level(t, j) <= at + 1
              /\ Level(t, j) <= depth
  <2>1. CASE j + 1 \in Places(s) /\ t.queue[j] = s.queue[j + 1]
    <3>1. Level(t, j) = Level(s, j + 1)
      BY <2>1 DEF Level
    <3>2. /\ Level(s, j + 1) \in Nat /\ 1 <= j + 1
      BY <1>4, <2>1
    <3>3. /\ at <= Level(s, j + 1) /\ Level(s, j + 1) <= at + 1
          /\ Level(s, j + 1) <= depth
      BY <1>1, <1>4, <2>1, <3>2 DEF Ordered
    <3> QED
      BY <3>1, <3>2, <3>3
  <2>2. CASE at < depth /\ \E e \in Followed(m) : t.queue[j] = <<e[2], at + 1>>
    <3>1. Level(t, j) = at + 1
      BY <2>2 DEF Level
    <3> QED
      BY <1>4, <2>2, <3>1
  <2> QED
    BY <1>9, <2>1, <2>2
<1> HIDE DEF m, at
<1>11. Ordered(t, depth)
  <2>1. ASSUME NEW i \in Places(t), NEW j \in Places(t), i <= j
        PROVE  Level(t, i) <= Level(t, j)
    <3>1. CASE j + 1 \in Places(s) /\ t.queue[j] = s.queue[j + 1]
      <4>1. i \in Nat /\ j \in Nat /\ ~(i >= Len(s.queue))
        BY <1>4, <2>1, <3>1 DEF Places
      <4>2. i + 1 \in Places(s) /\ t.queue[i] = s.queue[i + 1] /\ i + 1 <= j + 1
        BY <1>9, <2>1, <4>1
      <4>3. Level(s, i + 1) <= Level(s, j + 1)
        BY <1>1, <3>1, <4>2 DEF Ordered
      <4> QED
        BY <3>1, <4>2, <4>3 DEF Level
    <3>2. CASE \E e \in Followed(m) : t.queue[j] = <<e[2], at + 1>>
      <4>1. Level(t, j) = at + 1
        BY <3>2 DEF Level
      <4> QED
        BY <1>10, <4>1
    <3> QED
      BY <1>9, <3>1, <3>2
  <2>2. ASSUME NEW i \in Places(t), NEW j \in Places(t)
        PROVE  Level(t, i) <= depth /\ Level(t, j) <= Level(t, i) + 1
    <3>1. /\ Level(t, i) \in Nat /\ at <= Level(t, i) /\ Level(t, i) <= depth
          /\ Level(t, j) \in Nat /\ Level(t, j) <= at + 1
      BY <1>10
    <3> QED
      BY <1>4, <3>1
  <2> QED
    BY <2>1, <2>2 DEF Ordered
<1>12. Nearby(t, root, depth)
  <2>1. s.nodes \subseteq Within(root, at) /\ s.nodes \subseteq Within(root, depth)
    BY <1>1, <1>4 DEF Nearby, at
  <2>2. t.nodes \subseteq Within(root, at)
    BY <1>5, <1>6, <2>1
  <2>3. t.nodes \subseteq Within(root, depth)
    BY <1>4, <2>2, WithinMore
  <2>4. ASSUME NEW j \in Places(t) PROVE t.nodes \subseteq Within(root, Level(t, j))
    <3>1. Within(root, at) \subseteq Within(root, Level(t, j))
      BY <1>4, <1>10, WithinMore
    <3> QED
      BY <2>2, <3>1
  <2>5. ASSUME NEW j \in Places(t), t.queue[j][1] \in living
        PROVE  t.queue[j][1] \in Within(root, Level(t, j))
    <3>1. CASE j + 1 \in Places(s) /\ t.queue[j] = s.queue[j + 1]
      BY <1>1, <2>5, <3>1 DEF Nearby, Level
    <3>2. CASE Shown(s) /\ \E e \in Followed(m) : t.queue[j] = <<e[2], at + 1>>
      <4>1. PICK e \in Followed(m) : t.queue[j] = <<e[2], at + 1>>
        BY <3>2
      <4>2. Level(t, j) = at + 1 /\ t.queue[j][1] = e[2]
        BY <4>1 DEF Level
      <4>3. m \in Within(root, at)
        BY <1>5, <1>6, <3>2
      <4>4. e[2] \in Beside(Within(root, at))
        BY <2>5, <4>2, <4>3 DEF Beside
      <4> QED
        BY <1>4, <4>2, <4>4, WithinNext
    <3> QED
      BY <1>9, <3>1, <3>2
  <2> QED
    BY <2>3, <2>4, <2>5 DEF Nearby
<1>13. NothingMissed(t, root, depth)
  <2>1. ASSUME NEW x, NEW k \in Nat, Comes(s, x, k) PROVE Comes(t, x, k)
    BY <1>1, <1>3, <1>4, <2>1, StillComes
  <2>2. Comes(t, root, 0)
    BY <1>1, <2>1 DEF NothingMissed
  <2>3. ASSUME NEW k \in Nat, NEW x \in t.nodes \intersect Within(root, k),
               NEW e \in Followed(x), k < depth
        PROVE  Comes(t, e[2], k + 1)
    <3>1. CASE x \in s.nodes
      <4>1. Comes(s, e[2], k + 1)
        BY <1>1, <2>3, <3>1 DEF NothingMissed
      <4> QED
        BY <2>1, <4>1
    <3>2. CASE x \notin s.nodes
      <4>1. Shown(s) /\ x = m
        BY <1>5, <2>3, <3>2
      <4>2. at <= k
        <5> SUFFICES ASSUME ~(at <= k) PROVE FALSE
          OBVIOUS
        <5>1. \A i \in Places(s) : Level(s, i) > k
          BY <1>1, <1>4 DEF Ordered, at
        <5>2. k \in 0..depth
          BY <2>3
        <5>3. Within(root, k) \subseteq s.nodes
          BY <5>1, <5>2, NearIsVisited
        <5> QED
          BY <2>3, <3>2, <5>3
      <4>3. at < depth
        BY <1>4, <2>3, <4>2
      <4>4. e[2] \in t.visited \/ \E i \in 1..Len(next) : next[i] = e
        BY <1>3, <4>1, <4>3 DEF IsExpansion, m, at, Level
      <4>5. ASSUME NEW i \in 1..Len(next), next[i] = e PROVE Comes(t, e[2], k + 1)
        <5>1. /\ Len(next) \in Nat
              /\ Len(t.queue) = (Len(s.queue) - 1) + Len(next)
              /\ t.queue[(Len(s.queue) - 1) + i] = <<e[2], at + 1>>
          BY <1>3, <4>5 DEF IsExpansion, at, Level
        <5>2. (Len(s.queue) - 1) + i \in Places(t)
          BY <1>4, <5>1 DEF Places
        <5>3. Level(t, (Len(s.queue) - 1) + i) = at + 1
          BY <5>1 DEF Level
        <5>4. at + 1 <= k + 1
          BY <1>4, <4>2
        <5> QED
          BY <5>1, <5>2, <5>3, <5>4 DEF Comes
      <4> QED
        BY <4>4, <4>5 DEF Comes
    <3> QED
      BY <3>1, <3>2
  <2> QED
    BY <2>2, <2>3 DEF NothingMissed
<1> QED
  BY <1>3, <1>7, <1>8, <1>11, <1>12, <1>13 DEF WalkInv

-----------------------------------------------------------------------------
(* The whole walk.                                                         *)

(* The connections of memories that were not visited.                      *)
Unused(s) == {e \in edges : e[1] \notin s.visited}

(* A turn uses up a place in the queue, and a connection for each that it  *)
(* puts there.                                                             *)
LEMMA TurnUses ==
  ASSUME WalkAssumption, GraphTypeOK, NEW depth \in Nat, NEW s \in WalkType,
         s.queue # << >>
  PROVE  /\ Len(s.queue) \in Nat /\ Cardinality(Unused(s)) \in Nat
         /\ Len(Expand(s, depth).queue) \in Nat
         /\ Cardinality(Unused(Expand(s, depth))) \in Nat
         /\ Len(Expand(s, depth).queue) + Cardinality(Unused(Expand(s, depth)))
              < Len(s.queue) + Cardinality(Unused(s))
<1>1. PICK t, next : /\ t = Expand(s, depth) /\ t \in WalkType
                     /\ IsExpansion(s, t, next, depth)
  BY ExpandIs
<1> DEFINE m == s.queue[1][1]
<1>2. /\ t.visited = s.visited \union {m}
      /\ Len(t.queue) = (Len(s.queue) - 1) + Len(next) /\ Len(next) \in Nat
      /\ Len(next) <= Cardinality(EdgesOf(m))
      /\ ~Shown(s) => Len(next) = 0
      /\ Shown(s) => m \notin s.visited
  BY <1>1 DEF IsExpansion, Shown
<1>3. Len(s.queue) \in Nat /\ Len(t.queue) \in Nat
  BY <1>1, PlacesType
<1> HIDE DEF m
<1>4. IsFiniteSet(Unused(s)) /\ IsFiniteSet(Unused(t)) /\ IsFiniteSet(EdgesOf(m))
  <2>1. Unused(s) \in SUBSET edges /\ Unused(t) \in SUBSET edges
        /\ EdgesOf(m) \in SUBSET edges
    BY DEF Unused, EdgesOf
  <2> QED
    BY <2>1, EdgesFinite, FS_Subset
<1>5. /\ Cardinality(Unused(s)) \in Nat /\ Cardinality(Unused(t)) \in Nat
      /\ Cardinality(EdgesOf(m)) \in Nat
  BY <1>4, FS_CardinalityType
<1>6. CASE Shown(s)
  <2>1. /\ Unused(t) \intersect EdgesOf(m) = {}
        /\ Unused(t) \union EdgesOf(m) = Unused(s)
    BY <1>2, <1>6 DEF Unused, EdgesOf
  <2>2. Cardinality(Unused(s)) =
          Cardinality(Unused(t)) + (Cardinality(EdgesOf(m)) - Cardinality({}))
    <3>1. ASSUME NEW T, NEW U, IsFiniteSet(T), IsFiniteSet(U)
          PROVE  Cardinality(T \union U) =
                   Cardinality(T) + (Cardinality(U) - Cardinality(T \intersect U))
      BY <3>1, FS_Union
    <3> QED
      BY <1>4, <2>1, <3>1, Zenon
  <2>3. Cardinality({}) = 0
    BY FS_EmptySet
  <2> QED
    BY <1>1, <1>2, <1>3, <1>5, <2>2, <2>3
<1>7. CASE ~Shown(s)
  <2>1. Unused(t) \in SUBSET Unused(s)
    BY <1>2 DEF Unused
  <2>2. Cardinality(Unused(t)) <= Cardinality(Unused(s))
    BY <1>4, <2>1, FS_Subset
  <2> QED
    BY <1>1, <1>2, <1>3, <1>5, <1>7, <2>2
<1> QED
  BY <1>6, <1>7

(* The walk is its turns, one after the other.                             *)
LEMMA WalkIs ==
  ASSUME WalkAssumption, GraphTypeOK, NEW root \in living, NEW depth \in Nat,
         NEW limit \in Nat
  PROVE  \E f :
           /\ IsIteration(f, WalkType, AtRoot(root),
                [s \in WalkType |->
                   IF Ends(s, limit) THEN s ELSE Expand(s, depth)], Turns)
           /\ Walk(root, depth, limit) = f[Turns]
           /\ Turns = 1 + Cardinality(edges) /\ Cardinality(edges) \in Nat
<1> DEFINE a == AtRoot(root)
           step == [s \in WalkType |->
                      IF Ends(s, limit) THEN s ELSE Expand(s, depth)]
           turn[n \in 0..Turns] ==
             IF n = 0 THEN AtRoot(root)
             ELSE IF Ends(turn[n - 1], limit) THEN turn[n - 1]
             ELSE Expand(turn[n - 1], depth)
<1>1. Cardinality(edges) \in Nat /\ Turns = 1 + Cardinality(edges) /\ Turns \in Nat
  BY EdgesFinite, FS_CardinalityType DEF Turns
<1>2. a \in WalkType
  BY StartsRight DEF WalkInv
<1>3. step \in [WalkType -> WalkType]
  <2>1. ASSUME NEW s \in WalkType, ~Ends(s, limit)
        PROVE  Expand(s, depth) \in WalkType
    <3>1. s.queue # << >>
      BY <2>1 DEF Ends
    <3> QED
      BY <3>1, ExpandIs
  <2> QED
    BY <2>1
<1>4. PICK f : IsIteration(f, WalkType, a, step, Turns)
  <2> HIDE DEF a, step
  <2> QED
    BY <1>1, <1>2, <1>3, Iteration
<1>5. f = [n \in 0..Turns |->
             IF n = 0 THEN AtRoot(root)
             ELSE IF Ends(f[n - 1], limit) THEN f[n - 1]
             ELSE Expand(f[n - 1], depth)]
  <2>1. f = [n \in 0..Turns |-> f[n]] /\ f[0] = AtRoot(root)
    BY <1>4 DEF IsIteration
  <2>2. ASSUME NEW n \in 0..Turns, n # 0
        PROVE  f[n] = IF Ends(f[n - 1], limit) THEN f[n - 1]
                      ELSE Expand(f[n - 1], depth)
    <3>1. n \in 1..Turns /\ n - 1 \in 0..Turns
      BY <1>1, <2>2
    <3>2. f[n - 1] \in WalkType /\ f[n] = step[f[n - 1]]
      BY <1>4, <3>1 DEF IsIteration
    <3> QED
      BY <3>2
  <2> QED
    BY <2>1, <2>2
<1>6. turn = [n \in 0..Turns |->
                IF n = 0 THEN AtRoot(root)
                ELSE IF Ends(turn[n - 1], limit) THEN turn[n - 1]
                ELSE Expand(turn[n - 1], depth)]
  BY <1>5
<1>7. Walk(root, depth, limit) = turn[Turns]
  BY DEF Walk
<1> HIDE DEF turn
<1>8. IsIteration(turn, WalkType, a, step, Turns)
  <2> DEFINE S == {n \in 0..Turns : turn[n] \in WalkType}
  <2>1. 0 \in S /\ turn[0] = a
    BY <1>1, <1>2, <1>6
  <2>2. ASSUME NEW n \in 0..Turns, n \in S, n < Turns
        PROVE  n + 1 \in S /\ turn[n + 1] = step[turn[n]]
    <3>1. n + 1 \in 0..Turns /\ n + 1 # 0 /\ (n + 1) - 1 = n
      BY <1>1, <2>2
    <3>2. turn[n + 1] = IF Ends(turn[n], limit) THEN turn[n]
                        ELSE Expand(turn[n], depth)
      BY <1>6, <3>1
    <3>3. turn[n + 1] = step[turn[n]]
      BY <2>2, <3>2
    <3>4. step[turn[n]] \in WalkType
      BY <1>3, <2>2
    <3> QED
      BY <3>1, <3>3, <3>4
  <2> HIDE DEF S, a, step
  <2>3. 0..Turns \subseteq S
    BY <1>1, <2>1, <2>2, CountingTo
  <2>4. turn \in [0..Turns -> WalkType]
    <3>1. \A n \in 0..Turns : turn[n] \in WalkType
      BY <2>3 DEF S
    <3>2. turn = [n \in 0..Turns |-> turn[n]]
      BY <1>6
    <3> QED
      BY <3>1, <3>2
  <2>5. \A n \in 1..Turns : turn[n] = step[turn[n - 1]]
    <3>1. \A n \in 1..Turns : n - 1 \in 0..Turns /\ n - 1 < Turns /\ (n - 1) + 1 = n
      BY <1>1
    <3> QED
      BY <2>2, <2>3, <3>1
  <2> QED
    BY <2>1, <2>4, <2>5 DEF IsIteration
<1> QED
  BY <1>1, <1>7, <1>8

(* It ends before its turns are used up, in a state that is right.         *)
THEOREM WalkEnds ==
  ASSUME WalkAssumption, GraphTypeOK, NEW root \in living, NEW depth \in Nat,
         NEW limit \in Nat
  PROVE  /\ Ends(Walk(root, depth, limit), limit)
         /\ WalkInv(Walk(root, depth, limit), root, depth, limit)
<1> DEFINE step == [s \in WalkType |->
                      IF Ends(s, limit) THEN s ELSE Expand(s, depth)]
           c == Cardinality(edges)
<1>1. PICK f : /\ IsIteration(f, WalkType, AtRoot(root), step, Turns)
               /\ Walk(root, depth, limit) = f[Turns]
               /\ Turns = 1 + c /\ c \in Nat
  BY WalkIs
<1> DEFINE S == {n \in 0..Turns :
                   /\ WalkInv(f[n], root, depth, limit)
                   /\ \/ Ends(f[n], limit)
                      \/ (Len(f[n].queue) + Cardinality(Unused(f[n]))) + n <= 1 + c}
<1>2. 0 \in S
  <2>1. f[0] = AtRoot(root) /\ 0 \in 0..Turns
    BY <1>1 DEF IsIteration
  <2>2. WalkInv(f[0], root, depth, limit)
    BY <2>1, StartsRight
  <2>3. f[0].queue = << <<root, 0>> >> /\ f[0].visited = {}
    BY <2>1 DEF AtRoot
  <2>4. Len(f[0].queue) = 1 /\ Unused(f[0]) = edges
    BY <2>3 DEF Unused
  <2>5. (Len(f[0].queue) + Cardinality(Unused(f[0]))) + 0 <= 1 + c
    BY <1>1, <2>4
  <2> HIDE DEF step, c
  <2> QED
    BY <2>1, <2>2, <2>5
<1>3. ASSUME NEW n \in 0..Turns, n \in S, n < Turns PROVE n + 1 \in S
  <2>1. n + 1 \in 1..Turns /\ n + 1 \in 0..Turns /\ (n + 1) - 1 = n
    BY <1>1, <1>3
  <2>2. f[n] \in WalkType /\ f[n + 1] = step[f[n]]
    BY <1>1, <2>1 DEF IsIteration
  <2>3. CASE Ends(f[n], limit)
    BY <1>3, <2>1, <2>2, <2>3
  <2>4. CASE ~Ends(f[n], limit)
    <3>1. f[n + 1] = Expand(f[n], depth) /\ f[n].queue # << >>
      BY <2>2, <2>4 DEF Ends
    <3>2. WalkInv(f[n + 1], root, depth, limit)
      BY <1>3, <2>4, <3>1, TurnKeeps
    <3> DEFINE l == Len(f[n].queue)   k == Len(f[n + 1].queue)
               u == Cardinality(Unused(f[n]))
               v == Cardinality(Unused(f[n + 1]))
    <3>3. l \in Nat /\ k \in Nat /\ u \in Nat /\ v \in Nat /\ k + v < l + u
      BY <2>2, <3>1, TurnUses
    <3>4. (l + u) + n <= 1 + c
      BY <1>3, <2>4
    <3> HIDE DEF l, k, u, v, step, c
    <3>5. (k + v) + (n + 1) <= 1 + c
      BY <1>1, <3>3, <3>4
    <3> QED
      BY <2>1, <3>2, <3>5 DEF k, v
  <2> QED
    BY <2>3, <2>4
<1> HIDE DEF S, step
<1>4. Turns \in Nat /\ Turns \in 0..Turns
  BY <1>1
<1>5. Turns \in S
  BY <1>2, <1>3, <1>4, CountingTo
<1>6. WalkInv(f[Turns], root, depth, limit)
  BY <1>5 DEF S
<1>7. Ends(f[Turns], limit)
  <2> SUFFICES ASSUME ~Ends(f[Turns], limit) PROVE FALSE
    OBVIOUS
  <2>1. f[Turns] \in WalkType
    BY <1>6 DEF WalkInv
  <2> DEFINE s == f[Turns]
  <2>2. /\ s.queue \in Seq(Nodes \X Nat) /\ s.queue # << >>
        /\ Len(s.queue) \in Nat /\ Cardinality(Unused(s)) \in Nat
    BY <2>1, TurnUses, 0 \in Nat DEF WalkType, Ends
  <2>3. Len(s.queue) > 0
    BY <2>2, EmptySeq
  <2>4. (Len(s.queue) + Cardinality(Unused(s))) + Turns <= 1 + c
    BY <1>5 DEF S
  <2> HIDE DEF s, c
  <2> QED
    BY <1>1, <2>2, <2>3, <2>4
<1> QED
  BY <1>1, <1>6, <1>7

(* What a walk shows is what is near, nearest first.                       *)
THEOREM WalkIsNearest ==
  ASSUME WalkAssumption, GraphTypeOK
  PROVE  WalkFindsNearest
<1> SUFFICES ASSUME NEW root \in living, NEW depth \in 1..MaxDepth,
                    NEW limit \in 1..MaxNodes
             PROVE  LET nodes == KnowledgeGraphQuery(root, depth, limit)
                        near == Within(root, depth)
                    IN /\ nodes \subseteq near
                       /\ Cardinality(nodes) = Min({limit, Cardinality(near)})
                       /\ \A n \in 1..depth :
                            nodes \subseteq Within(root, n - 1)
                            \/ Within(root, n - 1) \subseteq nodes
  BY DEF WalkFindsNearest
<1>1. depth \in Nat /\ limit \in Nat /\ limit > 0
  BY DEF WalkAssumption
<1> DEFINE s == Walk(root, depth, limit)
           nodes == s.nodes
           near == Within(root, depth)
<1>2. Ends(s, limit) /\ WalkInv(s, root, depth, limit)
  BY <1>1, WalkEnds
<1> HIDE DEF s
<1>3. /\ s \in WalkType /\ nodes \subseteq near /\ Ordered(s, depth)
      /\ Nearby(s, root, depth) /\ Cardinality(nodes) <= limit
  BY <1>2 DEF WalkInv, Nearby
<1>4. near \subseteq living /\ living \subseteq Nodes
  BY <1>1, WithinNext DEF GraphTypeOK
<1>5. IsFiniteSet(near) /\ IsFiniteSet(nodes)
      /\ Cardinality(near) \in Nat /\ Cardinality(nodes) \in Nat
      /\ Cardinality(nodes) <= Cardinality(near)
  <2>1. IsFiniteSet(near)
    BY <1>4, FS_Subset DEF WalkAssumption
  <2> QED
    BY <1>3, <2>1, FS_Subset, FS_CardinalityType
<1>6. CASE s.queue = << >>
  <2>1. Places(s) = {} /\ depth \in 0..depth
    BY <1>1, <1>6 DEF Places
  <2>2. near \subseteq nodes
    BY <1>1, <1>2, <2>1, NearIsVisited
  <2>3. nodes = near
    BY <1>3, <2>2
  <2>4. Cardinality(nodes) = Min({limit, Cardinality(near)})
    BY <1>1, <1>3, <1>5, <2>3, MinOfTwo
  <2>5. \A n \in 1..depth : Within(root, n - 1) \subseteq nodes
    <3>1. \A n \in 1..depth : n - 1 \in Nat /\ n - 1 <= depth
      BY <1>1
    <3> QED
      BY <1>1, <2>3, <3>1, WithinMore
  <2> QED
    BY <1>3, <2>4, <2>5 DEF KnowledgeGraphQuery, s
<1>7. CASE s.queue # << >>
  <2>1. Cardinality(nodes) = limit
    BY <1>1, <1>2, <1>3, <1>5, <1>7 DEF Ends
  <2>2. Cardinality(nodes) = Min({limit, Cardinality(near)})
    BY <1>1, <1>5, <2>1, MinOfTwo
  <2>3. 1 \in Places(s) /\ Level(s, 1) \in Nat /\ \A i \in Places(s) : 1 <= i
    <3>1. s.queue \in Seq(Nodes \X Nat)
      BY <1>3 DEF WalkType
    <3>2. Len(s.queue) \in Nat /\ Len(s.queue) > 0
      BY <1>7, <3>1, EmptySeq, LenProperties
    <3>3. 1 \in Places(s) /\ \A i \in Places(s) : 1 <= i
      BY <3>2 DEF Places
    <3> QED
      BY <1>3, <3>3, PlacesType
  <2>4. nodes \subseteq Within(root, Level(s, 1))
    BY <1>3, <2>3 DEF Nearby
  <2>5. \A i \in Places(s) : Level(s, i) \in Nat /\ Level(s, 1) <= Level(s, i)
    BY <1>3, <2>3, PlacesType DEF Ordered
  <2>6. ASSUME NEW n \in 1..depth
        PROVE  nodes \subseteq Within(root, n - 1)
               \/ Within(root, n - 1) \subseteq nodes
    <3>1. n - 1 \in Nat /\ n - 1 \in 0..depth
      BY <1>1
    <3>2. CASE Level(s, 1) <= n - 1
      <4>1. Within(root, Level(s, 1)) \subseteq Within(root, n - 1)
        BY <2>3, <3>1, <3>2, WithinMore
      <4> QED
        BY <2>4, <4>1
    <3>3. CASE ~(Level(s, 1) <= n - 1)
      <4>1. \A i \in Places(s) : Level(s, i) > n - 1
        BY <2>3, <2>5, <3>1, <3>3
      <4>2. Within(root, n - 1) \subseteq s.nodes
        BY <1>1, <1>2, <3>1, <4>1, NearIsVisited
      <4> QED
        BY <4>2
    <3> QED
      BY <3>2, <3>3
  <2> QED
    BY <1>3, <2>2, <2>6 DEF KnowledgeGraphQuery, s
<1> QED
  BY <1>6, <1>7

(* So do the walks over a graph that workers refresh, link, delete and     *)
(* expire all the time.                                                    *)
THEOREM GraphWalksNearest == GraphSpec => []WalkFindsNearest
<1>1. GraphTypeOK => WalkFindsNearest
  BY WalkAssumption, WalkIsNearest
<1> QED
  BY <1>1, GraphIsKept, PTL

=============================================================================
