----------------------------- MODULE MCRecords -----------------------------
(* Instance of Records, with the walk over the memory graph: two threads   *)
(* in two processes, memories in a row.                                    *)
EXTENDS Records, GraphWalk, MCConsole, TLC

CONSTANTS t1, t2, p1, p2, m1, m2, m3

(* Two threads in two processes.                                           *)
MCProcessOf == (t1 :> p1) @@ (t2 :> p2)

(* Memories in a row: m2 is like both others, and more like m3.            *)
MCScore == [x, y \in Nodes |->
              CASE {x, y} = {m1, m2} -> 2
                [] {x, y} = {m2, m3} -> 3
                [] OTHER -> 0]
MCLinks == {<<m1, m2>>}

=============================================================================
