----------------------------- MODULE RowContract -----------------------------
(***************************************************************************)
(* What the SQLite bus promises about the one row that carries a request   *)
(* and then its answer, with no listeners, clocks or statuses of SQL.  A   *)
(* late worker may still turn a finished row from done to dead and back,   *)
(* or write the row anew after it was deleted; but a row is done only by a *)
(* request that was run, deleted only when it is done, and once a request  *)
(* is finished nothing opens it again.  RequestContract is what the        *)
(* directories of the filesystem bus promise instead.                      *)
(***************************************************************************)
EXTENDS Naturals

CONSTANT Requests

VARIABLES status, runs

vars == <<status, runs>>

Init ==
  /\ status = [r \in Requests |-> "new"]
  /\ runs = [r \in Requests |-> 0]

Become(S, state) ==
  status' = [r \in Requests |-> IF r \in S THEN state ELSE status[r]]

Submit(r) ==
  /\ status[r] = "new"
  /\ Become({r}, "open")
  /\ UNCHANGED runs

Run(r) ==
  /\ status[r] # "new"
  /\ runs' = [runs EXCEPT ![r] = @ + 1]
  /\ UNCHANGED status

Answer(r) ==
  /\ status[r] # "new" /\ runs[r] > 0
  /\ Become({r}, "done")
  /\ UNCHANGED runs

(* One scan may discard several requests at once.                          *)
Discard(S) ==
  /\ \A r \in S : status[r] \in {"open", "done", "dead"}
  /\ Become(S, "dead")
  /\ UNCHANGED runs

Delete(S) ==
  /\ \A r \in S : status[r] = "done"
  /\ Become(S, "gone")
  /\ UNCHANGED runs

Next ==
  \/ \E r \in Requests : Submit(r) \/ Run(r) \/ Answer(r)
  \/ \E S \in SUBSET Requests : Discard(S) \/ Delete(S)

Spec == Init /\ [][Next]_vars

=============================================================================
