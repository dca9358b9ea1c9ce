-------------------------- MODULE RequestContract --------------------------
(***************************************************************************)
(* What the message bus promises about the requests it carries, with no    *)
(* directories, listeners or clocks: a submitted request is run some       *)
(* number of times, may be answered once it has been run, and ends in      *)
(* exactly one of two final states, done or dead.                          *)
(*                                                                         *)
(* Exclusive says how strong the promise is.  When it holds, a request     *)
(* that has reached a final state is never run or answered again; without  *)
(* it a late worker may still do either.                                   *)
(***************************************************************************)
EXTENDS Naturals

CONSTANTS
  Requests,
  Exclusive \* a Boolean

VARIABLES status, runs, answers

vars == <<status, runs, answers>>

Final == {"done", "dead"}

Init ==
  /\ status = [r \in Requests |-> "new"]
  /\ runs = [r \in Requests |-> 0]
  /\ answers = {}

(* A worker may act on r.                                                  *)
Workable(r) == status[r] = "open" \/ (~Exclusive /\ status[r] \in Final)

Submit(r) ==
  /\ status[r] = "new"
  /\ status' = [status EXCEPT ![r] = "open"]
  /\ UNCHANGED <<runs, answers>>

Run(r) ==
  /\ Workable(r)
  /\ runs' = [runs EXCEPT ![r] = @ + 1]
  /\ UNCHANGED <<status, answers>>

Answer(r) ==
  /\ Workable(r)
  /\ runs[r] > 0
  /\ answers' = answers \union {r}
  /\ UNCHANGED <<status, runs>>

Finish(r) ==
  /\ status[r] = "open"
  /\ r \in answers
  /\ status' = [status EXCEPT ![r] = "done"]
  /\ UNCHANGED <<runs, answers>>

(* One scan may discard several requests at once.                          *)
Discard(S) ==
  /\ \A r \in S : status[r] = "open"
  /\ status' = [r \in Requests |-> IF r \in S THEN "dead" ELSE status[r]]
  /\ UNCHANGED <<runs, answers>>

Next ==
  \/ \E r \in Requests : Submit(r) \/ Run(r) \/ Answer(r) \/ Finish(r)
  \/ \E S \in SUBSET Requests : Discard(S)

Spec == Init /\ [][Next]_vars

=============================================================================
