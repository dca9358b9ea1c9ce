------------------------------ MODULE MCFsBus ------------------------------
(* Model-checking instances of FsBus.                                      *)
EXTENDS FsBus, TLC

(* Listeners are interchangeable, and so are well-formed requests.         *)
Symmetry == Permutations(Listeners) \union Permutations(Requests \ Malformed)

=============================================================================
