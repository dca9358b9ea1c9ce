---------------------------- MODULE MCSqliteBus ----------------------------
(* Model-checking instances of SqliteBus.                                  *)
EXTENDS SqliteBus, TLC

(* Listeners are interchangeable, and so are requests of one priority.     *)
Symmetry == Permutations(Listeners) \union Permutations(Urgent)
            \union Permutations(Requests \ Urgent)

=============================================================================
