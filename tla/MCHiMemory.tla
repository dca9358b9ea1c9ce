----------------------------- MODULE MCHiMemory -----------------------------
(* Model-checking instances of HiMemory: two notes with the same text and  *)
(* one without a twin, which arrives from another device.                  *)
EXTENDS HiMemory

CONSTANTS note, twin, guest

MCText == [e \in Entries |-> IF e = twin THEN note ELSE e]

=============================================================================
