------------------------------ MODULE MCOutbox ------------------------------
(* Finite instances of Outbox for TLC. *)
EXTENDS Outbox, TLC

(* Skills and builders are interchangeable in every safety property. *)
Symmetry == Permutations(Skills) \cup Permutations(Builders)
=============================================================================
