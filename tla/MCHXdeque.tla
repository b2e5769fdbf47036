------------------------------ MODULE MCHXdeque -----------------------------
(* Small instances of HXdeque for TLC. *)
EXTENDS HXdeque, TLC

Symmetry == Permutations(Nodes) \cup Permutations(Deques)
=============================================================================
