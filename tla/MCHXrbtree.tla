----------------------------- MODULE MCHXrbtree -----------------------------
(* Small instances of HXrbtree for TLC.                                    *)
EXTENDS HXrbtree, TLC

(* Without traversers nothing but the tree refers to a node, so naming the *)
(* node of a key by the key loses nothing.                                 *)
MallocByKey == [k \in Keys |-> {k}]

(* With traversers an address may come back for another key. *)
MallocAny == [k \in Keys |-> Nodes]

NodeSymmetry == Permutations(Nodes)
=============================================================================
