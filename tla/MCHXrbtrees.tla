----------------------------- MODULE MCHXrbtrees ----------------------------
(***************************************************************************)
(* Three small instances of HXrbtree for TLC, on the same variables; part  *)
(* says which of them this behaviour is about.                             *)
(*   "tree"  as many keys as it takes for every case of the rebalancing,   *)
(*           data left out, and with them HXMAP_NOREPLACE;                 *)
(*   "map"   fewer entries, with data, as a dictionary;                    *)
(*   "walk"  a traverser, with addresses that may come back for another    *)
(*           key.                                                          *)
(* Gets, and adds and deletes that change nothing, are left to "map".      *)
(* In the first two only the tree refers to nodes, so naming the node of a *)
(* key by the key loses nothing.  Each part takes its keys, its data and   *)
(* its addresses from those of the whole, so each of its behaviours is one *)
(* of HXrbtree with the constants of the whole, and so are the properties. *)
(***************************************************************************)
EXTENDS HXrbtree, TLC

CONSTANTS
    FewKeys,            \* of "map" and "walk"
    WNodes              \* of "walk"

VARIABLE part

MallocAll == [k \in Keys |-> {k} \cup WNodes]

T == INSTANCE HXrbtree WITH
         Values <- {}, Malloc <- [k \in Keys |-> {k}]

M == INSTANCE HXrbtree WITH
         Keys <- FewKeys, Malloc <- [k \in FewKeys |-> {k}]

W == INSTANCE HXrbtree WITH
         Keys <- FewKeys, Values <- {}, Malloc <- [k \in FewKeys |-> WNodes]

AddressSymmetry == Permutations(WNodes)

PartInit == part \in {"tree", "map", "walk"} /\ Init

PartNext ==
    /\ UNCHANGED part
    /\ \/ part = "tree" /\ T!Next
       \/ part = "map" /\ M!Next
       \/ part = "walk" /\ W!Next
    /\ part # "map" => ~noreplace' /\ ret'.op # "get" /\ ret'.err = "0"
    /\ part # "walk" => UNCHANGED trav

PartSpec == PartInit /\ [][PartNext]_<<part, vars>>

=============================================================================
