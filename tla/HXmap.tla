------------------------------- MODULE HXmap -------------------------------
(***************************************************************************)
(* What HXmap_add, HXmap_find/HXmap_get, HXmap_del, HXmap_free and one     *)
(* HXmap_traverse call promise to a caller, whatever structure holds the   *)
(* map: a dictionary, the call's result, and nothing about buckets, nodes, *)
(* trees or rebalancing.  HXumap (hash) and HXrbtree (tree) implement it.  *)
(*                                                                         *)
(* A call may fail for want of memory; it then leaves the dictionary as it *)
(* was.  ret is the result of the last completed call.                     *)
(***************************************************************************)
CONSTANTS
    Keys,       \* keys, up to k_compare equality
    Values,     \* data pointers other than NULL
    NULL,       \* the null pointer
    Singular    \* HXMAP_SINGULAR: the map is a set, data is always NULL

VARIABLES
    alive,      \* the map exists: after HXmap_init, before HXmap_free
    noreplace,  \* HXMAP_NOREPLACE, which the user may change at run time
    dict,       \* the dictionary: a function from the keys present to data
    ret         \* result of the last completed call

vars == <<alive, noreplace, dict, ret>>

Data == Values \cup {NULL}

Dicts == UNION {[ks -> Data] : ks \in SUBSET Keys}

(* Results.  err is "0" on success, else the errno of the failure. *)
Result(op, k, v, err) == [op |-> op, key |-> k, val |-> v, err |-> err]

NoResult == Result("none", NULL, NULL, "0")

Init ==
    /\ alive = FALSE
    /\ noreplace \in BOOLEAN
    /\ dict = [k \in {} |-> NULL]
    /\ ret = NoResult

(* HXmap_init: a new empty map. *)
MapInit ==
    /\ ~alive
    /\ alive' = TRUE
    /\ noreplace' \in BOOLEAN
    /\ dict' = [k \in {} |-> NULL]
    /\ ret' = NoResult

(* map->flags ^= HXMAP_NOREPLACE by the user. *)
SetFlags ==
    /\ alive
    /\ noreplace' = ~noreplace
    /\ UNCHANGED <<alive, dict, ret>>

(* HXmap_add on an absent key that succeeds. *)
AddNew(k, v) ==
    /\ alive
    /\ k \notin DOMAIN dict
    /\ Singular => v = NULL
    /\ dict' = [x \in DOMAIN dict \cup {k} |-> IF x = k THEN v ELSE dict[x]]
    /\ ret' = Result("add", k, v, "0")
    /\ UNCHANGED <<alive, noreplace>>

(* HXmap_add on a present key: overwrites unless HXMAP_NOREPLACE. *)
AddReplace(k, v) ==
    /\ alive
    /\ k \in DOMAIN dict
    /\ ~noreplace
    /\ Singular => v = NULL
    /\ dict' = [dict EXCEPT ![k] = v]
    /\ ret' = Result("add", k, v, "0")
    /\ UNCHANGED <<alive, noreplace>>

AddExists(k, v) ==
    /\ alive
    /\ k \in DOMAIN dict
    /\ noreplace
    /\ Singular => v = NULL
    /\ ret' = Result("add", k, v, "EEXIST")
    /\ UNCHANGED <<alive, noreplace, dict>>

AddInval(k, v) ==
    /\ alive
    /\ Singular /\ v # NULL
    /\ ret' = Result("add", k, v, "EINVAL")
    /\ UNCHANGED <<alive, noreplace, dict>>

AddNoMem(k, v) ==
    /\ alive
    /\ k \in DOMAIN dict => ~noreplace
    /\ Singular => v = NULL
    /\ ret' = Result("add", k, v, "ENOMEM")
    /\ UNCHANGED <<alive, noreplace, dict>>

(* HXmap_del hands back the data and never needs memory to succeed. *)
DelHit(k) ==
    /\ alive
    /\ k \in DOMAIN dict
    /\ dict' = [x \in DOMAIN dict \ {k} |-> dict[x]]
    /\ ret' = Result("del", k, dict[k], "0")
    /\ UNCHANGED <<alive, noreplace>>

DelMiss(k) ==
    /\ alive
    /\ k \notin DOMAIN dict
    /\ ret' = Result("del", k, NULL, "ENOENT")
    /\ UNCHANGED <<alive, noreplace, dict>>

Get(k) ==
    /\ alive
    /\ ret' = IF k \in DOMAIN dict THEN Result("get", k, dict[k], "0")
                                   ELSE Result("get", k, NULL, "ENOENT")
    /\ UNCHANGED <<alive, noreplace, dict>>

(* HXmap_traverse returns an entry the map holds now, or NULL. *)
TraverseNode(k) ==
    /\ alive
    /\ k \in DOMAIN dict
    /\ ret' = Result("traverse", k, dict[k], "0")
    /\ UNCHANGED <<alive, noreplace, dict>>

TraverseEnd ==
    /\ alive
    /\ ret' = Result("traverse", NULL, NULL, "0")
    /\ UNCHANGED <<alive, noreplace, dict>>

MapFree ==
    /\ alive
    /\ alive' = FALSE
    /\ dict' = [k \in {} |-> NULL]
    /\ ret' = NoResult
    /\ UNCHANGED noreplace

Next ==
    \/ MapInit
    \/ SetFlags
    \/ \E k \in Keys, v \in Data :
          \/ AddNew(k, v)
          \/ AddReplace(k, v)
          \/ AddExists(k, v)
          \/ AddInval(k, v)
          \/ AddNoMem(k, v)
    \/ \E k \in Keys : DelHit(k) \/ DelMiss(k) \/ Get(k) \/ TraverseNode(k)
    \/ TraverseEnd
    \/ MapFree

Spec == Init /\ [][Next]_vars
=============================================================================
