------------------------------ MODULE MCHXlive ------------------------------
(***************************************************************************)
(* Small instances for TLC of the components whose loops and waits must    *)
(* come to an end: deques, the red-black tree, subprocesses and copies of  *)
(* files.  They share no state; part says which of them this behaviour is  *)
(* about, and the others stay in one of their initial states.              *)
(***************************************************************************)
EXTENDS HXdeque, HXproc, HXio

VARIABLES part, r_alive, r_noreplace, r_node, r_items, r_call, r_trav, r_fault, r_ret

rvars == <<r_alive, r_noreplace, r_node, r_items, r_call, r_trav, r_fault, r_ret>>

CONSTANTS RKeys, ROOT

MCLimits == {5, 12}

(* Nothing but the tree refers to a node, so naming the node of a key by   *)
(* the key loses nothing.                                                  *)
Rb == INSTANCE HXrbtree WITH
          Keys <- RKeys, Nodes <- RKeys, Values <- {}, Malloc <- [k \in RKeys |-> {k}],
          Travs <- {}, Singular <- FALSE, CKEY <- FALSE, CDATA <- FALSE,
          alive <- r_alive, noreplace <- r_noreplace, node <- r_node, items <- r_items,
          call <- r_call, trav <- r_trav, fault <- r_fault, ret <- r_ret

(* The instances satisfy what the theorems about their modules assume. *)
ASSUME LiveAssumption == LimitsAssumption /\ IoAssumption

allvars == <<part, vars, rvars, procvars, iovars>>

LiveInit ==
    /\ part \in {"deque", "rbtree", "proc", "io"}
    /\ Init /\ Rb!Init /\ ProcInit /\ IoInit
    /\ part # "proc" => DOMAIN base = 0 .. 4 /\ \A fd \in 0 .. 4 : base[fd] = None
    /\ part # "io" => kern = "cfr" /\ ~special

LiveNext ==
    \/ part = "deque" /\ Next /\ UNCHANGED <<part, rvars, procvars, iovars>>
    \/ part = "rbtree" /\ Rb!Next /\ UNCHANGED <<part, vars, procvars, iovars>>
    \/ part = "proc" /\ ProcNext /\ UNCHANGED <<part, vars, rvars, iovars>>
    \/ part = "io" /\ IoNext /\ UNCHANGED <<part, vars, rvars, procvars>>

LiveSpec ==
    LiveInit /\ [][LiveNext]_allvars /\ Fair /\ Rb!Fair /\ ProcFair /\ IoFair

(* Rebalancing a tree comes to its end. *)
CallsReturn == Rb!CallsReturn

=============================================================================
