------------------------------ MODULE HXrbtree ------------------------------
(***************************************************************************)
(* The red-black tree of map.c: nodes without parent pointers, rebalanced  *)
(* along the path recorded on the way down, and traversers that keep such  *)
(* a path too and rebuild it from the key they were last at (checkpoint)   *)
(* when the tree has been restructured.                                    *)
(*                                                                         *)
(* The heap is a function from addresses to nodes; ROOT is the address of  *)
(* btree->root, which the code casts to a node so that path[0]->sub[0] is  *)
(* the root pointer.  A path is the sequence of the hops taken, so that    *)
(* the code's depth is its length and path[depth-1] its last element.      *)
(* An add or del searches and links or unlinks in one step, then takes one *)
(* step per iteration of HXrbtree_amov or HXrbtree_dmov; no other call     *)
(* begins before it has ended, as the library has no locks.                *)
(*                                                                         *)
(* Traversers only ask whether their tid equals the tree's: sync is that   *)
(* comparison, for fewer than 2^32 changes between two calls.              *)
(*                                                                         *)
(* The memory of keys is followed as far as the traversers depend on it.   *)
(* fault records an access that the C language does not define and after   *)
(* which no call is followed any further.                                  *)
(***************************************************************************)
EXTENDS Integers, Sequences, FiniteSets, SequencesExt, FiniteSetsExt

CONSTANTS
    Keys,       \* keys, integers in the order of k_compare
    Values,     \* data pointers other than NULL
    NULL,       \* the null pointer
    Singular,   \* HXMAP_SINGULAR given at init
    CKEY,       \* HXMAP_CKEY: keys are copied, and freed with their node
    CDATA,      \* HXMAP_CDATA: data is copied
    Nodes,      \* addresses of struct HXrbnode
    ROOT,       \* the address of btree->root
    Malloc,     \* the addresses malloc may return for a key's node
    Travs       \* traversers the user may hold

ASSUME RbAssumption ==
    /\ Keys \subseteq Int /\ NULL \notin Keys
    /\ NULL \notin Nodes /\ ROOT \notin Nodes \cup {NULL}
    /\ Malloc \in [Keys -> SUBSET Nodes]
    /\ {Singular, CKEY, CDATA} \subseteq BOOLEAN

RBT_LEFT == 0
RBT_RIGHT == 1

RBT_MAXDEP == 48

VARIABLES
    alive,      \* between HXmap_init and HXmap_free
    noreplace,  \* flags & HXMAP_NOREPLACE, changeable at run time
    node,       \* the heap, Freed where nothing is allocated
    items,      \* super.items
    call,       \* the call under way, with its path
    trav,       \* traversers
    fault,      \* undefined behaviour met, "none" so far
    ret         \* result of the last completed call

vars == <<alive, noreplace, node, items, call, trav, fault, ret>>

Data == Values \cup {NULL}

Addr == Nodes \cup {ROOT}

(* A node as HXrbtree_add fills it in. *)
NewNode(k, v) == [key |-> k, data |-> v, color |-> "RED",
                  sub |-> [d \in {RBT_LEFT, RBT_RIGHT} |-> NULL]]

Freed == NewNode(NULL, NULL)

Allocated == {n \in Nodes : node[n].key # NULL}

Idle == [fn |-> "none", pc |-> "idle", key |-> NULL, val |-> NULL,
         nd |-> NULL, path |-> <<>>]

NoTrav == [st |-> "none", sync |-> FALSE, current |-> NULL, path |-> <<>>,
           checkpoint |-> NULL, mem |-> "none", pos |-> NULL]

Result(op, k, v, err) == [op |-> op, key |-> k, val |-> v, err |-> err]

NoResult == Result("none", NULL, NULL, "0")

Init ==
    /\ alive = FALSE
    /\ noreplace \in BOOLEAN
    /\ node = [a \in Addr |-> Freed]
    /\ items = 0
    /\ call = Idle
    /\ trav = [t \in Travs |-> NoTrav]
    /\ fault = "none"
    /\ ret = NoResult

Ready == alive /\ call.pc = "idle" /\ fault = "none"

-----------------------------------------------------------------------------
(* Walking and changing the heap.                                          *)

Hop(n, d) == [nd |-> n, dir |-> d]

Other(d) == 1 - d

Root == node[ROOT].sub[RBT_LEFT]

(* The search loop: the hops from the root to the key's node, or to where  *)
(* it would be.                                                            *)
Walk(k) ==
    LET side(n) == IF k > node[n].key THEN RBT_RIGHT ELSE RBT_LEFT
        down[n \in Nodes \cup {NULL}] ==
            IF n = NULL \/ node[n].key = k THEN <<>>
            ELSE <<Hop(n, side(n))>> \o down[node[n].sub[side(n)]]
    IN  down[Root]

PathTo(k) == <<Hop(ROOT, RBT_LEFT)>> \o Walk(k)

(* What the last hop of a path leads to. *)
Below(path) == node[Last(path).nd].sub[Last(path).dir]

HXrbtree_find(k) == Below(PathTo(k))

(* The chain of left children from n down. *)
Spine(n) ==
    LET left[m \in Nodes \cup {NULL}] ==
            IF m = NULL THEN <<>>
            ELSE <<Hop(m, RBT_LEFT)>> \o left[node[m].sub[RBT_LEFT]]
    IN  left[n]

(* The nodes below and including n, in order. *)
InOrder(n) ==
    LET walk[m \in Nodes \cup {NULL}] ==
            IF m = NULL THEN <<>>
            ELSE walk[node[m].sub[RBT_LEFT]] \o <<m>>
                    \o walk[node[m].sub[RBT_RIGHT]]
    IN  walk[n]

IsRed(h, n) == n # NULL /\ h[n].color = "RED"

Link(h, n, d, m) == [h EXCEPT ![n].sub[d] = m]

Paint(h, n, c) == [h EXCEPT ![n].color = c]

(* The child of n on side s takes the place of n, which the hop above      *)
(* leads to, and n becomes its child.                                      *)
Mut_Rotate(h, above, n, s) ==
    LET c == h[n].sub[s]
        h1 == Link(h, n, s, NULL)
        h2 == Link(h1, c, Other(s), n)
    IN  Link(h2, above.nd, above.dir, c)

Rotate(h, above, n, s) ==
    LET c == h[n].sub[s]
        h1 == Link(h, n, s, h[c].sub[Other(s)])
        h2 == Link(h1, c, Other(s), n)
    IN  Link(h2, above.nd, above.dir, c)

(* ++btree->tid. *)
Mut_TidChanged == trav

TidChanged == [t \in Travs |-> [trav[t] EXCEPT !.sync = FALSE]]

-----------------------------------------------------------------------------
HXrbtree_init4 ==
    /\ ~alive
    /\ alive' = TRUE
    /\ noreplace' \in BOOLEAN
    /\ ret' = NoResult
    /\ UNCHANGED <<node, items, call, trav, fault>>

SetFlags ==
    /\ Ready
    /\ noreplace' = ~noreplace
    /\ UNCHANGED <<alive, node, items, call, trav, fault, ret>>

HXmap_get(k) ==
    /\ Ready
    /\ ret' = IF HXrbtree_find(k) = NULL
              THEN Result("get", k, NULL, "ENOENT")
              ELSE Result("get", k, node[HXrbtree_find(k)].data, "0")
    /\ UNCHANGED <<alive, noreplace, node, items, call, trav, fault>>

(* HXrbtree_replace, which tests the flag the other way round from         *)
(* HXumap_replace.                                                         *)
Mut_HXrbtree_replace(n, k, v) ==
    \/ /\ node' = [node EXCEPT ![n].data = v]
       /\ ret' = Result("add", k, v, "0")
       /\ UNCHANGED fault

HXrbtree_replace(n, k, v) ==
    \/ /\ ~noreplace
       /\ ret' = Result("add", k, v, "EEXIST")
       /\ UNCHANGED <<node, fault>>
    \/ /\ noreplace
       /\ node' = [node EXCEPT ![n].data = v]
       /\ ret' = Result("add", k, v, "0")
       /\ UNCHANGED fault
    \/ /\ noreplace /\ CDATA /\ v # NULL
       /\ ret' = Result("add", k, v, "ENOMEM")
       /\ UNCHANGED <<node, fault>>

(* HXrbtree_add runs out of memory: for the node, for the key, or for the  *)
(* data; in the last case d_free is applied to the key, which k_free has   *)
(* already released or which is the user's.                                *)
AddNoMem(k, v) ==
    /\ ret' = Result("add", k, v, "ENOMEM")
    /\ \/ UNCHANGED fault
       \/ /\ CDATA /\ v # NULL
          /\ fault' = "bad free"
    /\ UNCHANGED node

AddLink(k, v) ==
    LET path == PathTo(k)
    IN  /\ \E n \in Malloc[k] \ Allocated :
             /\ node' = Link([node EXCEPT ![n] = NewNode(k, v)],
                             Last(path).nd, Last(path).dir, n)
             /\ call' = [fn |-> "add", pc |-> "amov", key |-> k, val |-> v,
                         nd |-> n, path |-> path]
        /\ items' = items + 1
        /\ UNCHANGED <<fault, ret>>

HXmap_add(k, v) ==
    /\ Ready
    /\ \/ /\ Singular /\ v # NULL
          /\ ret' = Result("add", k, v, "EINVAL")
          /\ UNCHANGED <<node, items, call, fault>>
       \/ /\ Singular => v = NULL
          /\ HXrbtree_find(k) # NULL
          /\ HXrbtree_replace(HXrbtree_find(k), k, v)
          /\ UNCHANGED <<items, call>>
       \/ /\ Singular => v = NULL
          /\ HXrbtree_find(k) = NULL
          /\ AddNoMem(k, v)
          /\ UNCHANGED <<items, call>>
       \/ /\ Singular => v = NULL
          /\ HXrbtree_find(k) = NULL
          /\ AddLink(k, v)
    /\ UNCHANGED <<alive, noreplace, trav>>

-----------------------------------------------------------------------------
(* HXrbtree_amov.  The node below the end of the path is red; so is its    *)
(* parent, the end of the path, while there is something to do.            *)
Mut_RedRed(path) == FALSE

RedRed(path) == Len(path) >= 3 /\ IsRed(node, Last(path).nd)

Mut_Recolor(path, grandp, parent, uncle) ==
    /\ node' = Paint(Paint(node, parent, "BLACK"), uncle, "BLACK")
    /\ call' = [call EXCEPT !.path = SubSeq(path, 1, Len(path) - 2)]
    /\ UNCHANGED trav

Recolor(path, grandp, parent, uncle) ==
    /\ node' = Paint(Paint(Paint(node, parent, "BLACK"), uncle, "BLACK"),
                     grandp, "RED")
    /\ call' = [call EXCEPT !.path = SubSeq(path, 1, Len(path) - 2)]
    /\ UNCHANGED trav

(* Cases 4 and 5; the loop is left. *)
AddRotate(path, grandp, parent, LR) ==
    LET h4 == IF Last(path).dir # LR
              THEN Rotate(node, Hop(grandp, LR), parent, Other(LR)) ELSE node
        top == h4[grandp].sub[LR]
        h5 == Rotate(h4, path[Len(path) - 2], grandp, LR)
    IN  /\ node' = Paint(Paint(h5, grandp, "RED"), top, "BLACK")
        /\ call' = [call EXCEPT !.pc = "blacken"]
        /\ trav' = TidChanged

HXrbtree_amov ==
    LET path == call.path
        LR == path[Len(path) - 1].dir
        grandp == path[Len(path) - 1].nd
        parent == Last(path).nd
        uncle == node[grandp].sub[Other(LR)]
    IN  /\ call.pc = "amov"
        /\ RedRed(path)
        /\ \/ IsRed(node, uncle) /\ Recolor(path, grandp, parent, uncle)
           \/ ~IsRed(node, uncle) /\ AddRotate(path, grandp, parent, LR)
        /\ UNCHANGED <<alive, noreplace, items, fault, ret>>

(* The end of HXrbtree_add. *)
AddEnd ==
    /\ call.pc = "blacken" \/ (call.pc = "amov" /\ ~RedRed(call.path))
    /\ node' = Paint(node, Root, "BLACK")
    /\ ret' = Result("add", call.key, call.val, "0")
    /\ call' = Idle
    /\ UNCHANGED <<alive, noreplace, items, trav, fault>>

-----------------------------------------------------------------------------
(* HXrbtree_del_mm: a node n with two children changes place and color     *)
(* with its inorder successor, the end of the spine of its right child.    *)
HXrbtree_del_mm(path, n) ==
    LET spine == Spine(node[n].sub[RBT_RIGHT])
        io_node == Last(spine).nd
        direct == Len(spine) = 1
        right == IF direct THEN node[io_node].sub[RBT_RIGHT]
                           ELSE node[n].sub[RBT_RIGHT]
        h1 == Link(node, Last(path).nd, Last(path).dir, io_node)
        h2 == IF direct THEN h1
              ELSE Link(h1, spine[Len(spine) - 1].nd, RBT_LEFT,
                        node[io_node].sub[RBT_RIGHT])
        h3 == Link(Link(h2, io_node, RBT_LEFT, node[n].sub[RBT_LEFT]),
                   io_node, RBT_RIGHT, right)
        h4 == Paint(Paint(h3, io_node, node[n].color), n, node[io_node].color)
    IN  [heap |-> h4, path |-> path \o <<Hop(io_node, RBT_RIGHT)>> \o Front(spine)]

(* HXrbtree_del up to the rebalancing: the node n at the end of the path   *)
(* is taken out of the tree.                                               *)
DelUnlink(path, n) ==
    LET Replace(m) == [heap |-> Link(node, Last(path).nd, Last(path).dir, m),
                       path |-> path]
        mm == IF node[n].sub[RBT_RIGHT] = NULL THEN Replace(node[n].sub[RBT_LEFT])
              ELSE IF node[n].sub[RBT_LEFT] = NULL THEN Replace(node[n].sub[RBT_RIGHT])
              ELSE HXrbtree_del_mm(path, n)
    IN  /\ node' = mm.heap
        /\ call' = [fn |-> "del", key |-> node[n].key, val |-> node[n].data,
                    pc |-> IF mm.heap[n].color = "BLACK" THEN "dmov" ELSE "free",
                    nd |-> n, path |-> mm.path]
        /\ items' = items - 1
        /\ trav' = TidChanged
        /\ UNCHANGED ret

(* On an empty tree the code returns without touching errno. *)
HXmap_del(k) ==
    /\ Ready
    /\ \/ /\ Root = NULL
          /\ ret' = Result("del", k, NULL, "untouched")
          /\ UNCHANGED <<node, items, call, trav>>
       \/ /\ Root # NULL
          /\ HXrbtree_find(k) = NULL
          /\ ret' = Result("del", k, NULL, "ENOENT")
          /\ UNCHANGED <<node, items, call, trav>>
       \/ /\ HXrbtree_find(k) # NULL
          /\ DelUnlink(PathTo(k), HXrbtree_find(k))
    /\ UNCHANGED <<alive, noreplace, fault>>

(* HXrbtree_dmov: the side LR of p, the end of the path, is one black node *)
(* short.  w is the black sibling, after case 2 if that applied.           *)
Mut_DmovEnd == call' = IF Len(call.path) < 2 THEN call ELSE [call EXCEPT !.pc = "free"]

DmovEnd == call' = [call EXCEPT !.pc = "free"]

Cases36(h, path, w) ==
    LET p == Last(path).nd
        LR == Last(path).dir
        RL == Other(LR)
        h5 == IF IsRed(h, h[w].sub[RL]) THEN h
              ELSE Rotate(Paint(Paint(h, h[w].sub[LR], "BLACK"), w, "RED"),
                          Hop(p, RL), w, LR)
        w6 == h5[p].sub[RL]
        h6 == Paint(Paint(Paint(h5, w6, h5[p].color), p, "BLACK"),
                    h5[w6].sub[RL], "BLACK")
    IN  \/ /\ \A d \in {LR, RL} : ~IsRed(h, h[w].sub[d])
           /\ node' = Paint(h, w, "RED")
           /\ call' = [call EXCEPT !.path = Front(path)]
        \/ /\ \E d \in {LR, RL} : IsRed(h, h[w].sub[d])
           /\ node' = Rotate(h6, path[Len(path) - 1], p, RL)
           /\ DmovEnd

HXrbtree_dmov ==
    LET path == call.path
        p == Last(path).nd
        LR == Last(path).dir
        x == node[p].sub[LR]
        w == node[p].sub[Other(LR)]
        above == path[Len(path) - 1]
        h2 == Rotate(Paint(Paint(node, w, "BLACK"), p, "RED"), above, p, Other(LR))
    IN  /\ call.pc = "dmov"
        /\ \/ /\ IsRed(node, x)
              /\ node' = Paint(node, x, "BLACK")
              /\ DmovEnd
           \/ /\ ~IsRed(node, x)
              /\ Len(path) < 2
              /\ DmovEnd
              /\ UNCHANGED node
           \/ /\ ~IsRed(node, x)
              /\ Len(path) >= 2
              /\ \/ ~IsRed(node, w) /\ Cases36(node, path, w)
                 \/ /\ IsRed(node, w)
                    /\ Cases36(h2, Front(path) \o <<Hop(w, LR), Hop(p, LR)>>,
                               h2[p].sub[Other(LR)])
        /\ UNCHANGED <<alive, noreplace, items, trav, fault, ret>>

(* The end of HXrbtree_del.  A copied key dies with its node. *)
KeyFreed(k) ==
    [t \in Travs |->
        IF CKEY /\ trav[t].mem = "node" /\ trav[t].checkpoint = k
        THEN [trav[t] EXCEPT !.mem = "stale"] ELSE trav[t]]

DelEnd ==
    /\ call.pc = "free"
    /\ node' = [node EXCEPT ![call.nd] = Freed]
    /\ trav' = KeyFreed(call.key)
    /\ ret' = Result("del", call.key, call.val, "0")
    /\ call' = Idle
    /\ UNCHANGED <<alive, noreplace, items, fault>>

-----------------------------------------------------------------------------
(* Traversers.  HXrbtrav_init, whose tid 0 is out of step with any tree.   *)
HXmap_travinit(t) ==
    /\ Ready
    /\ trav[t].st = "none"
    /\ trav' = [trav EXCEPT ![t] = [NoTrav EXCEPT !.st = "open"]]
    /\ UNCHANGED <<alive, noreplace, node, items, call, fault, ret>>

(* HXrbtrav_checkpoint: the flag it looks at to decide whether to copy the *)
(* key is bit 0 of the map's flags, HXMAP_NOREPLACE, not of the            *)
(* traverser's, HXMAP_DTRAV.  mem says whose memory the checkpoint is.     *)
HXrbtrav_checkpoint == IF ~CKEY THEN {"user"}
                       ELSE IF noreplace THEN {"own", "no memory"}
                       ELSE {"node"}

(* What freeing the old checkpoint does when the flag is set. *)
FreeCheckpoint(tr) ==
    fault' = IF CKEY /\ noreplace /\ tr.mem \in {"node", "stale"}
             THEN "bad free" ELSE fault

(* HXrbtrav_next: the position after node cur, reached by path. *)
HXrbtrav_next(cur, path) ==
    LET right == Spine(node[cur].sub[RBT_RIGHT])
        lefts == {i \in DOMAIN path : path[i].dir = RBT_LEFT}
    IN  IF right # <<>>
        THEN [cur |-> Last(right).nd,
              path |-> path \o <<Hop(cur, RBT_RIGHT)>> \o Front(right)]
        ELSE IF lefts = {} THEN [cur |-> NULL, path |-> <<>>]
        ELSE [cur |-> path[Max(lefts)].nd, path |-> SubSeq(path, 1, Max(lefts) - 1)]

AtEndOf(hops) ==
    IF hops = <<>> THEN [cur |-> NULL, path |-> <<>>]
    ELSE [cur |-> Last(hops).nd, path |-> Front(hops)]

(* newpath of HXrbtrav_rewalk: the left turns of the search for k. *)
LeftTurns(k) ==
    LET down[n \in Nodes \cup {NULL}] ==
            IF n = NULL \/ node[n].key = k THEN <<>>
            ELSE IF k > node[n].key THEN down[node[n].sub[RBT_RIGHT]]
            ELSE <<Hop(n, RBT_LEFT)>> \o down[node[n].sub[RBT_LEFT]]
    IN  down[Root]

(* HXrbtrav_rewalk, searching for key cp: to the smallest node at first,   *)
(* to the one after cp, or if cp is gone to the last left turn.            *)
HXrbtrav_rewalk(tr, cp) ==
    IF tr.current = NULL THEN AtEndOf(Spine(Root))
    ELSE IF HXrbtree_find(cp) # NULL
         THEN HXrbtrav_next(HXrbtree_find(cp), Walk(cp))
         ELSE AtEndOf(LeftTurns(cp))

(* The keys a comparison with the checkpoint may see: any, when its memory *)
(* is gone.                                                                *)
CheckpointReads(tr) ==
    IF tr.mem \in {"stale", "no memory"} THEN Keys ELSE {tr.checkpoint}

(* HXrbtree_traverse.  The checkpoint moves to the node returned, if any;  *)
(* a rewalk also renews it at the node it finds again.                     *)
HXrbtree_traverse(t) ==
    /\ Ready
    /\ trav[t].st = "open"
    /\ \E cp \in CheckpointReads(trav[t]), mem \in HXrbtrav_checkpoint :
         LET tr == trav[t]
             rewalk == ~tr.sync \/ tr.current = NULL
             again == rewalk /\ tr.current # NULL /\ HXrbtree_find(cp) # NULL
             at == IF rewalk THEN HXrbtrav_rewalk(tr, cp)
                             ELSE HXrbtrav_next(tr.current, tr.path)
             moved == [tr EXCEPT !.sync = TRUE, !.current = at.cur,
                                 !.path = at.path]
         IN  \/ /\ at.cur # NULL
                /\ trav' = [trav EXCEPT ![t] =
                      [moved EXCEPT !.checkpoint = node[at.cur].key, !.mem = mem,
                                    !.pos = node[at.cur].key]]
                /\ FreeCheckpoint(tr)
                /\ ret' = Result("traverse", node[at.cur].key, node[at.cur].data, "0")
             \/ /\ at.cur = NULL
                /\ trav' = [trav EXCEPT ![t] =
                      [moved EXCEPT !.st = "end",
                                    !.checkpoint = IF again THEN cp ELSE @,
                                    !.mem = IF again THEN mem ELSE @]]
                /\ IF again THEN FreeCheckpoint(tr) ELSE UNCHANGED fault
                /\ ret' = Result("traverse", NULL, NULL, "0")
    /\ UNCHANGED <<alive, noreplace, node, items, call>>

(* HXrbtrav_free. *)
HXmap_travfree(t) ==
    /\ Ready
    /\ trav[t].st \in {"open", "end"}
    /\ trav' = [trav EXCEPT ![t] = NoTrav]
    /\ FreeCheckpoint(trav[t])
    /\ UNCHANGED <<alive, noreplace, node, items, call, ret>>

-----------------------------------------------------------------------------
(* HXrbtree_free, by HXrbtree_free_dive. *)
HXrbtree_free ==
    /\ Ready
    /\ \A t \in Travs : trav[t].st = "none"
    /\ alive' = FALSE
    /\ node' = [a \in Addr |-> IF a = ROOT \/ a \in Range(InOrder(Root))
                               THEN Freed ELSE node[a]]
    /\ items' = 0
    /\ ret' = NoResult
    /\ UNCHANGED <<noreplace, call, trav, fault>>

-----------------------------------------------------------------------------
Next ==
    \/ HXrbtree_init4
    \/ SetFlags
    \/ \E k \in Keys : HXmap_get(k) \/ HXmap_del(k)
    \/ \E k \in Keys, v \in Data : HXmap_add(k, v)
    \/ HXrbtree_amov
    \/ AddEnd
    \/ HXrbtree_dmov
    \/ DelEnd
    \/ \E t \in Travs : \/ HXmap_travinit(t)
                        \/ HXrbtree_traverse(t)
                        \/ HXmap_travfree(t)
    \/ HXrbtree_free

Spec == Init /\ [][Next]_vars

-----------------------------------------------------------------------------
(* Properties.                                                             *)

Paths == Seq([nd : Addr, dir : {RBT_LEFT, RBT_RIGHT}])

(* Type correctness. *)
TypeOK ==
    /\ alive \in BOOLEAN /\ noreplace \in BOOLEAN
    /\ node \in [Addr -> [key : Keys \cup {NULL}, data : Data,
                          color : {"RED", "BLACK"},
                          sub : [{RBT_LEFT, RBT_RIGHT} -> Nodes \cup {NULL}]]]
    /\ items \in Nat
    /\ call.pc \in {"idle", "amov", "blacken", "dmov", "free"}
    /\ call.path \in Paths
    /\ \A t \in Travs : trav[t].path \in Paths
    /\ fault \in {"none", "bad free"}

(* The tree is a search tree at every point of every call: read in order,  *)
(* the keys increase strictly.                                             *)
SearchOrder ==
    LET ns == InOrder(Root)
    IN  \A i, j \in DOMAIN ns : i < j => node[ns[i]].key < node[ns[j]].key

(* Nothing is lost, leaked or linked twice by a rotation or by the         *)
(* exchange with the inorder successor: the tree holds each allocated node *)
(* once, but for the one a deletion is about to free; items counts them.   *)
NothingLost ==
    LET linked == InOrder(Root)
    IN  /\ Range(linked) = Allocated \ (IF call.fn = "del" THEN {call.nd} ELSE {})
        /\ Len(linked) = Cardinality(Range(linked))
        /\ items = Len(linked)
        /\ ~alive => Allocated = {}

(* The tree is ordered and holds every node there is, once. *)
TreeOK == SearchOrder /\ NothingLost

(* The number of black nodes on the way from n down to any leaf, or -1 if  *)
(* it depends on the way.                                                  *)
BlackHeight(n) ==
    LET bh[m \in Nodes \cup {NULL}] ==
            IF m = NULL THEN 0
            ELSE LET l == bh[node[m].sub[RBT_LEFT]]
                     r == bh[node[m].sub[RBT_RIGHT]]
                 IN  IF l = r /\ l # -1
                     THEN l + (IF node[m].color = "BLACK" THEN 1 ELSE 0) ELSE -1
    IN  bh[n]

(* Between calls the tree is a red-black tree: a black root, no red node   *)
(* with a red child, the same number of black nodes on every way down.     *)
RedBlack ==
    Ready =>
        /\ ~IsRed(node, Root)
        /\ \A n \in Allocated : IsRed(node, n) =>
               \A d \in {RBT_LEFT, RBT_RIGHT} : ~IsRed(node, node[n].sub[d])
        /\ BlackHeight(Root) # -1

(* The path arrays with room for 2 * d hops are enough for a tree of 2^d   *)
(* nodes.  A deletion may write one entry behind its path: the node to     *)
(* delete (map.c:972), and in case 2 of the rebalancing its new parent.    *)
FitsIn(d) ==
    LET behind == IF call.fn = "del" THEN 1 ELSE 0
    IN  call.pc # "idle" /\ items + behind <= 2^d => Len(call.path) + behind <= 2 * d

(* map_int.h on RBT_MAXDEP: "Allows for at least 16 million objects (in a  *)
(* worst-case tree)"; and the same of smaller arrays, which the trees of a *)
(* small instance would overrun too.  Two entries (d = 1) would not do.    *)
PathFits == \A d \in (2 .. 4) \cup {RBT_MAXDEP \div 2} : FitsIn(d)

(* HXmap_traverse returns the entry after the one it returned last, in the *)
(* tree as it is now, and NULL when there is none, however entries were    *)
(* added and deleted in between, the entry itself included.  doc/maps.rst  *)
(* promises this of binary trees: entries are neither returned twice nor   *)
(* left out, and there is "proper handling for when the node which is      *)
(* currently visiting is deleted".  It is said of traversers whose         *)
(* checkpoint can still be read, which without HXMAP_CKEY is all of them   *)
(* (see CheckpointLive).                                                   *)
Remaining(pos) == {k \in {node[n].key : n \in Allocated} : pos = NULL \/ k > pos}

TraverseStep ==
    \A t \in Travs :
        HXrbtree_traverse(t) /\ trav[t].mem \notin {"stale", "no memory"} =>
            IF Remaining(trav[t].pos) = {}
            THEN trav'[t].st = "end"
            ELSE trav'[t].pos = Min(Remaining(trav[t].pos)) /\ trav'[t].st = "open"

WalkInOrder == [][TraverseStep]_vars

(* A traverser's checkpoint outlives the deletion of the entry it was      *)
(* taken from, which is what HXMAP_DTRAV is for: "Enable support for       *)
(* deletion during traversal" (doc/maps.rst).  All traversers of the model *)
(* were asked for with that flag; the code does not look at it.            *)
CheckpointLive == \A t \in Travs : trav[t].st = "open" => trav[t].mem # "stale"

(* HXmap_add on an existing key, as map.h describes the flag:              *)
(* "%HXMAP_NOREPLACE: Calling HXmap_add() for an already existing key will *)
(* throw an error (no-overwrite semantics)".                               *)
NoOverwrite ==
    [][\A n \in Allocated :
          noreplace /\ node'[n].key = node[n].key
              => node'[n].data = node[n].data]_vars

(* No memory is freed that is not the map's to free, or a second time:     *)
(* "d_free Same idea as k_free, but for data" (doc/maps.rst).              *)
NoFault == fault = "none"

(* The dictionary the tree stands for.  A node counts from the end of the  *)
(* HXmap_add that links it to the end of the HXmap_del that frees it.      *)
InDict == Allocated \ (IF call.fn = "add" THEN {call.nd} ELSE {})

NodeFor(k) == CHOOSE n \in InDict : node[n].key = k

Dict == [k \in {node[n].key : n \in InDict} |-> node[NodeFor(k)].data]

Map == INSTANCE HXmap WITH
           dict <- Dict,
           noreplace <- ~noreplace,
           ret <- IF ret.err = "untouched" THEN [ret EXCEPT !.err = "ENOENT"] ELSE ret

(* The tree is a dictionary with the results and effects of HXmap, through *)
(* all rebalancing, but for two things: the sense of HXMAP_NOREPLACE is    *)
(* inverted (see NoOverwrite), and deleting from an empty map leaves errno *)
(* alone where doc/maps.rst promises ENOENT.                               *)
ImplementsMap == Map!Spec

(* A call that has begun returns: the rebalancing loops end. *)
Fair == WF_vars(HXrbtree_amov \/ AddEnd \/ HXrbtree_dmov \/ DelEnd)

CallsReturn == call.pc # "idle" ~> call.pc = "idle"
=============================================================================
