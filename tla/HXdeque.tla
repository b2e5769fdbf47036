------------------------------ MODULE HXdeque -------------------------------
(***************************************************************************)
(* The doubly linked deque of deque.c at the level of its pointers: heads  *)
(* with first, last and items, nodes with next, prev and parent.           *)
(*                                                                         *)
(* lst is a history variable, not in the code: the nodes each deque should *)
(* hold, in order, by what every operation is documented to do.  ChainOK   *)
(* says that the pointers represent it.  moved is history too: how many    *)
(* more nodes came into each deque from others by HXdeque_move than left   *)
(* it for others, which items does not follow.                             *)
(*                                                                         *)
(* Freeing a deque and copying it to a vector are loops that take a step   *)
(* per node; a deque has no locks, so no other call begins in between.     *)
(***************************************************************************)
EXTENDS Integers, Sequences, FiniteSets, SequencesExt

CONSTANTS
    Deques,         \* addresses of struct HXdeque
    Nodes,          \* addresses of struct HXdeque_node
    Values,         \* data pointers
    NULL,           \* the null pointer
    MoveAnywhere,   \* HXdeque_move is called with any target (see Movable)
    MaxMoved        \* bound on moved, either way

ASSUME DequeAssumption ==
    /\ NULL \notin Nodes /\ NULL \notin Deques
    /\ MoveAnywhere \in BOOLEAN /\ MaxMoved \in Nat

VARIABLES
    dq,     \* heads
    node,   \* nodes, NoNode where nothing is allocated
    lst,    \* history: the nodes of each deque in order
    moved,  \* history: nodes from other deques less nodes gone to others
    call,   \* the loop under way
    ret     \* the data a pop, shift or del has just returned

vars == <<dq, node, lst, moved, call, ret>>

NoHead == [live |-> FALSE, first |-> NULL, last |-> NULL, items |-> 0]

HeadRec(f, l, i) == [live |-> TRUE, first |-> f, last |-> l, items |-> i]

NewNode(nx, pv, d, v) == [next |-> nx, prev |-> pv, parent |-> d, ptr |-> v]

NoNode == NewNode(NULL, NULL, NULL, NULL)

Free == {n \in Nodes : node[n].parent = NULL}

Idle == [fn |-> "none", dq |-> NULL, cur |-> NULL, room |-> 0,
         sentinel |-> 0, out |-> <<>>]

Init ==
    /\ dq = [d \in Deques |-> NoHead]
    /\ node = [n \in Nodes |-> NoNode]
    /\ lst = [d \in Deques |-> <<>>]
    /\ moved = [d \in Deques |-> 0]
    /\ call = Idle
    /\ ret = NULL

Ready == call.fn = "none"

HXdeque_init(d) ==
    /\ Ready
    /\ ~dq[d].live
    /\ dq' = [dq EXCEPT ![d] = HeadRec(NULL, NULL, 0)]
    /\ ret' = NULL
    /\ UNCHANGED <<node, lst, moved, call>>

(* HXdeque_push; a failing malloc changes nothing. *)
HXdeque_push(d, v) ==
    /\ Ready
    /\ dq[d].live
    /\ \E nd \in Free :
         /\ node' = [n \in Nodes |->
                        IF n = nd THEN NewNode(NULL, dq[d].last, d, v)
                        ELSE IF n = dq[d].last THEN [node[n] EXCEPT !.next = nd]
                        ELSE node[n]]
         /\ dq' = [dq EXCEPT ![d] = HeadRec(IF @.first = NULL THEN nd ELSE @.first,
                                         nd, @.items + 1)]
         /\ lst' = [lst EXCEPT ![d] = Append(@, nd)]
    /\ ret' = NULL
    /\ UNCHANGED <<moved, call>>

(* HXdeque_unshift, which is a push on an empty deque. *)
Unshift(d, v) ==
    /\ Ready
    /\ dq[d].live
    /\ dq[d].first # NULL
    /\ \E nd \in Free :
         /\ node' = [n \in Nodes |->
                        IF n = nd THEN NewNode(dq[d].first, NULL, d, v)
                        ELSE IF n = dq[d].first THEN [node[n] EXCEPT !.prev = nd]
                        ELSE node[n]]
         /\ dq' = [dq EXCEPT ![d] = HeadRec(nd, @.last, @.items + 1)]
         /\ lst' = [lst EXCEPT ![d] = <<nd>> \o @]
    /\ ret' = NULL
    /\ UNCHANGED <<moved, call>>

HXdeque_unshift(d, v) ==
    \/ dq[d].first = NULL /\ HXdeque_push(d, v)
    \/ Unshift(d, v)

-----------------------------------------------------------------------------
(* HXdeque_drop: node n is taken out of the heap's chain and its head.     *)
Mut_DropHeap(h, n) ==
    [m \in Nodes |-> [h[m] EXCEPT !.next = IF m = h[n].prev THEN h[n].next ELSE @]]

DropHeap(h, n) ==
    [m \in Nodes |->
        [h[m] EXCEPT !.next = IF m = h[n].prev THEN h[n].next ELSE @,
                     !.prev = IF m = h[n].next THEN h[n].prev ELSE @]]

DropHead(q, h, n) ==
    [q EXCEPT ![h[n].parent] =
        HeadRec(IF h[n].prev = NULL THEN h[n].next ELSE @.first,
             IF h[n].next = NULL THEN h[n].prev ELSE @.last, @.items)]

(* HXdeque_add: nd goes behind af.  The node behind af keeps its prev. *)
AddHeap(h, af, nd) ==
    [m \in Nodes |->
        IF m = nd THEN NewNode(h[af].next, af, h[af].parent, h[nd].ptr)
        ELSE IF m = af THEN [h[m] EXCEPT !.next = nd]
        ELSE h[m]]

AddHead(q, h, af, nd) ==
    [q EXCEPT ![h[af].parent] =
        HeadRec(@.first, IF @.last = af THEN nd ELSE @.last, @.items)]

(* The place of node n in its deque. *)
Index(n) == CHOOSE i \in DOMAIN lst[node[n].parent] : lst[node[n].parent][i] = n

HXdeque_del(n) ==
    LET p == node[n].parent
    IN  /\ dq' = [DropHead(dq, node, n) EXCEPT ![p] = HeadRec(@.first, @.last, @.items - 1)]
        /\ node' = [DropHeap(node, n) EXCEPT ![n] = NoNode]
        /\ lst' = [lst EXCEPT ![p] = RemoveAt(@, Index(n))]
        /\ ret' = node[n].ptr
        /\ UNCHANGED <<moved, call>>

Delete(n) ==
    /\ Ready
    /\ n \notin Free
    /\ HXdeque_del(n)

HXdeque_pop(d) ==
    /\ Ready
    /\ dq[d].live
    /\ dq[d].last # NULL
    /\ HXdeque_del(dq[d].last)

HXdeque_shift(d) ==
    /\ Ready
    /\ dq[d].live
    /\ dq[d].first # NULL
    /\ HXdeque_del(dq[d].first)

(* Pop or shift of an empty deque. *)
RemoveNone(d) ==
    /\ Ready
    /\ dq[d].live
    /\ dq[d].last = NULL \/ dq[d].first = NULL
    /\ ret' = NULL
    /\ UNCHANGED <<dq, node, lst, moved, call>>

(* The moves after which the chains are right: to behind the node that is, *)
(* once nd is out, the last of its deque, be it nd's own or another.       *)
Movable(nd, af) ==
    \/ node[af].next = NULL
    \/ node[af].next = nd /\ node[nd].next = NULL

(* A node goes from deque p to deque q. *)
Passes(p, q) ==
    [d \in Deques |-> moved[d] + (IF d = q THEN 1 ELSE 0)
                               - (IF d = p THEN 1 ELSE 0)]

HXdeque_move(nd, af) ==
    LET p == node[nd].parent
        q == node[af].parent
        rest == RemoveAt(lst[p], Index(nd))
        into == IF p = q THEN rest ELSE lst[q]
        at == CHOOSE i \in DOMAIN into : into[i] = af
    IN  /\ Ready
        /\ nd # af /\ nd \notin Free /\ af \notin Free
        /\ MoveAnywhere \/ Movable(nd, af)
        /\ node' = AddHeap(DropHeap(node, nd), af, nd)
        /\ dq' = AddHead(DropHead(dq, node, nd), node, af, nd)
        /\ lst' = [d \in Deques |-> IF d = q THEN InsertAt(into, at + 1, nd)
                                    ELSE IF d = p THEN rest ELSE lst[d]]
        /\ moved' = Passes(p, q)
        /\ \A d \in Deques : moved'[d] \in -MaxMoved .. MaxMoved
        /\ ret' = NULL
        /\ UNCHANGED call

-----------------------------------------------------------------------------
(* HXdeque_free and HXdeque_genocide2: the nodes one by one, then the head. *)
Mut_FreeBegin(d) ==
    /\ Ready
    /\ dq[d].live
    /\ call' = [Idle EXCEPT !.fn = "free", !.dq = d]
    /\ ret' = NULL
    /\ UNCHANGED <<dq, node, lst, moved>>

FreeBegin(d) ==
    /\ Ready
    /\ dq[d].live
    /\ call' = [Idle EXCEPT !.fn = "free", !.dq = d, !.cur = dq[d].first]
    /\ ret' = NULL
    /\ UNCHANGED <<dq, node, lst, moved>>

FreeNode ==
    /\ call.fn = "free"
    /\ call.cur # NULL
    /\ node' = [node EXCEPT ![call.cur] = NoNode]
    /\ call' = [call EXCEPT !.cur = node[call.cur].next]
    /\ lst' = [lst EXCEPT ![call.dq] = Tail(@)]
    /\ ret' = NULL
    /\ UNCHANGED <<dq, moved>>

FreeEnd ==
    /\ call.fn = "free"
    /\ call.cur = NULL
    /\ dq' = [dq EXCEPT ![call.dq] = NoHead]
    /\ moved' = [moved EXCEPT ![call.dq] = 0]
    /\ call' = Idle
    /\ ret' = NULL
    /\ UNCHANGED <<node, lst>>

(* HXdeque_to_veci, and HXdeque_to_vec_strdup where copying may fail:      *)
(* items + sentinel pointers are allocated, then written one per node.     *)
Mut_VecBegin(d) ==
    /\ Ready
    /\ dq[d].live
    /\ \E s \in {0, 1} :
         call' = [fn |-> "vec", dq |-> d, cur |-> dq[d].first,
                  room |-> dq[d].items, sentinel |-> s, out |-> <<>>]
    /\ ret' = NULL
    /\ UNCHANGED <<dq, node, lst, moved>>

VecBegin(d) ==
    /\ Ready
    /\ dq[d].live
    /\ \E s \in {0, 1} :
         call' = [fn |-> "vec", dq |-> d, cur |-> dq[d].first,
                  room |-> dq[d].items + s, sentinel |-> s, out |-> <<>>]
    /\ ret' = NULL
    /\ UNCHANGED <<dq, node, lst, moved>>

Mut_VecNode ==
    /\ call.fn = "vec"
    /\ call.cur # NULL
    /\ UNCHANGED vars

VecNode ==
    /\ call.fn = "vec"
    /\ call.cur # NULL
    /\ call' = [call EXCEPT !.out = Append(@, node[call.cur].ptr),
                            !.cur = node[call.cur].next]
    /\ ret' = NULL
    /\ UNCHANGED <<dq, node, lst, moved>>

VecEnd ==
    /\ call.fn = "vec"
    /\ call.cur = NULL
    /\ call' = Idle
    /\ ret' = NULL
    /\ UNCHANGED <<dq, node, lst, moved>>

(* strdup fails: HX_zvecfree undoes the copies made. *)
VecNoMem ==
    /\ call.fn = "vec"
    /\ call.sentinel = 1
    /\ call.cur # NULL
    /\ call' = Idle
    /\ ret' = NULL
    /\ UNCHANGED <<dq, node, lst, moved>>

-----------------------------------------------------------------------------
Next ==
    \/ \E d \in Deques :
          \/ HXdeque_init(d)
          \/ \E v \in Values : HXdeque_push(d, v) \/ HXdeque_unshift(d, v)
          \/ HXdeque_pop(d)
          \/ HXdeque_shift(d)
          \/ RemoveNone(d)
          \/ FreeBegin(d)
          \/ VecBegin(d)
    \/ \E n \in Nodes : Delete(n)
    \/ \E nd, af \in Nodes : HXdeque_move(nd, af)
    \/ FreeNode
    \/ FreeEnd
    \/ VecNode
    \/ VecEnd
    \/ VecNoMem

Spec == Init /\ [][Next]_vars

-----------------------------------------------------------------------------
(* Properties.                                                             *)

Ptr == Nodes \cup {NULL}

(* Type correctness.  items is a size_t; numbers below 0 stand for the     *)
(* ones just below its limit, where it goes when a deque loses more nodes  *)
(* than it was given by HXdeque_push and HXdeque_unshift.                  *)
TypeOK ==
    /\ dq \in [Deques -> [live : BOOLEAN, first : Ptr, last : Ptr, items : Int]]
    /\ node \in [Nodes -> [next : Ptr, prev : Ptr, parent : Deques \cup {NULL},
                           ptr : Values \cup {NULL}]]
    /\ lst \in [Deques -> Seq(Nodes)]
    /\ moved \in [Deques -> Int]
    /\ call \in [fn : {"none", "free", "vec"}, dq : Deques \cup {NULL}, cur : Ptr,
                 room : Int, sentinel : {0, 1}, out : Seq(Values \cup {NULL})]
    /\ ret \in Values \cup {NULL}

(* The ith element of a sequence of nodes, NULL outside it. *)
Elem(s, i) == IF i \in DOMAIN s THEN s[i] ELSE NULL

(* The deque whose nodes a free is releasing, whose head no longer counts. *)
Dying(d) == call.fn = "free" /\ call.dq = d

HeadOK(d) ==
    ~Dying(d) =>
        /\ dq[d].first = Elem(lst[d], 1)
        /\ dq[d].last = Elem(lst[d], Len(lst[d]))
        /\ dq[d].items + moved[d] = Len(lst[d])

LinksOK(d) ==
    \A i \in DOMAIN lst[d] :
        /\ node[lst[d][i]].parent = d
        /\ node[lst[d][i]].next = Elem(lst[d], i + 1)
        /\ ~Dying(d) => node[lst[d][i]].prev = Elem(lst[d], i - 1)

(* The pointers of every deque represent the list it should hold: forward  *)
(* from first, backward from last, with every node knowing its deque, and  *)
(* with items its length, but for the nodes moved between deques, which    *)
(* HXdeque_move does not count.  "HXdeque_move will unlink a node from its *)
(* list, and reinsert it after the given target node, which may be in a    *)
(* different list" (doc/linked_list.rst).                                  *)
ChainOK == \A d \in Deques : HeadOK(d) /\ LinksOK(d)

(* No node leaks or is in two places: each allocated node is in the list   *)
(* of its parent, at one place, and only existing deques have nodes.       *)
NodesOwned ==
    /\ \A n \in Nodes \ Free : \E i \in DOMAIN lst[node[n].parent] :
           lst[node[n].parent][i] = n
    /\ \A d \in Deques : \A i, j \in DOMAIN lst[d] : lst[d][i] = lst[d][j] => i = j
    /\ \A d \in Deques : ~dq[d].live => lst[d] = <<>>

(* A free releases what is left and only that: its cursor is at the first  *)
(* node not yet released.                                                  *)
FreeOK == call.fn = "free" => call.cur = Elem(lst[call.dq], 1)

(* HXdeque_to_vec delivers the deque's pointers in order, and writes all   *)
(* of the items + sentinel entries it has allocated and no other, unless   *)
(* nodes were moved between deques: then it goes exactly moved entries     *)
(* past them.                                                              *)
VecOK ==
    call.fn = "vec" =>
        LET s == lst[call.dq]
        IN  /\ call.room + moved[call.dq] = Len(s) + call.sentinel
            /\ Len(call.out) <= Len(s)
            /\ \A i \in DOMAIN call.out : call.out[i] = node[s[i]].ptr
            /\ call.cur = Elem(s, Len(call.out) + 1)

(* The two loops are where they should be. *)
LoopsOK == FreeOK /\ VecOK

CallLive == call.fn # "none" => call.dq \in Deques /\ dq[call.dq].live

NoneMoved == \A d \in Deques : ~dq[d].live => moved[d] = 0

IndInv ==
    TypeOK /\ ChainOK /\ NodesOwned /\ FreeOK /\ VecOK /\ CallLive /\ NoneMoved

(* Pop and shift hand back the data at the two ends.                       *)
EndsReturned ==
    [][\A d \in Deques :
          /\ HXdeque_pop(d) => ret' = node[lst[d][Len(lst[d])]].ptr
          /\ HXdeque_shift(d) => ret' = node[lst[d][1]].ptr]_vars

(* The loops of free and to_vec come to an end. *)
Fair == WF_vars(FreeNode \/ FreeEnd \/ VecNode \/ VecEnd)

LoopsEnd == call.fn # "none" ~> call.fn = "none"
=============================================================================
