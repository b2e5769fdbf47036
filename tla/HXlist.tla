------------------------------- MODULE HXlist ------------------------------
(***************************************************************************)
(* Intrusive lists (list.h): rings of next and prev pointers through a     *)
(* head, and HXclist, whose heads also count.  The user owns the nodes, is *)
(* not to link a node twice nor unlink one that is in no list, and may     *)
(* unlink the current node in the body of one of the _safe loops.          *)
(***************************************************************************)
EXTENDS Integers, Sequences, SequencesExt

CONSTANTS
    Heads,      \* struct HXlist_head used as lists
    CHeads,     \* struct HXclist_head
    Nodes,      \* struct HXlist_head inside of the user's structures
    NoNode      \* the null pointer

VARIABLES
    next, prev, \* the pointers of heads and nodes
    items,      \* the counters of HXclist heads
    loop,       \* a for_each_safe or for_each_rev_safe loop under way
    lst         \* history: the list behind each head by what its calls promise

listvars == <<next, prev, items, loop, lst>>

AllHeads == Heads \cup CHeads

NoLoop == [head |-> NoNode]

(* HXlist_init and HXclist_init. *)
ListInit ==
    /\ next = [p \in AllHeads \cup Nodes |-> IF p \in AllHeads THEN p ELSE NoNode]
    /\ prev = next
    /\ items = [h \in CHeads |-> 0]
    /\ loop = NoLoop
    /\ lst = [h \in AllHeads |-> <<>>]

Linked == UNION {Range(lst[h]) : h \in AllHeads}

-----------------------------------------------------------------------------
(* __HXlist_add *)
Add(nu, p, n) ==
    /\ next' = [next EXCEPT ![nu] = n, ![p] = nu]
    /\ prev' = [prev EXCEPT ![nu] = p, ![n] = nu]

Mut_HXlist_del(entry) ==
    /\ next' = [next EXCEPT ![prev[entry]] = next[entry], ![entry] = NoNode]
    /\ prev' = [prev EXCEPT ![entry] = NoNode]

HXlist_del(entry) ==
    /\ next' = [next EXCEPT ![prev[entry]] = next[entry], ![entry] = NoNode]
    /\ prev' = [prev EXCEPT ![next[entry]] = prev[entry], ![entry] = NoNode]

Count(h, d) == items' = [c \in CHeads |-> IF c = h THEN items[c] + d ELSE items[c]]

(* HXlist_add and HXclist_unshift. *)
HXlist_add(h, nu) ==
    /\ nu \notin Linked
    /\ Add(nu, h, next[h])
    /\ Count(h, 1)
    /\ lst' = [lst EXCEPT ![h] = <<nu>> \o @]
    /\ UNCHANGED loop

(* HXlist_add_tail and HXclist_push. *)
HXlist_add_tail(h, nu) ==
    /\ nu \notin Linked
    /\ Add(nu, prev[h], h)
    /\ Count(h, 1)
    /\ lst' = [lst EXCEPT ![h] = Append(@, nu)]
    /\ UNCHANGED loop

(* A list without its element, which it has once. *)
Without(s, entry) == RemoveAt(s, CHOOSE i \in DOMAIN s : s[i] = entry)

Unlink(h, entry) ==
    /\ HXlist_del(entry)
    /\ Count(h, -1)
    /\ lst' = [lst EXCEPT ![h] = Without(@, entry)]

(* HXlist_del and HXclist_del, outside of loops. *)
HXclist_del(h, entry) ==
    /\ entry \in Range(lst[h])
    /\ Unlink(h, entry)
    /\ UNCHANGED loop

HXclist_pop(h) ==
    /\ h # next[h]
    /\ Unlink(h, prev[h])
    /\ UNCHANGED loop

HXclist_shift(h) ==
    /\ h # next[h]
    /\ Unlink(h, next[h])
    /\ UNCHANGED loop

-----------------------------------------------------------------------------
(* HXlist_for_each_safe and HXlist_for_each_rev_safe: n is read before the *)
(* body runs.                                                              *)
Dir(rev) == IF rev THEN prev ELSE next

Follow(p) == (IF loop.rev THEN prev' ELSE next')[p]

LoopBegin(h, rev) ==
    /\ loop' = [head |-> h, rev |-> rev, pos |-> Dir(rev)[h], n |-> Dir(rev)[Dir(rev)[h]],
                seen |-> <<>>, all |-> IF rev THEN Reverse(lst[h]) ELSE lst[h]]
    /\ UNCHANGED <<next, prev, items, lst>>

(* The body, which may unlink the current node, and the step to the next. *)
LoopBody(unlink) ==
    /\ loop # NoLoop
    /\ loop.pos # loop.head
    /\ IF unlink THEN Unlink(loop.head, loop.pos) ELSE UNCHANGED <<next, prev, items, lst>>
    /\ loop' = [loop EXCEPT !.seen = Append(@, loop.pos), !.pos = loop.n,
                            !.n = Follow(loop.n)]

LoopEnd ==
    /\ loop # NoLoop
    /\ loop.pos = loop.head
    /\ loop' = NoLoop
    /\ UNCHANGED <<next, prev, items, lst>>

-----------------------------------------------------------------------------
ListNext ==
    \/ /\ loop = NoLoop
       /\ \E h \in AllHeads :
            \/ \E nd \in Nodes : HXlist_add(h, nd) \/ HXlist_add_tail(h, nd) \/ HXclist_del(h, nd)
            \/ \E rev \in BOOLEAN : LoopBegin(h, rev)
    \/ /\ loop = NoLoop
       /\ \E h \in CHeads : HXclist_pop(h) \/ HXclist_shift(h)
    \/ \E unlink \in BOOLEAN : LoopBody(unlink)
    \/ LoopEnd

ListSpec == ListInit /\ [][ListNext]_listvars

(* What the theorems assume of the constants: heads and nodes are          *)
(* different objects, and none of them is at the null pointer.             *)
ListAssumption ==
    /\ AllHeads \cap Nodes = {}
    /\ NoNode \notin AllHeads \cup Nodes

(* The pointers of every list are the ring of its nodes in their order,    *)
(* forward and backward, and the counter is their number.                  *)
RingOK ==
    \A h \in AllHeads :
      LET ring == <<h>> \o lst[h] \o <<h>>
      IN  /\ \A i \in 1 .. Len(ring) - 1 :
               next[ring[i]] = ring[i + 1] /\ prev[ring[i + 1]] = ring[i]
          /\ h \in CHeads => items[h] = Len(lst[h])

(* A safe loop visits exactly the nodes that were in the list when it      *)
(* began, each once and in order, whichever of them its body unlinks.      *)
SafeLoop ==
    loop # NoLoop =>
      /\ IsPrefix(loop.seen, loop.all)
      /\ loop.pos = loop.head <=> loop.seen = loop.all

(* The lists are what their calls say, and so are loops over them. *)
ListOK == RingOK /\ SafeLoop

=============================================================================
