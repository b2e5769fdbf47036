------------------------------- MODULE HXumap -------------------------------
(***************************************************************************)
(* The hash map of map.c: a bucket array of linked lists whose size steps  *)
(* through HXhash_primes, rehashed by HXumap_layout when the load leaves   *)
(* the band between min_load and max_load, with traversers that notice a   *)
(* change of the map by comparing transaction ids (tid).                   *)
(*                                                                         *)
(* A bucket list is a sequence of node addresses (HXlist is a module of    *)
(* its own); a node's address stays the same when HXumap_move relinks it,  *)
(* and an address may be handed out again by malloc after it was freed,    *)
(* so a traverser's head can dangle.  Every allocation may fail.  The      *)
(* library has no locks: calls do not overlap, and a caller holding        *)
(* traversers interleaves them with add and del as it likes.               *)
(*                                                                         *)
(* HXumap_add and HXumap_del run in one step unless they relayout.  Then   *)
(* call.pc goes through "move" (one step per relinked node, the loop of    *)
(* HXumap_move) and on to the rest of the caller; no other call can begin  *)
(* before it has ended.                                                    *)
(*                                                                         *)
(* Definitions named Mut_... are faulty variants of the definition that    *)
(* follows them.  Nothing uses them; they show that the properties can     *)
(* tell the code from a plausible mistake in it.                           *)
(***************************************************************************)
EXTENDS Integers, Sequences, FiniteSets, SequencesExt

CONSTANTS
    Keys,           \* keys, up to k_compare equality
    Values,         \* data pointers other than NULL
    NULL,           \* the null pointer
    Singular,       \* HXMAP_SINGULAR given at init
    Nodes,          \* addresses malloc can return for a struct HXumap_node
    Travs,          \* traversers the user may hold
    Hash,           \* k_hash
    LastPower,      \* ARRAY_SIZE(HXhash_primes) - 1
    HXhash_primes   \* bucket array sizes

(* x_frac: v * n / d in a way that does not overflow. *)
x_frac(n, d, v) == (v \div d) * n + ((v % d) * n) \div d

MinLoad(p) == IF p # 0 THEN HXhash_primes[p] \div 4 ELSE 0

MaxLoad(p) == x_frac(7, 10, HXhash_primes[p])

ASSUME NodesAssumption == NULL \notin Nodes /\ NULL \notin Keys

ASSUME HashAssumption == Hash \in [Keys -> Nat]

ASSUME PrimesAssumption ==
    /\ LastPower \in Nat
    /\ HXhash_primes \in [0 .. LastPower -> Nat \ {0}]

(* The bands of two neighbouring sizes overlap, so that a table just grown *)
(* is not over, and a table just shrunk not above, its new maximum.        *)
ASSUME LoadAssumption ==
    \A p \in 0 .. LastPower - 1 :
        MinLoad(p + 1) <= MaxLoad(p) /\ MaxLoad(p) < MaxLoad(p + 1)

ASSUME SingularAssumption == Singular \in BOOLEAN

VARIABLES
    alive,      \* between HXmap_init and HXmap_free
    noreplace,  \* flags & HXMAP_NOREPLACE, changeable at run time
    power,      \* index of the table size
    bk_array,   \* bucket lists
    node,       \* contents of the node at each address, Freed if none
    items,      \* super.items
    new_array,  \* HXumap_layout's new bucket array during a move
    call,       \* the call under way
    trav,       \* traversers
    ret         \* result of the last completed call

vars == <<alive, noreplace, power, bk_array, node, items, new_array, call,
          trav, ret>>

mapvars == <<alive, noreplace, power, bk_array, node, items, new_array, call>>

Data == Values \cup {NULL}

Freed == [key |-> NULL, data |-> NULL]

Allocated == {n \in Nodes : node[n].key # NULL}

EmptyArray(p) == [b \in 0 .. HXhash_primes[p] - 1 |-> <<>>]

BucketOf(k, p) == Hash[k] % HXhash_primes[p]

(* The nodes linked into an array, and the head of its first list in use. *)
Linked(arr) == {n \in Nodes : \E b \in DOMAIN arr :
                                 \E i \in DOMAIN arr[b] : arr[b][i] = n}

IsFirstInUse(arr, lo, b) ==
    /\ b \in DOMAIN arr
    /\ b >= lo
    /\ arr[b] # <<>>
    /\ \A c \in DOMAIN arr : c >= lo /\ c < b => arr[c] = <<>>

Idle == [pc |-> "idle", fn |-> "none", key |-> NULL, val |-> NULL,
         nd |-> NULL, to |-> 0]

NoTrav == [st |-> "none", head |-> NULL, bk_current |-> 0, sync |-> FALSE,
           seen |-> {}, must |-> {}, fresh |-> TRUE, moved |-> FALSE]

Result(op, k, v, err) == [op |-> op, key |-> k, val |-> v, err |-> err]

NoResult == Result("none", NULL, NULL, "0")

Init ==
    /\ alive = FALSE
    /\ noreplace \in BOOLEAN
    /\ power = 0
    /\ bk_array = EmptyArray(0)
    /\ node = [n \in Nodes |-> Freed]
    /\ items = 0
    /\ new_array = EmptyArray(0)
    /\ call = Idle
    /\ trav = [t \in Travs |-> NoTrav]
    /\ ret = NoResult

Ready == alive /\ call.pc = "idle"

-----------------------------------------------------------------------------
(* A traverser's sync says that its tid equals the map's, the only use the *)
(* code makes of either: tid is an unsigned int and only its wrapping      *)
(* around exactly between two calls of a traverser is left out.            *)
(*                                                                         *)
(* The other fields below are not in the code: seen, the nodes returned so *)
(* far; must, the nodes present ever since travinit; fresh, tid has not    *)
(* changed since; moved, the table has been relaid out.                    *)

(* ++tid when an entry is deleted, and when the table is laid out anew. *)
Mut_TidChanged == [t \in Travs |-> [trav[t] EXCEPT !.fresh = FALSE]]

TidChanged ==
    [t \in Travs |-> [trav[t] EXCEPT !.sync = FALSE, !.fresh = FALSE]]

TidMoved == [t \in Travs |-> [trav[t] EXCEPT !.sync = FALSE, !.fresh = FALSE,
                                             !.moved = TRUE]]

Forget(tr, nd) == [t \in Travs |-> [tr[t] EXCEPT !.seen = @ \ {nd},
                                                 !.must = @ \ {nd}]]

-----------------------------------------------------------------------------
(* HXhashmap_init4: an empty table of the smallest size. *)
HXhashmap_init4 ==
    /\ ~alive
    /\ alive' = TRUE
    /\ noreplace' \in BOOLEAN
    /\ power' = 0
    /\ bk_array' = EmptyArray(0)
    /\ items' = 0
    /\ ret' = NoResult
    /\ UNCHANGED <<node, new_array, call, trav>>

SetFlags ==
    /\ Ready
    /\ noreplace' = ~noreplace
    /\ UNCHANGED <<alive, power, bk_array, node, items, new_array, call,
                   trav, ret>>

(* HXumap_find: the entry of the key's bucket that compares equal.  The    *)
(* code takes the first; by UniqueKeys and LinkedOnce there is at most one.*)
Matches(k) == {i \in DOMAIN bk_array[BucketOf(k, power)] :
                  node[bk_array[BucketOf(k, power)][i]].key = k}

HXumap_find(k) ==
    IF Matches(k) = {} THEN NULL
    ELSE bk_array[BucketOf(k, power)][CHOOSE i \in Matches(k) : TRUE]

HXmap_get(k) ==
    /\ Ready
    /\ ret' = IF HXumap_find(k) = NULL
              THEN Result("get", k, NULL, "ENOENT")
              ELSE Result("get", k, node[HXumap_find(k)].data, "0")
    /\ UNCHANGED <<mapvars, trav>>

-----------------------------------------------------------------------------
(* HXumap_layout up to the move: the new array is allocated. *)
LayoutBegin(c, p) ==
    /\ new_array' = EmptyArray(p)
    /\ call' = [c EXCEPT !.pc = "move", !.to = p]

(* HXumap_move: the first entry left in the old array goes to the tail of  *)
(* its bucket in the new one.                                              *)
Mut_MoveOneOldSize(b) ==
    LET drop == Head(bk_array[b])
        bk_idx == BucketOf(node[drop].key, IF call.to > power THEN power ELSE call.to)
    IN  /\ new_array' = [new_array EXCEPT ![bk_idx] = Append(@, drop)]
        /\ bk_array' = [bk_array EXCEPT ![b] = Tail(@)]

MoveOne(b) ==
    LET drop == Head(bk_array[b])
        bk_idx == BucketOf(node[drop].key, call.to)
    IN  /\ new_array' = [new_array EXCEPT ![bk_idx] = Append(@, drop)]
        /\ bk_array' = [bk_array EXCEPT ![b] = Tail(@)]

HXumap_move ==
    /\ call.pc = "move"
    /\ \E b \in DOMAIN bk_array : IsFirstInUse(bk_array, 0, b) /\ MoveOne(b)
    /\ UNCHANGED <<alive, noreplace, power, node, items, call, trav, ret>>

(* The rest of HXumap_layout: the new array is installed and the old freed. *)
HXumap_layout ==
    /\ call.pc = "move"
    /\ \A b \in DOMAIN bk_array : bk_array[b] = <<>>
    /\ power' = call.to
    /\ bk_array' = new_array
    /\ new_array' = EmptyArray(0)
    /\ call' = [call EXCEPT !.pc = IF call.fn = "add" THEN "insert" ELSE "free"]
    /\ trav' = TidMoved
    /\ UNCHANGED <<alive, noreplace, node, items, ret>>

Mut_MustGrow == items > MaxLoad(power) /\ power < LastPower

MustGrow == items >= MaxLoad(power) /\ power < LastPower

MustShrink == items < MinLoad(power) /\ power > 0

(* The last part of HXumap_add, for a key known to be absent: a node is    *)
(* allocated, its key and data cloned, and it is linked at its bucket's    *)
(* tail.                                                                   *)
Insert(k, v) ==
    /\ \E nd \in Nodes \ Allocated :
         /\ node' = [node EXCEPT ![nd] = [key |-> k, data |-> v]]
         /\ bk_array' = [bk_array EXCEPT ![BucketOf(k, power)] = Append(@, nd)]
    /\ items' = items + 1
    /\ call' = Idle
    /\ ret' = Result("add", k, v, "0")
    /\ UNCHANGED <<alive, noreplace, power, new_array, trav>>

(* An allocation of HXumap_add fails: the partial node is undone. *)
AddNoMem(k, v) ==
    /\ call' = Idle
    /\ ret' = Result("add", k, v, "ENOMEM")
    /\ UNCHANGED <<alive, noreplace, power, bk_array, node, items,
                   new_array, trav>>

(* HXumap_replace. *)
Mut_HXumap_replace(k, v) ==
    /\ node' = [node EXCEPT ![HXumap_find(k)].data = v]
    /\ ret' = Result("add", k, v, "0")
    /\ UNCHANGED <<alive, noreplace, power, bk_array, items, new_array,
                   call, trav>>

HXumap_replace(k, v) ==
    \/ /\ noreplace
       /\ ret' = Result("add", k, v, "EEXIST")
       /\ UNCHANGED <<mapvars, trav>>
    \/ /\ ~noreplace
       /\ node' = [node EXCEPT ![HXumap_find(k)].data = v]
       /\ ret' = Result("add", k, v, "0")
       /\ UNCHANGED <<alive, noreplace, power, bk_array, items,
                      new_array, call, trav>>
    \/ /\ ~noreplace
       /\ v # NULL
       /\ AddNoMem(k, v)

AddCall(k, v) == [Idle EXCEPT !.fn = "add", !.key = k, !.val = v]

(* HXmap_add and HXumap_add up to the point where the table has its size. *)
HXmap_add(k, v) ==
    /\ Ready
    /\ \/ /\ Singular /\ v # NULL
          /\ ret' = Result("add", k, v, "EINVAL")
          /\ UNCHANGED <<mapvars, trav>>
       \/ /\ Singular => v = NULL
          /\ HXumap_find(k) # NULL
          /\ HXumap_replace(k, v)
       \/ /\ Singular => v = NULL
          /\ HXumap_find(k) = NULL
          /\ \/ /\ MustGrow \/ MustShrink
                /\ LayoutBegin(AddCall(k, v),
                               IF MustGrow THEN power + 1 ELSE power - 1)
                /\ UNCHANGED <<alive, noreplace, power, bk_array, node, items,
                               trav, ret>>
             \/ AddNoMem(k, v)
             \/ /\ ~MustGrow /\ ~MustShrink
                /\ Insert(k, v)

(* The rest of HXumap_add after a relayout. *)
AddAfterLayout ==
    /\ call.pc = "insert"
    /\ Insert(call.key, call.val) \/ AddNoMem(call.key, call.val)

-----------------------------------------------------------------------------
(* HXumap_del.  The node is unlinked at once and freed after a relayout. *)
Mut_FreeNode(nd, k, v) ==
    /\ node' = [node EXCEPT ![nd].data = NULL]
    /\ ret' = Result("del", k, v, "0")

FreeNode(nd, k, v) ==
    /\ node' = [node EXCEPT ![nd] = Freed]
    /\ ret' = Result("del", k, v, "0")

DelCall(k, nd) == [Idle EXCEPT !.fn = "del", !.key = k, !.nd = nd]

DelEntry(k, i) ==
    LET nd == bk_array[BucketOf(k, power)][i]
    IN  /\ bk_array' = [bk_array EXCEPT ![BucketOf(k, power)] = RemoveAt(@, i)]
        /\ items' = items - 1
        /\ \/ /\ items - 1 < MinLoad(power) /\ power > 0
              /\ LayoutBegin(DelCall(k, nd), power - 1)
              /\ trav' = TidChanged
              /\ UNCHANGED <<node, ret>>
           \/ /\ FreeNode(nd, k, node[nd].data)
              /\ trav' = Forget(TidChanged, nd)
              /\ UNCHANGED <<new_array, call>>
        /\ UNCHANGED <<alive, noreplace, power>>

HXmap_del(k) ==
    /\ Ready
    /\ \/ /\ Matches(k) = {}
          /\ ret' = Result("del", k, NULL, "ENOENT")
          /\ UNCHANGED <<mapvars, trav>>
       \/ \E i \in Matches(k) : DelEntry(k, i)

DelAfterLayout ==
    /\ call.pc = "free"
    /\ FreeNode(call.nd, call.key, node[call.nd].data)
    /\ call' = Idle
    /\ trav' = Forget(trav, call.nd)
    /\ UNCHANGED <<alive, noreplace, power, bk_array, items, new_array>>

-----------------------------------------------------------------------------
(* HXumap_travinit. *)
Mut_HXmap_travinit(t) ==
    /\ Ready
    /\ trav[t].st = "none"
    /\ trav' = [trav EXCEPT ![t] =
                   [st |-> "open", head |-> NULL, bk_current |-> 1,
                    sync |-> TRUE, seen |-> {}, must |-> Linked(bk_array),
                    fresh |-> TRUE, moved |-> FALSE]]
    /\ UNCHANGED <<mapvars, ret>>

HXmap_travinit(t) ==
    /\ Ready
    /\ trav[t].st = "none"
    /\ trav' = [trav EXCEPT ![t] =
                   [st |-> "open", head |-> NULL, bk_current |-> 0,
                    sync |-> TRUE, seen |-> {}, must |-> Linked(bk_array),
                    fresh |-> TRUE, moved |-> FALSE]]
    /\ UNCHANGED <<mapvars, ret>>

(* Traverser tr at the ith node of bucket b, which the call returns. *)
Visit(t, tr, b, i) ==
    /\ trav' = [trav EXCEPT ![t] = [tr EXCEPT !.head = bk_array[b][i],
                                              !.bk_current = b,
                                              !.seen = @ \cup {bk_array[b][i]}]]
    /\ ret' = Result("traverse", node[bk_array[b][i]].key,
                                 node[bk_array[b][i]].data, "0")

(* The call returns NULL.  The code leaves trav in a state from which it   *)
(* must not be called again.                                               *)
VisitEnd(t, tr) ==
    /\ trav' = [trav EXCEPT ![t] = [tr EXCEPT !.st = "end", !.head = NULL,
                                              !.bk_current = 0]]
    /\ ret' = Result("traverse", NULL, NULL, "0")

(* The while loop of HXumap_traverse: on to the first bucket in use. *)
FromBucket(t, tr, lo) ==
    \/ \E b \in DOMAIN bk_array : /\ IsFirstInUse(bk_array, lo, b)
                                  /\ Visit(t, tr, b, 1)
    \/ /\ \A b \in DOMAIN bk_array : b >= lo => bk_array[b] = <<>>
       /\ VisitEnd(t, tr)

(* The map has changed since the last call: the rest of the bucket is left *)
(* out, or everything if the bucket is no more.                            *)
Mut_AfterChange(t, tr) ==
    \/ /\ tr.bk_current >= HXhash_primes[power]
       /\ VisitEnd(t, tr)
    \/ /\ tr.bk_current < HXhash_primes[power]
       /\ FromBucket(t, [tr EXCEPT !.sync = TRUE], tr.bk_current)

Mut_AfterChangeRestart(t, tr) ==
    FromBucket(t, [tr EXCEPT !.sync = TRUE], 0)

AfterChange(t, tr) ==
    \/ /\ tr.bk_current >= HXhash_primes[power]
       /\ VisitEnd(t, tr)
    \/ /\ tr.bk_current < HXhash_primes[power]
       /\ FromBucket(t, [tr EXCEPT !.sync = TRUE], tr.bk_current + 1)

(* HXumap_traverse.  The last case follows head->next, which is defined    *)
(* only while head is linked (see HeadLinked).                             *)
HXumap_traverse(t) ==
    LET tr == trav[t]
        bk == tr.bk_current
    IN  /\ Ready
        /\ tr.st = "open"
        /\ \/ /\ tr.head = NULL
              /\ FromBucket(t, tr, bk)
           \/ /\ tr.head # NULL /\ ~tr.sync
              /\ AfterChange(t, tr)
           \/ /\ tr.head # NULL /\ tr.sync
              /\ \E i \in DOMAIN bk_array[bk] :
                   /\ bk_array[bk][i] = tr.head
                   /\ \/ /\ i < Len(bk_array[bk])
                         /\ Visit(t, tr, bk, i + 1)
                      \/ /\ i = Len(bk_array[bk])
                         /\ FromBucket(t, tr, bk + 1)
        /\ UNCHANGED mapvars

HXmap_travfree(t) ==
    /\ trav[t].st \in {"open", "end"}
    /\ call.pc = "idle"
    /\ trav' = [trav EXCEPT ![t] = NoTrav]
    /\ UNCHANGED <<mapvars, ret>>

(* HXumap_free: every linked node is freed.  The user has already released *)
(* the traversers, which point to the map.                                 *)
HXumap_free ==
    /\ Ready
    /\ \A t \in Travs : trav[t].st = "none"
    /\ alive' = FALSE
    /\ node' = [n \in Nodes |-> IF n \in Linked(bk_array) THEN Freed
                                                          ELSE node[n]]
    /\ power' = 0
    /\ bk_array' = EmptyArray(0)
    /\ items' = 0
    /\ ret' = NoResult
    /\ UNCHANGED <<noreplace, new_array, call, trav>>

-----------------------------------------------------------------------------
Next ==
    \/ HXhashmap_init4
    \/ SetFlags
    \/ \E k \in Keys : HXmap_get(k) \/ HXmap_del(k)
    \/ \E k \in Keys, v \in Data : HXmap_add(k, v)
    \/ HXumap_move
    \/ HXumap_layout
    \/ AddAfterLayout
    \/ DelAfterLayout
    \/ \E t \in Travs : \/ HXmap_travinit(t)
                        \/ HXumap_traverse(t)
                        \/ HXmap_travfree(t)
    \/ HXumap_free

Spec == Init /\ [][Next]_vars

-----------------------------------------------------------------------------
(* Properties.                                                             *)

Calls == [pc : {"idle", "move", "insert", "free"},
          fn : {"none", "add", "del"}, key : Keys \cup {NULL},
          val : Data, nd : Nodes \cup {NULL}, to : 0 .. LastPower]

Traversers == [st : {"none", "open", "end"}, head : Nodes \cup {NULL},
               bk_current : Nat, sync : BOOLEAN, seen : SUBSET Nodes,
               must : SUBSET Nodes, fresh : BOOLEAN, moved : BOOLEAN]

Arrays(p) == [0 .. HXhash_primes[p] - 1 -> Seq(Nodes)]

Results == [op : {"none", "add", "get", "del", "traverse"},
            key : Keys \cup {NULL}, val : Data,
            err : {"0", "EEXIST", "EINVAL", "ENOENT", "ENOMEM"}]

(* Type correctness: in particular both bucket arrays have the number of   *)
(* buckets of the size they were allocated for.                            *)
TypeOK ==
    /\ alive \in BOOLEAN
    /\ noreplace \in BOOLEAN
    /\ power \in 0 .. LastPower
    /\ bk_array \in Arrays(power)
    /\ node \in [Nodes -> [key : Keys \cup {NULL}, data : Data]]
    /\ items \in Nat
    /\ call \in Calls
    /\ new_array \in Arrays(IF call.pc = "move" THEN call.to ELSE 0)
    /\ trav \in [Travs -> Traversers]
    /\ ret \in Results

(* Node n is linked at position i of bucket b of arr, sized for power p. *)
At(arr, b, i, n) == b \in DOMAIN arr /\ i \in DOMAIN arr[b] /\ arr[b][i] = n

WellPlaced(arr, p) ==
    \A b \in DOMAIN arr : \A i \in DOMAIN arr[b] :
        /\ arr[b][i] \in Allocated
        /\ BucketOf(node[arr[b][i]].key, p) = b

(* Every linked node is allocated and sits in the bucket HXumap_find would *)
(* look in for its key, in the new array too while entries are moved.      *)
Placement ==
    /\ WellPlaced(bk_array, power)
    /\ WellPlaced(new_array, call.to)

OnceIn(arr) ==
    \A b1, b2 \in DOMAIN arr : \A i1 \in DOMAIN arr[b1], i2 \in DOMAIN arr[b2] :
        arr[b1][i1] = arr[b2][i2] => b1 = b2 /\ i1 = i2

(* No node is linked twice, neither within an array nor across the move.   *)
LinkedOnce ==
    /\ OnceIn(bk_array)
    /\ OnceIn(new_array)
    /\ Linked(bk_array) \cap Linked(new_array) = {}

(* HXumap_add never creates a second node for a key. *)
UniqueKeys ==
    \A m, n \in Allocated : node[m].key = node[n].key => m = n

(* HXumap_find finds every entry, and each key has one, at every step of a *)
(* relayout.                                                               *)
TableOK == Placement /\ LinkedOnce /\ UniqueKeys

(* Nothing is lost or leaked: the allocated nodes are the linked ones and  *)
(* the one HXumap_del has unlinked and not yet freed; items counts the     *)
(* linked ones, which is what HXmap_keysvalues sizes its array by; and     *)
(* nothing is left behind by HXumap_free.                                  *)
InTable == Linked(bk_array) \cup Linked(new_array)

NothingLost ==
    /\ Allocated = InTable \cup (IF call.fn = "del" THEN {call.nd} ELSE {})
    /\ items = Cardinality(InTable)
    /\ ~alive => Allocated = {}

(* The load factor stays bounded: unless the table has its largest size,   *)
(* items never exceeds max_load, whatever allocations fail.                *)
LoadBound == power < LastPower => items <= MaxLoad(power)

(* A traverser whose tid agrees with the map's follows trav->head->next;   *)
(* the head is then linked, in the bucket the traverser thinks it is in.   *)
HeadLinked ==
    \A t \in Travs :
        Ready /\ trav[t].st = "open" /\ trav[t].head # NULL /\ trav[t].sync
            => /\ trav[t].bk_current \in DOMAIN bk_array
               /\ \E i \in DOMAIN bk_array[trav[t].bk_current] :
                     bk_array[trav[t].bk_current][i] = trav[t].head

(* The rest of the inductive invariant, on which the proofs rest: what     *)
(* the call under way knows, and that no traverser is in step with a map   *)
(* whose entry is being deleted, or whose table has just been laid out.    *)
CallOK ==
    /\ call.pc = "idle" <=> call.fn = "none"
    /\ call.pc \in {"idle", "insert", "free"} => new_array = EmptyArray(0)
    /\ call.pc = "move" => items < MaxLoad(call.to)
    /\ call.pc = "insert" => items < MaxLoad(power) /\ call.fn = "add"
    /\ call.pc = "free" => call.fn = "del"
    /\ call.pc # "idle" => alive /\ call.key \in Keys
    /\ call.fn = "add" => /\ \A n \in Allocated : node[n].key # call.key
                          /\ Singular => call.val = NULL
    /\ call.fn = "del" => /\ call.nd \in Allocated \ InTable
                          /\ node[call.nd].key = call.key

TravOK ==
    \A t \in Travs :
        /\ ~alive => trav[t].st = "none"
        /\ call.pc \in {"insert", "free"} \/ call.fn = "del" => ~trav[t].sync

IndInv ==
    /\ TypeOK /\ Placement /\ LinkedOnce /\ UniqueKeys
    /\ NothingLost /\ IsFiniteSet(InTable)
    /\ LoadBound /\ HeadLinked /\ CallOK /\ TravOK

(* A traversal during which no entry was deleted and the table was not     *)
(* relaid out returns every entry that was there when it began.            *)
TraversalComplete ==
    \A t \in Travs :
        trav[t].st = "end" /\ trav[t].fresh => trav[t].must \subseteq trav[t].seen

(* HXumap_traverse never returns an entry twice while the table has not    *)
(* been relaid out, whatever was added and deleted in the meantime.        *)
NoRepeat ==
    [][\A t \in Travs :
          HXumap_traverse(t) /\ ~trav[t].moved
              => trav'[t].head \notin trav[t].seen]_vars

(* What doc/maps.rst says of hash maps: "The insertion or deletion of an   *)
(* element may cause the internal data structure to re-layout itself.      *)
(* When this happens, the traverser will stop, so as to not return entries *)
(* twice."                                                                 *)
NeverTwice ==
    [][\A t \in Travs :
          HXumap_traverse(t) => trav'[t].head \notin trav[t].seen]_vars

(* The dictionary the hash map stands for, and that it implements HXmap.   *)
NodeFor(k) == CHOOSE n \in Allocated : node[n].key = k

Dict == [k \in {node[n].key : n \in Allocated} |-> node[NodeFor(k)].data]

Map == INSTANCE HXmap WITH dict <- Dict

(* The hash map is a dictionary: finds, adds, replacements and deletions,  *)
(* across relayouts and failed allocations, have the results and effects   *)
(* HXmap gives them.                                                       *)
ImplementsMap == Map!Spec

(* A traversal ends, if the caller keeps calling HXmap_traverse, however   *)
(* many entries are added and deleted, and the table laid out anew,        *)
(* between its calls and forever.                                          *)
LiveSpec ==
    /\ Spec
    /\ WF_vars(HXumap_move \/ HXumap_layout \/ AddAfterLayout \/ DelAfterLayout)
    /\ \A t \in Travs : SF_vars(HXumap_traverse(t))

TraversalEnds ==
    \A t \in Travs : trav[t].st = "open" ~> trav[t].st # "open"
=============================================================================
