--------------------------- MODULE HXdeque_proofs ---------------------------
(* Machine-checked proofs about the deque, for any number of deques, nodes *)
(* and data pointers, as long as HXdeque_move is called only for the moves *)
(* that work (MoveAnywhere is FALSE): to the end of the same or of another *)
(* deque.  OtherMovesBreak shows that no weaker assumption would do.       *)
EXTENDS HXdeque, TLAPS

-----------------------------------------------------------------------------
(* Sequences.                                                              *)

(* What is left of a sequence without its element at place i. *)
LEMMA RemoveAtProps ==
    ASSUME NEW S, NEW s \in Seq(S), NEW i \in DOMAIN s
    PROVE  /\ RemoveAt(s, i) \in Seq(S)
           /\ Len(RemoveAt(s, i)) = Len(s) - 1
           /\ \A j \in 1 .. Len(s) - 1 :
                 RemoveAt(s, i)[j] = IF j < i THEN s[j] ELSE s[j + 1]
<1> DEFINE l == SubSeq(s, 1, i - 1)
           r == SubSeq(s, i + 1, Len(s))
<1>1. i \in 1 .. Len(s) /\ Len(s) \in Nat
    OBVIOUS
<1>2. /\ l \in Seq(S) /\ Len(l) = i - 1
      /\ \A j \in 1 .. i - 1 : l[j] = s[j]
    BY <1>1
<1>3. /\ r \in Seq(S) /\ Len(r) = Len(s) - i
      /\ \A j \in 1 .. Len(s) - i : r[j] = s[i + j]
    BY <1>1
<1>4. RemoveAt(s, i) = l \o r
    BY DEF RemoveAt
<1> HIDE DEF l, r
<1>5. l \o r \in Seq(S) /\ Len(l \o r) = Len(s) - 1
    BY <1>1, <1>2, <1>3
<1>6. ASSUME NEW j \in 1 .. Len(s) - 1
      PROVE  (l \o r)[j] = IF j < i THEN s[j] ELSE s[j + 1]
    <2>1. CASE j < i
        BY <2>1, <1>1, <1>2, <1>3
    <2>2. CASE j >= i
        <3>1. (l \o r)[j] = r[j - (i - 1)]
            <4>1. /\ Len(l) \in Nat /\ Len(r) \in Nat
                  /\ j \in Nat /\ j > Len(l) /\ j <= Len(l) + Len(r)
                  /\ Len(l) = i - 1
                BY <2>2, <1>1, <1>2, <1>3
            <4>2. l \in Seq(S) /\ r \in Seq(S)
                BY <1>2, <1>3
            <4>3. \A m \in 1 .. Len(l) + Len(r) :
                     (l \o r)[m] = IF m <= Len(l) THEN l[m] ELSE r[m - Len(l)]
                BY <4>2
            <4> QED
                BY <4>1, <4>3
        <3>2. j - (i - 1) \in 1 .. Len(s) - i
            BY <2>2, <1>1
        <3> QED
            BY <3>1, <3>2, <2>2, <1>1, <1>3
    <2>3. j < i \/ j >= i
        BY <1>1
    <2> QED
        BY <2>1, <2>2, <2>3
<1> QED
    BY <1>4, <1>5, <1>6

(* Inserting behind the last element is appending. *)
LEMMA InsertLast ==
    ASSUME NEW S, NEW s \in Seq(S), NEW x \in S
    PROVE  InsertAt(s, Len(s) + 1, x) = Append(s, x)
<1>1. InsertAt(s, Len(s) + 1, x)
          = SubSeq(s, 1, Len(s)) \o <<x>> \o SubSeq(s, Len(s) + 1, Len(s))
    BY DEF InsertAt
<1>2. SubSeq(s, 1, Len(s)) = s
    OBVIOUS
<1>3. SubSeq(s, Len(s) + 1, Len(s)) = <<>>
    OBVIOUS
<1>4. s \o <<x>> \o <<>> = Append(s, x)
    OBVIOUS
<1> QED
    BY <1>1, <1>2, <1>3, <1>4

(* The element inserted at place i and the one it pushes on. *)
LEMMA InsertProps ==
    ASSUME NEW S, NEW s \in Seq(S), NEW x \in S, NEW i \in DOMAIN s
    PROVE  /\ i \in DOMAIN InsertAt(s, i, x)
           /\ i + 1 \in DOMAIN InsertAt(s, i, x)
           /\ InsertAt(s, i, x)[i] = x
           /\ InsertAt(s, i, x)[i + 1] = s[i]
<1> DEFINE l == SubSeq(s, 1, i - 1) \o <<x>>
           r == SubSeq(s, i, Len(s))
<1>1. i \in 1 .. Len(s) /\ Len(s) \in Nat
    OBVIOUS
<1>2. l \in Seq(S) /\ Len(l) = i /\ l[i] = x
    BY <1>1
<1>3. r \in Seq(S) /\ Len(r) = Len(s) - i + 1 /\ r[1] = s[i]
    BY <1>1
<1>4. InsertAt(s, i, x) = l \o r
    BY DEF InsertAt
<1> HIDE DEF l, r
<1>5. /\ Len(l \o r) = Len(s) + 1 /\ DOMAIN (l \o r) = 1 .. Len(s) + 1
      /\ (l \o r)[i] = x
    BY <1>1, <1>2, <1>3
<1>6. (l \o r)[i + 1] = s[i]
    <2>1. /\ l \in Seq(S) /\ r \in Seq(S) /\ Len(l) = i /\ i \in Nat
          /\ Len(r) >= 1 /\ Len(r) \in Nat
        BY <1>1, <1>2, <1>3
    <2>2. \A m \in 1 .. Len(l) + Len(r) :
             (l \o r)[m] = IF m <= Len(l) THEN l[m] ELSE r[m - Len(l)]
        <3>1. l \in Seq(S) /\ r \in Seq(S) /\ Len(l) \in Nat /\ Len(r) \in Nat
            BY <2>1
        <3> QED
            BY <3>1
    <2>3. i + 1 \in 1 .. Len(l) + Len(r)
        BY <2>1
    <2>4. ~(i + 1 <= Len(l)) /\ (i + 1) - Len(l) = 1
        BY <2>1
    <2>5. (l \o r)[i + 1] = r[(i + 1) - Len(l)]
        BY <2>2, <2>3, <2>4, Zenon
    <2> QED
        BY <2>4, <2>5, <1>3
<1> QED
    BY <1>1, <1>4, <1>5, <1>6

-----------------------------------------------------------------------------
(* Chains of nodes.                                                        *)

Cells == [next : Ptr, prev : Ptr, parent : Deques \cup {NULL},
          ptr : Values \cup {NULL}]

(* The nodes of s are linked to each other in h in this order, as deque d. *)
Chain(h, s, d) ==
    /\ h \in [Nodes -> Cells]
    /\ s \in Seq(Nodes)
    /\ \A i \in DOMAIN s : /\ h[s[i]].parent = d
                           /\ h[s[i]].next = Elem(s, i + 1)
                           /\ h[s[i]].prev = Elem(s, i - 1)
    /\ \A i, j \in DOMAIN s : s[i] = s[j] => i = j

(* g and t are the heap h and the chain s without the ith node of s. *)
Dropped(h, s, d, i, g, t) ==
    /\ Chain(g, t, d)
    /\ \A j \in DOMAIN t : t[j] # s[i]
    /\ \A j \in DOMAIN s : j # i => \E k \in DOMAIN t : t[k] = s[j]
    /\ \A n \in Nodes : g[n].parent = h[n].parent
    /\ \A n \in Nodes : g[n].ptr = h[n].ptr
    /\ \A n \in Nodes : h[n].parent # d => g[n] = h[n]

(* HXdeque_drop of the ith node leaves the chain of the others. *)
LEMMA DropChain ==
    ASSUME NEW h, NEW s, NEW d, NEW i, Chain(h, s, d), i \in DOMAIN s
    PROVE  Dropped(h, s, d, i, DropHeap(h, s[i]), RemoveAt(s, i))
<1> DEFINE t == RemoveAt(s, i)
           g == DropHeap(h, s[i])
           up(j) == IF j < i THEN j ELSE j + 1
<1>1. /\ h \in [Nodes -> Cells] /\ s \in Seq(Nodes)
      /\ i \in 1 .. Len(s) /\ Len(s) \in Nat /\ s[i] \in Nodes
      /\ DOMAIN s = 1 .. Len(s)
    BY DEF Chain
<1>2. /\ t \in Seq(Nodes) /\ Len(t) = Len(s) - 1
      /\ \A j \in 1 .. Len(s) - 1 : t[j] = s[up(j)]
    BY <1>1, RemoveAtProps
<1>3. \A m \in Nodes :
         /\ g[m] \in Cells
         /\ g[m].next = IF m = Elem(s, i - 1) THEN Elem(s, i + 1) ELSE h[m].next
         /\ g[m].prev = IF m = Elem(s, i + 1) THEN Elem(s, i - 1) ELSE h[m].prev
         /\ g[m].parent = h[m].parent
         /\ g[m].ptr = h[m].ptr
    <2>1. h[s[i]].next = Elem(s, i + 1) /\ h[s[i]].prev = Elem(s, i - 1)
        BY <1>1 DEF Chain
    <2>2. Elem(s, i + 1) \in Ptr /\ Elem(s, i - 1) \in Ptr
        BY <1>1 DEF Elem, Ptr
    <2> QED
        BY <1>1, <2>1, <2>2 DEF DropHeap, Cells
<1>4. g \in [Nodes -> Cells]
    BY <1>1, <1>3 DEF DropHeap
<1>5. \A j \in 1 .. Len(s) - 1 : up(j) \in 1 .. Len(s) /\ up(j) # i
    BY <1>1
<1>6. \A j, k \in 1 .. Len(s) - 1 : up(j) = up(k) => j = k
    BY <1>1
<1> HIDE DEF t, g
<1>7. DOMAIN t = 1 .. Len(s) - 1
    BY <1>1, <1>2
<1>8. \A j, k \in DOMAIN s : s[j] = s[k] => j = k
    BY DEF Chain
<1>9. ASSUME NEW j \in DOMAIN t
      PROVE  /\ g[t[j]].parent = d
             /\ g[t[j]].next = Elem(t, j + 1)
             /\ g[t[j]].prev = Elem(t, j - 1)
    <2>1. /\ j \in 1 .. Len(s) - 1 /\ t[j] = s[up(j)] /\ t[j] \in Nodes
          /\ up(j) \in 1 .. Len(s) /\ up(j) # i
        BY <1>1, <1>2, <1>5, <1>7
    <2>2. /\ h[t[j]].parent = d
          /\ h[t[j]].next = Elem(s, up(j) + 1)
          /\ h[t[j]].prev = Elem(s, up(j) - 1)
        BY <2>1, <1>1 DEF Chain
    <2>3. t[j] = Elem(s, i - 1) <=> up(j) = i - 1
        BY <2>1, <1>1, <1>8, DequeAssumption DEF Elem
    <2>4. t[j] = Elem(s, i + 1) <=> up(j) = i + 1
        BY <2>1, <1>1, <1>8, DequeAssumption DEF Elem
    <2>5. g[t[j]].next = Elem(t, j + 1)
        <3>1. CASE up(j) = i - 1
            BY <3>1, <2>1, <2>3, <1>1, <1>2, <1>3, <1>7 DEF Elem
        <3>2. CASE up(j) # i - 1
            <4>1. g[t[j]].next = Elem(s, up(j) + 1)
                BY <3>2, <2>1, <2>2, <2>3, <1>3
            <4>2. j + 1 \in DOMAIN t <=> up(j) + 1 \in DOMAIN s
                BY <3>2, <2>1, <1>1, <1>7
            <4>3. j + 1 \in DOMAIN t => t[j + 1] = s[up(j) + 1]
                <5>1. up(j + 1) = up(j) + 1
                    BY <3>2, <2>1, <1>1
                <5> QED
                    BY <5>1, <1>2, <1>7
            <4> HIDE DEF up
            <4> QED
                BY <4>1, <4>2, <4>3 DEF Elem
        <3> QED
            BY <3>1, <3>2
    <2>6. g[t[j]].prev = Elem(t, j - 1)
        <3>1. CASE up(j) = i + 1
            BY <3>1, <2>1, <2>4, <1>1, <1>2, <1>3, <1>7 DEF Elem
        <3>2. CASE up(j) # i + 1
            <4>1. g[t[j]].prev = Elem(s, up(j) - 1)
                BY <3>2, <2>1, <2>2, <2>4, <1>3
            <4>2. j - 1 \in DOMAIN t <=> up(j) - 1 \in DOMAIN s
                BY <3>2, <2>1, <1>1, <1>7
            <4>3. j - 1 \in DOMAIN t => t[j - 1] = s[up(j) - 1]
                <5>1. up(j - 1) = up(j) - 1
                    BY <3>2, <2>1, <1>1
                <5> QED
                    BY <5>1, <1>2, <1>7
            <4> HIDE DEF up
            <4> QED
                BY <4>1, <4>2, <4>3 DEF Elem
        <3> QED
            BY <3>1, <3>2
    <2> QED
        BY <2>1, <2>2, <2>5, <2>6, <1>3
<1>10. Chain(g, t, d)
    <2>1. ASSUME NEW j \in DOMAIN t, NEW k \in DOMAIN t, t[j] = t[k]
          PROVE  j = k
        BY <2>1, <1>1, <1>2, <1>5, <1>6, <1>7, <1>8
    <2> QED
        BY <2>1, <1>2, <1>4, <1>9 DEF Chain
<1>11. \A j \in DOMAIN t : t[j] # s[i]
    BY <1>1, <1>2, <1>5, <1>7, <1>8
<1>12. ASSUME NEW j \in DOMAIN s, j # i
       PROVE  \E k \in DOMAIN t : t[k] = s[j]
    <2>1. CASE j < i
        <3>1. j \in DOMAIN t /\ t[j] = s[j]
            BY <2>1, <1>1, <1>2, <1>7
        <3> QED
            BY <3>1
    <2>2. CASE j > i
        <3>1. j - 1 \in DOMAIN t /\ t[j - 1] = s[j]
            BY <2>2, <1>1, <1>2, <1>7
        <3> QED
            BY <3>1
    <2> QED
        BY <2>1, <2>2, <1>12, <1>1
<1>13. ASSUME NEW n \in Nodes, h[n].parent # d
       PROVE  g[n] = h[n]
    <2>1. \A k \in DOMAIN s : n # s[k]
        BY <1>13 DEF Chain
    <2>2. n # Elem(s, i - 1) /\ n # Elem(s, i + 1)
        BY <2>1, DequeAssumption DEF Elem
    <2> QED
        BY <2>2, <1>1, <1>3 DEF Cells
<1> QED
    BY <1>3, <1>10, <1>11, <1>12, <1>13 DEF t, g, Dropped

(* A chain does not depend on any node but its own. *)
LEMMA FrameChain ==
    ASSUME NEW h, NEW g, NEW s, NEW d, Chain(h, s, d), g \in [Nodes -> Cells],
           \A i \in DOMAIN s : g[s[i]] = h[s[i]]
    PROVE  Chain(g, s, d)
    BY DEF Chain

(* Node nd has been linked in behind, or in front of, the chain s. *)
LinkedLast(h, s, d, nd, g) ==
    /\ g \in [Nodes -> Cells]
    /\ nd \in Nodes /\ \A i \in DOMAIN s : s[i] # nd
    /\ g[nd].parent = d /\ g[nd].next = NULL /\ g[nd].prev = Elem(s, Len(s))
    /\ \A n \in Nodes \ {nd} :
          /\ g[n].parent = h[n].parent
          /\ g[n].prev = h[n].prev
          /\ g[n].next = IF n = Elem(s, Len(s)) THEN nd ELSE h[n].next

LinkedFirst(h, s, d, nd, g) ==
    /\ g \in [Nodes -> Cells]
    /\ nd \in Nodes /\ \A i \in DOMAIN s : s[i] # nd
    /\ g[nd].parent = d /\ g[nd].prev = NULL /\ g[nd].next = Elem(s, 1)
    /\ \A n \in Nodes \ {nd} :
          /\ g[n].parent = h[n].parent
          /\ g[n].next = h[n].next
          /\ g[n].prev = IF n = Elem(s, 1) THEN nd ELSE h[n].prev

(* Linking a node in behind a chain appends it. *)
LEMMA AppendChain ==
    ASSUME NEW h, NEW s, NEW d, NEW nd, NEW g,
           Chain(h, s, d), LinkedLast(h, s, d, nd, g)
    PROVE  Chain(g, Append(s, nd), d)
<1> DEFINE t == Append(s, nd)
<1>1. /\ s \in Seq(Nodes) /\ nd \in Nodes /\ Len(s) \in Nat
      /\ DOMAIN s = 1 .. Len(s)
    BY DEF Chain, LinkedLast
<1>2. /\ t \in Seq(Nodes) /\ Len(t) = Len(s) + 1 /\ t[Len(s) + 1] = nd
      /\ \A j \in 1 .. Len(s) : t[j] = s[j]
      /\ DOMAIN t = 1 .. Len(s) + 1
    BY <1>1
<1> HIDE DEF t
<1>3. ASSUME NEW j \in DOMAIN t
      PROVE  /\ g[t[j]].parent = d
             /\ g[t[j]].next = Elem(t, j + 1)
             /\ g[t[j]].prev = Elem(t, j - 1)
    <2>1. CASE j = Len(s) + 1
        <3>1. Elem(t, j + 1) = NULL
            BY <2>1, <1>1, <1>2 DEF Elem
        <3>2. Elem(t, j - 1) = Elem(s, Len(s))
            BY <2>1, <1>1, <1>2 DEF Elem
        <3> QED
            BY <2>1, <3>1, <3>2, <1>2 DEF LinkedLast
    <2>2. CASE j \in 1 .. Len(s)
        <3>1. t[j] = s[j] /\ s[j] \in Nodes \ {nd}
            BY <2>2, <1>1, <1>2 DEF LinkedLast
        <3>2. /\ h[s[j]].parent = d
              /\ h[s[j]].next = Elem(s, j + 1)
              /\ h[s[j]].prev = Elem(s, j - 1)
            BY <2>2, <1>1 DEF Chain
        <3>3. s[j] = Elem(s, Len(s)) <=> j = Len(s)
            BY <2>2, <1>1, DequeAssumption DEF Chain, Elem
        <3>4. Elem(t, j - 1) = Elem(s, j - 1)
            BY <2>2, <1>1, <1>2 DEF Elem
        <3>5. Elem(t, j + 1) = IF j = Len(s) THEN nd ELSE Elem(s, j + 1)
            BY <2>2, <1>1, <1>2 DEF Elem
        <3> QED
            BY <3>1, <3>2, <3>3, <3>4, <3>5 DEF LinkedLast
    <2> QED
        BY <2>1, <2>2, <1>1, <1>2
<1>4. ASSUME NEW j \in DOMAIN t, NEW k \in DOMAIN t, t[j] = t[k]
      PROVE  j = k
    BY <1>4, <1>1, <1>2 DEF Chain, LinkedLast
<1>5. Chain(g, t, d)
    BY <1>2, <1>3, <1>4 DEF Chain, LinkedLast
<1> QED
    BY <1>5 DEF t

(* Linking a node in front of a chain prepends it. *)
LEMMA PrependChain ==
    ASSUME NEW h, NEW s, NEW d, NEW nd, NEW g,
           Chain(h, s, d), LinkedFirst(h, s, d, nd, g)
    PROVE  Chain(g, <<nd>> \o s, d)
<1> DEFINE t == <<nd>> \o s
<1>1. /\ s \in Seq(Nodes) /\ nd \in Nodes /\ Len(s) \in Nat
      /\ DOMAIN s = 1 .. Len(s)
    BY DEF Chain, LinkedFirst
<1>2. /\ t \in Seq(Nodes) /\ Len(t) = Len(s) + 1 /\ t[1] = nd
      /\ \A j \in 2 .. Len(s) + 1 : t[j] = s[j - 1]
      /\ DOMAIN t = 1 .. Len(s) + 1
    BY <1>1
<1> HIDE DEF t
<1>3. ASSUME NEW j \in DOMAIN t
      PROVE  /\ g[t[j]].parent = d
             /\ g[t[j]].next = Elem(t, j + 1)
             /\ g[t[j]].prev = Elem(t, j - 1)
    <2>1. CASE j = 1
        <3>1. Elem(t, j - 1) = NULL
            BY <2>1, <1>1, <1>2 DEF Elem
        <3>2. Elem(t, j + 1) = Elem(s, 1)
            BY <2>1, <1>1, <1>2 DEF Elem
        <3> QED
            BY <2>1, <3>1, <3>2, <1>2 DEF LinkedFirst
    <2>2. CASE j \in 2 .. Len(s) + 1
        <3>1. t[j] = s[j - 1] /\ s[j - 1] \in Nodes \ {nd}
            BY <2>2, <1>1, <1>2 DEF LinkedFirst
        <3>2. /\ h[s[j - 1]].parent = d
              /\ h[s[j - 1]].next = Elem(s, (j - 1) + 1)
              /\ h[s[j - 1]].prev = Elem(s, (j - 1) - 1)
            BY <2>2, <1>1 DEF Chain
        <3>3. s[j - 1] = Elem(s, 1) <=> j = 2
            BY <2>2, <1>1, DequeAssumption DEF Chain, Elem
        <3>4. Elem(t, j + 1) = Elem(s, (j - 1) + 1)
            BY <2>2, <1>1, <1>2 DEF Elem
        <3>5. Elem(t, j - 1) = IF j = 2 THEN nd ELSE Elem(s, (j - 1) - 1)
            BY <2>2, <1>1, <1>2 DEF Elem
        <3> QED
            BY <3>1, <3>2, <3>3, <3>4, <3>5 DEF LinkedFirst
    <2> QED
        BY <2>1, <2>2, <1>1, <1>2
<1>4. ASSUME NEW j \in DOMAIN t, NEW k \in DOMAIN t, t[j] = t[k]
      PROVE  j = k
    <2>1. \A m \in DOMAIN t : m # 1 => m - 1 \in DOMAIN s /\ t[m] = s[m - 1] /\ t[m] # nd
        BY <1>1, <1>2 DEF LinkedFirst
    <2>2. CASE j = 1 \/ k = 1
        BY <2>1, <2>2, <1>4, <1>2
    <2>3. CASE j # 1 /\ k # 1
        <3>1. j - 1 = k - 1
            BY <2>1, <2>3, <1>4 DEF Chain
        <3> QED
            BY <3>1, <1>2
    <2> QED
        BY <2>2, <2>3
<1>5. Chain(g, t, d)
    BY <1>2, <1>3, <1>4 DEF Chain, LinkedFirst
<1> QED
    BY <1>5 DEF t

-----------------------------------------------------------------------------
(* All deques between two calls: heads q, heap h, lists l and nodes moved  *)
(* m, of which the head of a deque does not know.                          *)
Heads == [live : BOOLEAN, first : Ptr, last : Ptr, items : Int]

Ends(q, s, k) ==
    q.first = Elem(s, 1) /\ q.last = Elem(s, Len(s)) /\ q.items + k = Len(s)

Owned(h, l, d) ==
    \A n \in Nodes : h[n].parent = d => \E i \in DOMAIN l[d] : l[d][i] = n

AllOK(q, h, l, m) ==
    /\ q \in [Deques -> Heads]
    /\ h \in [Nodes -> Cells]
    /\ l \in [Deques -> Seq(Nodes)]
    /\ m \in [Deques -> Int]
    /\ \A d \in Deques : Chain(h, l[d], d)
    /\ \A d \in Deques : Ends(q[d], l[d], m[d])
    /\ \A d \in Deques : Owned(h, l, d)
    /\ \A d \in Deques : ~q[d].live => l[d] = <<>> /\ m[d] = 0

(* An operation that concerns deque d only and leaves it well formed. *)
Touches(q, h, l, m, d, q2, h2, l2, m2) ==
    /\ q2 \in [Deques -> Heads]
    /\ h2 \in [Nodes -> Cells]
    /\ l2 \in [Deques -> Seq(Nodes)]
    /\ m2 \in [Deques -> Int]
    /\ \A e \in Deques \ {d} : q2[e] = q[e] /\ l2[e] = l[e] /\ m2[e] = m[e]
    /\ \A n \in Nodes : h[n].parent \notin {d, NULL} => h2[n] = h[n]
    /\ \A n \in Nodes : h2[n].parent \notin {d, NULL} => h2[n] = h[n]
    /\ Chain(h2, l2[d], d) /\ Ends(q2[d], l2[d], m2[d]) /\ Owned(h2, l2, d)
    /\ ~q2[d].live => l2[d] = <<>> /\ m2[d] = 0

(* Such an operation leaves all deques well formed. *)
LEMMA TouchesOK ==
    ASSUME NEW q, NEW h, NEW l, NEW m, NEW d \in Deques, NEW q2, NEW h2, NEW l2, NEW m2,
           AllOK(q, h, l, m), Touches(q, h, l, m, d, q2, h2, l2, m2)
    PROVE  AllOK(q2, h2, l2, m2)
<1>1. ASSUME NEW e \in Deques, e # d
      PROVE  /\ Chain(h2, l2[e], e) /\ Ends(q2[e], l2[e], m2[e])
             /\ Owned(h2, l2, e) /\ (~q2[e].live => l2[e] = <<>> /\ m2[e] = 0)
    <2>1. /\ Chain(h, l[e], e) /\ Ends(q[e], l[e], m[e])
          /\ Owned(h, l, e) /\ (~q[e].live => l[e] = <<>> /\ m[e] = 0)
        BY DEF AllOK
    <2>2. q2[e] = q[e] /\ l2[e] = l[e] /\ m2[e] = m[e] /\ h2 \in [Nodes -> Cells]
        BY <1>1 DEF Touches
    <2>3. \A n \in Nodes : h[n].parent = e => h2[n] = h[n]
        BY <1>1, DequeAssumption DEF Touches
    <2>4. \A n \in Nodes : h2[n].parent = e => h2[n] = h[n]
        BY <1>1, DequeAssumption DEF Touches
    <2>5. Chain(h2, l[e], e)
        <3>1. \A i \in DOMAIN l[e] : h2[l[e][i]] = h[l[e][i]]
            <4>1. \A i \in DOMAIN l[e] : l[e][i] \in Nodes /\ h[l[e][i]].parent = e
                BY <2>1 DEF Chain
            <4> QED
                BY <4>1, <2>3
        <3>2. Chain(h, l[e], e) /\ h2 \in [Nodes -> Cells]
            BY <2>1, <2>2
        <3> QED
            BY <3>1, <3>2, FrameChain
    <2>6. Owned(h2, l2, e)
        BY <2>1, <2>2, <2>4 DEF Owned
    <2> QED
        BY <2>1, <2>2, <2>5, <2>6
<1>2. /\ Chain(h2, l2[d], d) /\ Ends(q2[d], l2[d], m2[d])
      /\ Owned(h2, l2, d) /\ (~q2[d].live => l2[d] = <<>> /\ m2[d] = 0)
    BY DEF Touches
<1> QED
    BY <1>1, <1>2 DEF AllOK, Touches

-----------------------------------------------------------------------------
(* The operations that are a single step.                                  *)

(* What is allocated is in a list and what is free is in none. *)
LEMMA FreeNotListed ==
    ASSUME NEW q, NEW h, NEW l, NEW m, AllOK(q, h, l, m), NEW d \in Deques,
           NEW n \in Nodes, h[n].parent = NULL
    PROVE  \A i \in DOMAIN l[d] : l[d][i] # n
    BY DequeAssumption DEF AllOK, Chain

(* A node that no deque has is linked in behind the last of deque d. *)
Puts(q, h, l, m, d, nd, q2, h2, l2, m2) ==
    /\ h[nd].parent = NULL
    /\ LinkedLast(h, l[d], d, nd, h2)
    /\ \A n \in Nodes \ {nd} : n # Elem(l[d], Len(l[d])) => h2[n] = h[n]
    /\ \E i \in Int :
          /\ q2 = [q EXCEPT ![d] = HeadRec(IF @.first = NULL THEN nd ELSE @.first, nd, i)]
          /\ i + m2[d] = Len(l[d]) + 1
    /\ l2 = [l EXCEPT ![d] = Append(@, nd)]
    /\ m2 \in [Deques -> Int]
    /\ \A e \in Deques \ {d} : m2[e] = m[e]

(* This leaves the deques well formed. *)
LEMMA PutsOK ==
    ASSUME NEW q, NEW h, NEW l, NEW m, NEW d \in Deques, NEW nd \in Nodes,
           NEW q2, NEW h2, NEW l2, NEW m2,
           AllOK(q, h, l, m), Puts(q, h, l, m, d, nd, q2, h2, l2, m2)
    PROVE  AllOK(q2, h2, l2, m2)
<1> DEFINE s == l[d]
<1>1. /\ q \in [Deques -> Heads] /\ h \in [Nodes -> Cells]
      /\ l \in [Deques -> Seq(Nodes)]
      /\ Chain(h, s, d) /\ Ends(q[d], s, m[d]) /\ Owned(h, l, d)
    BY DEF AllOK
<1>2. PICK i \in Int :
         /\ q2 = [q EXCEPT ![d] = HeadRec(IF @.first = NULL THEN nd ELSE @.first, nd, i)]
         /\ i + m2[d] = Len(s) + 1
    BY DEF Puts
<1>3. /\ h[nd].parent = NULL /\ LinkedLast(h, s, d, nd, h2)
      /\ l2 = [l EXCEPT ![d] = Append(@, nd)]
      /\ m2 \in [Deques -> Int]
      /\ \A e \in Deques \ {d} : m2[e] = m[e]
    BY DEF Puts
<1>5. /\ s \in Seq(Nodes) /\ Len(s) \in Nat /\ DOMAIN s = 1 .. Len(s)
      /\ q[d].first = Elem(s, 1) /\ q[d].first \in Ptr
    BY <1>1 DEF Ends, Heads
<1>6. h2 \in [Nodes -> Cells]
    BY <1>3 DEF LinkedLast
<1>8. Chain(h2, Append(s, nd), d)
    BY <1>1, <1>3, AppendChain
<1>9. /\ l2[d] = Append(s, nd) /\ l2 \in [Deques -> Seq(Nodes)]
      /\ \A e \in Deques \ {d} : l2[e] = l[e]
    BY <1>1, <1>3, <1>5
<1>10. /\ q2 \in [Deques -> Heads] /\ q2[d].live
       /\ \A e \in Deques \ {d} : q2[e] = q[e]
       /\ q2[d].first = IF q[d].first = NULL THEN nd ELSE q[d].first
       /\ q2[d].last = nd /\ q2[d].items = i
    <2>1. HeadRec(IF q[d].first = NULL THEN nd ELSE q[d].first, nd, i) \in Heads
        BY <1>5 DEF Heads, Ptr, HeadRec
    <2> QED
        BY <1>1, <1>2, <2>1 DEF HeadRec
<1>11. Ends(q2[d], l2[d], m2[d])
    BY <1>2, <1>5, <1>9, <1>10, DequeAssumption DEF Ends, Elem
<1>12. Owned(h2, l2, d)
    <2>1. ASSUME NEW n \in Nodes, h2[n].parent = d
          PROVE  \E j \in DOMAIN l2[d] : l2[d][j] = n
        <3>1. CASE n = nd
            <4>1. Len(s) + 1 \in DOMAIN l2[d] /\ l2[d][Len(s) + 1] = nd
                BY <1>5, <1>9
            <4> QED
                BY <4>1, <3>1
        <3>2. CASE n # nd
            <4>1. h[n].parent = d
                BY <3>2, <2>1, <1>3 DEF LinkedLast
            <4>2. PICK j \in DOMAIN s : s[j] = n
                BY <4>1, <1>1 DEF Owned
            <4>3. j \in DOMAIN l2[d] /\ l2[d][j] = n
                BY <4>2, <1>5, <1>9
            <4> QED
                BY <4>3
        <3> QED
            BY <3>1, <3>2
    <2> QED
        BY <2>1 DEF Owned
<1>13. ASSUME NEW n \in Nodes
       PROVE  /\ h[n].parent \notin {d, NULL} => h2[n] = h[n]
              /\ h2[n].parent \notin {d, NULL} => h2[n] = h[n]
    <2>1. CASE n = nd
        BY <2>1, <1>3 DEF LinkedLast
    <2>2. CASE n = Elem(s, Len(s)) /\ n # nd
        <3>1. h[n].parent = d
            BY <2>2, <1>1, <1>5, DequeAssumption DEF Elem, Chain
        <3> QED
            BY <2>2, <3>1, <1>3 DEF LinkedLast
    <2>3. CASE n # Elem(s, Len(s)) /\ n # nd
        BY <2>3 DEF Puts
    <2> QED
        BY <2>1, <2>2, <2>3
<1>14. Touches(q, h, l, m, d, q2, h2, l2, m2)
    BY <1>3, <1>6, <1>8, <1>9, <1>10, <1>11, <1>12, <1>13 DEF Touches
<1> QED
    BY <1>14, TouchesOK

(* HXdeque_push appends a fresh node. *)
LEMMA PushInv ==
    ASSUME AllOK(dq, node, lst, moved), NEW d \in Deques, NEW v \in Values,
           HXdeque_push(d, v)
    PROVE  AllOK(dq', node', lst', moved')
<1> DEFINE s == lst[d]
<1>1. /\ dq \in [Deques -> Heads] /\ node \in [Nodes -> Cells]
      /\ moved \in [Deques -> Int]
      /\ Chain(node, s, d) /\ Ends(dq[d], s, moved[d])
    BY DEF AllOK
<1>2. PICK nd :
         /\ nd \in Free
         /\ node' = [n \in Nodes |->
                        IF n = nd THEN NewNode(NULL, dq[d].last, d, v)
                        ELSE IF n = dq[d].last THEN [node[n] EXCEPT !.next = nd]
                        ELSE node[n]]
         /\ dq' = [dq EXCEPT ![d] = HeadRec(IF @.first = NULL THEN nd ELSE @.first,
                                         nd, @.items + 1)]
         /\ lst' = [lst EXCEPT ![d] = Append(@, nd)]
         /\ moved' = moved
    BY DEF HXdeque_push
<1>3. nd \in Nodes /\ node[nd].parent = NULL
    BY <1>2 DEF Free
<1>4. \A i \in DOMAIN s : s[i] # nd
    BY <1>3, FreeNotListed
<1>5. /\ Len(s) \in Nat /\ dq[d].items \in Int /\ dq[d].items + moved[d] = Len(s)
      /\ dq[d].last = Elem(s, Len(s)) /\ dq[d].last \in Ptr
    BY <1>1 DEF Ends, Heads, Chain
<1>6. node' \in [Nodes -> Cells]
    <2>1. NewNode(NULL, dq[d].last, d, v) \in Cells
        BY <1>5 DEF NewNode, Cells, Ptr
    <2>2. \A c \in Cells : [c EXCEPT !.next = nd] \in Cells
        BY <1>3 DEF Cells, Ptr
    <2> QED
        BY <1>1, <1>2, <2>1, <2>2
<1>7. LinkedLast(node, s, d, nd, node')
    <2>1. /\ node'[nd].parent = d /\ node'[nd].next = NULL
          /\ node'[nd].prev = Elem(s, Len(s))
        BY <1>2, <1>3, <1>5 DEF NewNode
    <2>2. ASSUME NEW n \in Nodes \ {nd}
          PROVE  /\ node'[n].parent = node[n].parent
                 /\ node'[n].prev = node[n].prev
                 /\ node'[n].next = IF n = Elem(s, Len(s)) THEN nd ELSE node[n].next
        BY <1>1, <1>2, <1>5 DEF Cells
    <2> QED
        BY <1>3, <1>4, <1>6, <2>1, <2>2 DEF LinkedLast
<1>8. \A n \in Nodes \ {nd} : n # Elem(s, Len(s)) => node'[n] = node[n]
    BY <1>2, <1>5
<1>9. dq[d].items + 1 \in Int /\ dq[d].items + 1 + moved[d] = Len(s) + 1
    BY <1>1, <1>5
<1>10. Puts(dq, node, lst, moved, d, nd, dq', node', lst', moved')
    BY <1>1, <1>2, <1>3, <1>7, <1>8, <1>9 DEF Puts
<1> QED
    BY <1>3, <1>10, PutsOK

(* HXdeque_unshift on a deque that is not empty prepends a fresh node. *)
LEMMA UnshiftInv ==
    ASSUME AllOK(dq, node, lst, moved), NEW d \in Deques, NEW v \in Values, Unshift(d, v)
    PROVE  AllOK(dq', node', lst', moved')
<1> DEFINE s == lst[d]
<1>1. /\ dq \in [Deques -> Heads] /\ node \in [Nodes -> Cells]
      /\ lst \in [Deques -> Seq(Nodes)]
      /\ moved \in [Deques -> Int]
      /\ Chain(node, s, d) /\ Ends(dq[d], s, moved[d]) /\ Owned(node, lst, d)
      /\ dq[d].first # NULL
    BY DEF AllOK, Unshift
<1>2. PICK nd :
         /\ nd \in Free
         /\ node' = [n \in Nodes |->
                        IF n = nd THEN NewNode(dq[d].first, NULL, d, v)
                        ELSE IF n = dq[d].first THEN [node[n] EXCEPT !.prev = nd]
                        ELSE node[n]]
         /\ dq' = [dq EXCEPT ![d] = HeadRec(nd, @.last, @.items + 1)]
         /\ lst' = [lst EXCEPT ![d] = <<nd>> \o @]
         /\ moved' = moved
    BY DEF Unshift
<1>3. nd \in Nodes /\ node[nd].parent = NULL
    BY <1>2 DEF Free
<1>4. \A i \in DOMAIN s : s[i] # nd
    BY <1>3, FreeNotListed
<1>5. /\ s \in Seq(Nodes) /\ Len(s) \in Nat /\ DOMAIN s = 1 .. Len(s)
      /\ dq[d].first = Elem(s, 1) /\ dq[d].first \in Ptr
    BY <1>1 DEF Ends, Heads
<1>6. node' \in [Nodes -> Cells]
    <2>1. NewNode(dq[d].first, NULL, d, v) \in Cells
        BY <1>5 DEF NewNode, Cells, Ptr
    <2>2. \A c \in Cells : [c EXCEPT !.prev = nd] \in Cells
        BY <1>3 DEF Cells, Ptr
    <2> QED
        BY <1>1, <1>2, <2>1, <2>2
<1>7. LinkedFirst(node, s, d, nd, node')
    <2>1. /\ node'[nd].parent = d /\ node'[nd].prev = NULL
          /\ node'[nd].next = Elem(s, 1)
        BY <1>2, <1>3, <1>5 DEF NewNode
    <2>2. ASSUME NEW n \in Nodes \ {nd}
          PROVE  /\ node'[n].parent = node[n].parent
                 /\ node'[n].next = node[n].next
                 /\ node'[n].prev = IF n = Elem(s, 1) THEN nd ELSE node[n].prev
        BY <1>1, <1>2, <1>5 DEF Cells
    <2> QED
        BY <1>3, <1>4, <1>6, <2>1, <2>2 DEF LinkedFirst
<1>8. Chain(node', <<nd>> \o s, d)
    BY <1>1, <1>7, PrependChain
<1>9. /\ lst'[d] = <<nd>> \o s /\ lst' \in [Deques -> Seq(Nodes)]
      /\ \A e \in Deques \ {d} : lst'[e] = lst[e]
    BY <1>1, <1>2, <1>3, <1>5
<1>10. /\ dq' \in [Deques -> Heads] /\ dq'[d].live
       /\ \A e \in Deques \ {d} : dq'[e] = dq[e]
       /\ dq'[d].first = nd
       /\ dq'[d].last = dq[d].last /\ dq'[d].items = dq[d].items + 1
    <2>1. HeadRec(nd, dq[d].last, dq[d].items + 1) \in Heads
        BY <1>1, <1>3 DEF Heads, Ptr, HeadRec
    <2> QED
        BY <1>1, <1>2, <2>1 DEF HeadRec
<1>11. /\ Len(<<nd>> \o s) = Len(s) + 1 /\ (<<nd>> \o s)[1] = nd
       /\ DOMAIN (<<nd>> \o s) = 1 .. Len(s) + 1
       /\ \A i \in DOMAIN s : (<<nd>> \o s)[i + 1] = s[i]
    BY <1>3, <1>5
<1>12. Ends(dq'[d], lst'[d], moved'[d])
    <2>1. Len(s) \in DOMAIN s
        BY <1>1, <1>5 DEF Elem
    <2>2. Elem(<<nd>> \o s, Len(s) + 1) = Elem(s, Len(s))
        BY <2>1, <1>5, <1>11 DEF Elem
    <2>3. Elem(<<nd>> \o s, 1) = nd
        BY <1>5, <1>11 DEF Elem
    <2> QED
        BY <1>1, <1>2, <1>5, <1>9, <1>10, <1>11, <2>2, <2>3 DEF Ends, Heads
<1>13. Owned(node', lst', d)
    <2>1. ASSUME NEW n \in Nodes, node'[n].parent = d
          PROVE  \E i \in DOMAIN lst'[d] : lst'[d][i] = n
        <3>1. CASE n = nd
            BY <3>1, <1>5, <1>9, <1>11
        <3>2. CASE n # nd
            <4>1. node[n].parent = d
                BY <3>2, <2>1, <1>7 DEF LinkedFirst
            <4>2. PICK i \in DOMAIN s : s[i] = n
                BY <4>1, <1>1 DEF Owned
            <4>3. i + 1 \in DOMAIN lst'[d] /\ lst'[d][i + 1] = n
                BY <4>2, <1>5, <1>9, <1>11
            <4> QED
                BY <4>3
        <3> QED
            BY <3>1, <3>2
    <2> QED
        BY <2>1 DEF Owned
<1>14. ASSUME NEW n \in Nodes
       PROVE  /\ node[n].parent \notin {d, NULL} => node'[n] = node[n]
              /\ node'[n].parent \notin {d, NULL} => node'[n] = node[n]
    <2>1. CASE n = nd
        BY <2>1, <1>3, <1>7 DEF LinkedFirst
    <2>2. CASE n = dq[d].first /\ n # nd
        <3>1. node[n].parent = d
            BY <2>2, <1>1, <1>5, DequeAssumption DEF Elem, Chain
        <3> QED
            BY <2>2, <3>1, <1>7 DEF LinkedFirst
    <2>3. CASE n # dq[d].first /\ n # nd
        BY <2>3, <1>2
    <2> QED
        BY <2>1, <2>2, <2>3
<1>15. Touches(dq, node, lst, moved, d, dq', node', lst', moved')
    BY <1>1, <1>2, <1>6, <1>8, <1>9, <1>10, <1>12, <1>13, <1>14 DEF Touches
<1> QED
    BY <1>15, TouchesOK

(* The place of an allocated node is a place in the list of its parent. *)
LEMMA IndexProps ==
    ASSUME AllOK(dq, node, lst, moved), NEW n \in Nodes, n \notin Free
    PROVE  /\ node[n].parent \in Deques
           /\ Index(n) \in DOMAIN lst[node[n].parent]
           /\ lst[node[n].parent][Index(n)] = n
<1>1. node[n].parent \in Deques
    BY DEF AllOK, Cells, Free
<1>2. \E i \in DOMAIN lst[node[n].parent] : lst[node[n].parent][i] = n
    BY <1>1 DEF AllOK, Owned
<1> QED
    BY <1>1, <1>2 DEF Index

(* HXdeque_drop leaves the ends of what is left in the head; the length is *)
(* the caller's business.                                                  *)
LEMMA DropEnds ==
    ASSUME NEW q \in [Deques -> Heads], NEW h, NEW s, NEW d \in Deques, NEW i,
           Chain(h, s, d), i \in DOMAIN s,
           q[d].first = Elem(s, 1), q[d].last = Elem(s, Len(s))
    PROVE  /\ DropHead(q, h, s[i]) \in [Deques -> Heads]
           /\ \A e \in Deques \ {d} : DropHead(q, h, s[i])[e] = q[e]
           /\ DropHead(q, h, s[i])[d].live
           /\ DropHead(q, h, s[i])[d].first = Elem(RemoveAt(s, i), 1)
           /\ DropHead(q, h, s[i])[d].last
                  = Elem(RemoveAt(s, i), Len(RemoveAt(s, i)))
           /\ DropHead(q, h, s[i])[d].items = q[d].items
<1> DEFINE t == RemoveAt(s, i)
           f == IF h[s[i]].prev = NULL THEN h[s[i]].next ELSE q[d].first
           l == IF h[s[i]].next = NULL THEN h[s[i]].prev ELSE q[d].last
<1>1. /\ s \in Seq(Nodes) /\ Len(s) \in Nat /\ DOMAIN s = 1 .. Len(s)
      /\ s[i] \in Nodes /\ h[s[i]] \in Cells
      /\ h[s[i]].parent = d
      /\ h[s[i]].next = Elem(s, i + 1)
      /\ h[s[i]].prev = Elem(s, i - 1)
      /\ i \in 1 .. Len(s)
    BY DEF Chain
<1>2. /\ t \in Seq(Nodes) /\ Len(t) = Len(s) - 1 /\ DOMAIN t = 1 .. Len(s) - 1
      /\ \A j \in 1 .. Len(s) - 1 : t[j] = IF j < i THEN s[j] ELSE s[j + 1]
    <2>1. /\ t \in Seq(Nodes) /\ Len(t) = Len(s) - 1
          /\ \A j \in 1 .. Len(s) - 1 : t[j] = IF j < i THEN s[j] ELSE s[j + 1]
        BY <1>1, RemoveAtProps
    <2> HIDE DEF t
    <2> QED
        BY <2>1, <1>1
<1> HIDE DEF t
<1>3. f = Elem(t, 1)
    BY <1>1, <1>2, DequeAssumption DEF Elem, Ends
<1>4. l = Elem(t, Len(t))
    <2>1. CASE i = Len(s)
        <3>1. l = Elem(s, Len(s) - 1)
            BY <2>1, <1>1 DEF Elem
        <3>2. Elem(t, Len(t)) = Elem(s, Len(s) - 1)
            BY <2>1, <1>1, <1>2 DEF Elem
        <3> QED
            BY <3>1, <3>2
    <2>2. CASE i # Len(s)
        <3>1. l = s[Len(s)]
            BY <2>2, <1>1, DequeAssumption DEF Elem, Ends
        <3>2. Len(t) \in DOMAIN t /\ t[Len(t)] = s[Len(s)]
            BY <2>2, <1>1, <1>2
        <3> QED
            BY <3>1, <3>2 DEF Elem
    <2> QED
        BY <2>1, <2>2
<1>5. f \in Ptr /\ l \in Ptr
    BY <1>1 DEF Cells, Heads
<1>6. DropHead(q, h, s[i]) = [q EXCEPT ![d] = HeadRec(f, l, q[d].items)]
    BY <1>1 DEF DropHead
<1> HIDE DEF f, l
<1>7. HeadRec(f, l, q[d].items) \in Heads
    BY <1>5 DEF HeadRec, Heads
<1>8. /\ DropHead(q, h, s[i]) \in [Deques -> Heads]
      /\ \A e \in Deques \ {d} : DropHead(q, h, s[i])[e] = q[e]
      /\ DropHead(q, h, s[i])[d] = HeadRec(f, l, q[d].items)
    BY <1>6, <1>7
<1> QED
    BY <1>3, <1>4, <1>8 DEF t, HeadRec

(* Node n, the ith of its deque d, is taken out and forgotten. *)
Takes(q, h, l, m, d, n, i, q2, h2, l2, m2) ==
    /\ i \in DOMAIN l[d] /\ l[d][i] = n
    /\ h2 = [DropHeap(h, n) EXCEPT ![n] = NoNode]
    /\ \E j \in Int :
          /\ q2 = [DropHead(q, h, n) EXCEPT ![d] = HeadRec(@.first, @.last, j)]
          /\ j + m2[d] = Len(l[d]) - 1
    /\ l2 = [l EXCEPT ![d] = RemoveAt(@, i)]
    /\ m2 \in [Deques -> Int]
    /\ \A e \in Deques \ {d} : m2[e] = m[e]

(* This leaves the deques well formed. *)
LEMMA TakesOK ==
    ASSUME NEW q, NEW h, NEW l, NEW m, NEW p \in Deques, NEW n \in Nodes, NEW i,
           NEW q2, NEW h2, NEW l2, NEW m2,
           AllOK(q, h, l, m), Takes(q, h, l, m, p, n, i, q2, h2, l2, m2)
    PROVE  AllOK(q2, h2, l2, m2)
<1> DEFINE s == l[p]
           t == RemoveAt(s, i)
           g == DropHeap(h, n)
<1>1. /\ i \in DOMAIN s /\ s[i] = n
      /\ h2 = [g EXCEPT ![n] = NoNode]
      /\ l2 = [l EXCEPT ![p] = t]
      /\ m2 \in [Deques -> Int]
      /\ \A e \in Deques \ {p} : m2[e] = m[e]
    BY DEF Takes
<1>2. /\ q \in [Deques -> Heads] /\ h \in [Nodes -> Cells]
      /\ l \in [Deques -> Seq(Nodes)]
      /\ Chain(h, s, p) /\ Ends(q[p], s, m[p]) /\ Owned(h, l, p)
    BY <1>1 DEF AllOK
<1>3. /\ Chain(g, t, p)
      /\ \A j \in DOMAIN t : t[j] # n
      /\ \A j \in DOMAIN s : j # i => \E k \in DOMAIN t : t[k] = s[j]
      /\ \A a \in Nodes : g[a].parent = h[a].parent
      /\ \A a \in Nodes : h[a].parent # p => g[a] = h[a]
    <2> HIDE DEF s, t, g
    <2>1. Dropped(h, s, p, i, DropHeap(h, s[i]), RemoveAt(s, i))
        BY <1>1, <1>2, DropChain
    <2>2. Dropped(h, s, p, i, g, t)
        BY <2>1, <1>1 DEF g, t
    <2> QED
        BY <2>2, <1>1 DEF Dropped
<1>4. /\ t \in Seq(Nodes) /\ Len(t) = Len(s) - 1 /\ Len(s) \in Nat
    BY <1>1, <1>2, RemoveAtProps
<1>5. PICK x \in Int :
         /\ q2 = [DropHead(q, h, n) EXCEPT ![p] = HeadRec(@.first, @.last, x)]
         /\ x + m2[p] = Len(s) - 1
    BY DEF Takes
<1>6. /\ DropHead(q, h, n) \in [Deques -> Heads]
      /\ \A e \in Deques \ {p} : DropHead(q, h, n)[e] = q[e]
      /\ DropHead(q, h, n)[p].first = Elem(t, 1)
      /\ DropHead(q, h, n)[p].last = Elem(t, Len(t))
    <2>1. q[p].first = Elem(s, 1) /\ q[p].last = Elem(s, Len(s))
        BY <1>2 DEF Ends
    <2>2. Chain(h, s, p) /\ n = s[i] /\ q \in [Deques -> Heads]
        BY <1>1, <1>2
    <2> HIDE DEF s
    <2> QED
        BY <1>1, <2>1, <2>2, DropEnds DEF t
<1> HIDE DEF g, t
<1>7. g \in [Nodes -> Cells] /\ NoNode \in Cells /\ NoNode.parent = NULL
    BY <1>3 DEF Chain, NoNode, NewNode, Cells, Ptr
<1>8. /\ h2 \in [Nodes -> Cells] /\ h2[n] = NoNode
      /\ \A a \in Nodes \ {n} : h2[a] = g[a]
    BY <1>1, <1>7
<1>9. Chain(h2, t, p)
    <2>1. \A j \in DOMAIN t : t[j] \in Nodes /\ h2[t[j]] = g[t[j]]
        BY <1>3, <1>4, <1>8
    <2> QED
        BY <1>3, <1>8, <2>1, FrameChain
<1>10. /\ l2 \in [Deques -> Seq(Nodes)] /\ l2[p] = t
       /\ \A e \in Deques \ {p} : l2[e] = l[e]
    BY <1>1, <1>2, <1>4
<1>11. /\ q2 \in [Deques -> Heads] /\ q2[p].live
       /\ \A e \in Deques \ {p} : q2[e] = q[e]
       /\ q2[p].first = Elem(t, 1) /\ q2[p].last = Elem(t, Len(t))
       /\ q2[p].items = x
    <2>1. HeadRec(Elem(t, 1), Elem(t, Len(t)), x) \in Heads
        <3>1. Elem(t, 1) \in Ptr /\ Elem(t, Len(t)) \in Ptr
            BY <1>4 DEF Elem, Ptr
        <3> QED
            BY <3>1 DEF HeadRec, Heads
    <2>2. q2 = [DropHead(q, h, n) EXCEPT ![p] = HeadRec(Elem(t, 1), Elem(t, Len(t)), x)]
        BY <1>5, <1>6
    <2> QED
        BY <1>6, <2>1, <2>2 DEF HeadRec
<1>12. Ends(q2[p], l2[p], m2[p])
    BY <1>4, <1>5, <1>10, <1>11 DEF Ends
<1>13. Owned(h2, l2, p)
    <2>1. ASSUME NEW a \in Nodes, h2[a].parent = p
          PROVE  \E k \in DOMAIN t : t[k] = a
        <3>1. a # n /\ h[a].parent = p
            BY <2>1, <1>3, <1>7, <1>8, DequeAssumption
        <3>2. PICK j \in DOMAIN s : s[j] = a
            BY <3>1, <1>2 DEF Owned
        <3>3. j # i
            BY <3>1, <3>2, <1>1
        <3> QED
            BY <3>2, <3>3, <1>3
    <2> QED
        BY <2>1, <1>10 DEF Owned
<1>14. ASSUME NEW a \in Nodes
       PROVE  /\ h[a].parent \notin {p, NULL} => h2[a] = h[a]
              /\ h2[a].parent \notin {p, NULL} => h2[a] = h[a]
    <2>1. h[n].parent = p
        BY <1>1, <1>2 DEF Chain
    <2> QED
        BY <2>1, <1>3, <1>7, <1>8
<1>15. Touches(q, h, l, m, p, q2, h2, l2, m2)
    BY <1>1, <1>8, <1>9, <1>10, <1>11, <1>12, <1>13, <1>14 DEF Touches
<1> QED
    BY <1>15, TouchesOK

(* HXdeque_del unlinks a node and frees it. *)
LEMMA DelInv ==
    ASSUME AllOK(dq, node, lst, moved), NEW n \in Nodes, n \notin Free, HXdeque_del(n)
    PROVE  AllOK(dq', node', lst', moved')
<1> DEFINE p == node[n].parent
           i == Index(n)
<1>1. p \in Deques /\ i \in DOMAIN lst[p] /\ lst[p][i] = n
    BY IndexProps
<1>2. /\ node' = [DropHeap(node, n) EXCEPT ![n] = NoNode]
      /\ dq' = [DropHead(dq, node, n) EXCEPT
                   ![p] = HeadRec(@.first, @.last, @.items - 1)]
      /\ lst' = [lst EXCEPT ![p] = RemoveAt(@, i)]
      /\ moved' = moved
    BY DEF HXdeque_del
<1> HIDE DEF p, i
<1>3. /\ dq \in [Deques -> Heads] /\ moved \in [Deques -> Int]
      /\ Chain(node, lst[p], p) /\ Ends(dq[p], lst[p], moved[p])
    BY <1>1 DEF AllOK
<1>4. DropHead(dq, node, n)[p].items = dq[p].items
    <2>1. dq[p].first = Elem(lst[p], 1) /\ dq[p].last = Elem(lst[p], Len(lst[p]))
        BY <1>3 DEF Ends
    <2>2. Chain(node, lst[p], p) /\ dq \in [Deques -> Heads]
        BY <1>3
    <2> QED
        BY <1>1, <2>1, <2>2, DropEnds
<1>5. dq' = [DropHead(dq, node, n) EXCEPT
                ![p] = HeadRec(@.first, @.last, dq[p].items - 1)]
    BY <1>2, <1>4
<1>6. dq[p].items - 1 \in Int /\ dq[p].items - 1 + moved[p] = Len(lst[p]) - 1
    BY <1>1, <1>3 DEF Ends, Heads
<1>7. Takes(dq, node, lst, moved, p, n, i, dq', node', lst', moved')
    BY <1>1, <1>2, <1>3, <1>5, <1>6 DEF Takes
<1> QED
    BY <1>1, <1>7, TakesOK

(* Pop, shift and del all remove an allocated node. *)
LEMMA RemoveInv ==
    ASSUME AllOK(dq, node, lst, moved), NEW d \in Deques,
           \/ HXdeque_pop(d)
           \/ HXdeque_shift(d)
           \/ \E n \in Nodes : Delete(n)
    PROVE  /\ AllOK(dq', node', lst', moved')
           /\ \E n \in Nodes : ret' = node[n].ptr
           /\ call' = call
<1>1. ASSUME NEW n, n \in {dq[d].first, dq[d].last}, n # NULL
      PROVE  n \in Nodes /\ n \notin Free
    BY <1>1, DequeAssumption DEF AllOK, Ends, Elem, Chain, Free
<1>2. PICK n \in Nodes : n \notin Free /\ HXdeque_del(n)
    <2>1. CASE HXdeque_pop(d)
        BY <2>1, <1>1 DEF HXdeque_pop
    <2>2. CASE HXdeque_shift(d)
        BY <2>2, <1>1 DEF HXdeque_shift
    <2>3. CASE \E n \in Nodes : Delete(n)
        BY <2>3 DEF Delete
    <2> QED
        BY <2>1, <2>2, <2>3
<1>3. ret' = node[n].ptr /\ call' = call
    BY <1>2 DEF HXdeque_del
<1> QED
    BY <1>2, <1>3, DelInv

(* HXdeque_move to the end of a deque is a drop and an append, be it the   *)
(* node's own deque or another.                                            *)
LEMMA MoveInv ==
    ASSUME AllOK(dq, node, lst, moved),
           NEW nd \in Nodes, NEW af \in Nodes, HXdeque_move(nd, af), Movable(nd, af)
    PROVE  AllOK(dq', node', lst', moved')
<1> DEFINE p == node[nd].parent
           d == node[af].parent
           i == Index(nd)
           g == DropHeap(node, nd)
           k == DropHead(dq, node, nd)
           h1 == [g EXCEPT ![nd] = NoNode]
           l1 == [lst EXCEPT ![p] = RemoveAt(@, i)]
           m1 == [moved EXCEPT ![p] = @ - 1]
           t == l1[d]
<1>1. /\ nd # af /\ nd \notin Free /\ af \notin Free
      /\ \/ node[af].next = NULL
         \/ node[af].next = nd /\ node[nd].next = NULL
    BY DEF HXdeque_move, Movable
<1>2. /\ p \in Deques /\ i \in DOMAIN lst[p] /\ lst[p][i] = nd
      /\ d \in Deques
    BY <1>1, IndexProps
<1>3. /\ dq \in [Deques -> Heads] /\ node \in [Nodes -> Cells]
      /\ lst \in [Deques -> Seq(Nodes)] /\ moved \in [Deques -> Int]
      /\ Chain(node, lst[p], p) /\ Ends(dq[p], lst[p], moved[p])
      /\ Chain(node, lst[d], d) /\ Owned(node, lst, d)
    BY <1>2 DEF AllOK
(* First nd is taken out of p, whose count of moved nodes falls by one. *)
<1>4. /\ k \in [Deques -> Heads]
      /\ k[p].live /\ k[p].items = dq[p].items
    <2>1. dq[p].first = Elem(lst[p], 1) /\ dq[p].last = Elem(lst[p], Len(lst[p]))
        BY <1>3 DEF Ends
    <2>2. Chain(node, lst[p], p) /\ dq \in [Deques -> Heads]
        BY <1>3
    <2> HIDE DEF p
    <2> QED
        BY <1>2, <2>1, <2>2, DropEnds
<1>5. /\ lst' = [e \in Deques |->
                    IF e = d THEN InsertAt(t, (CHOOSE j \in DOMAIN t : t[j] = af) + 1, nd)
                    ELSE l1[e]]
      /\ node' = AddHeap(g, af, nd)
      /\ dq' = AddHead(k, node, af, nd)
      /\ moved' = Passes(p, d)
    <2>1. t = IF p = d THEN RemoveAt(lst[p], i) ELSE lst[d]
        BY <1>2, <1>3
    <2>2. \A e \in Deques : l1[e] = IF e = p THEN RemoveAt(lst[p], i) ELSE lst[e]
        BY <1>2, <1>3
    <2> HIDE DEF t, l1
    <2>3. lst' = [e \in Deques |->
                    IF e = d THEN InsertAt(t, (CHOOSE j \in DOMAIN t : t[j] = af) + 1, nd)
                    ELSE IF e = p THEN RemoveAt(lst[p], i) ELSE lst[e]]
        BY <2>1 DEF HXdeque_move
    <2> QED
        BY <2>2, <2>3 DEF HXdeque_move
<1> HIDE DEF i, g, k
<1>6. Takes(dq, node, lst, moved, p, nd, i, k, h1, l1, m1)
    <2>1. k = [k EXCEPT ![p] = HeadRec(@.first, @.last, dq[p].items)]
        BY <1>2, <1>4 DEF Heads, HeadRec
    <2>2. /\ m1 \in [Deques -> Int] /\ m1[p] = moved[p] - 1
          /\ \A e \in Deques \ {p} : m1[e] = moved[e]
        BY <1>2, <1>3
    <2>3. dq[p].items \in Int /\ dq[p].items + m1[p] = Len(lst[p]) - 1
        <3>1. dq[p].items \in Int /\ moved[p] \in Int
            BY <1>2, <1>3 DEF Heads
        <3>2. dq[p].items + moved[p] = Len(lst[p]) /\ Len(lst[p]) \in Nat
            BY <1>3 DEF Ends, Chain
        <3> HIDE DEF m1, p
        <3> QED
            BY <3>1, <3>2, <2>2
    <2> HIDE DEF m1, p
    <2> QED
        BY <1>2, <2>1, <2>2, <2>3 DEF Takes, k, g
<1>7. AllOK(k, h1, l1, m1)
    BY <1>2, <1>6, TakesOK
(* Then it is put behind the last node of d, which is what af is now. *)
<1>8. /\ g \in [Nodes -> Cells] /\ g[nd].ptr \in Values \cup {NULL}
      /\ \A m \in Nodes : g[m].parent = node[m].parent
    <2>1. Dropped(node, lst[p], p, i, g, RemoveAt(lst[p], i))
        BY <1>2, <1>3, DropChain DEF g
    <2> QED
        BY <2>1 DEF Dropped, Chain, Cells
<1>9. /\ h1 \in [Nodes -> Cells] /\ h1[nd].parent = NULL
      /\ \A m \in Nodes \ {nd} : h1[m] = g[m]
    BY <1>7, <1>8 DEF AllOK, NoNode, NewNode
<1>10. /\ l1 \in [Deques -> Seq(Nodes)] /\ m1 \in [Deques -> Int]
       /\ Chain(h1, t, d) /\ Ends(k[d], t, m1[d]) /\ Owned(h1, l1, d)
    BY <1>2, <1>7 DEF AllOK
<1> HIDE DEF h1, l1
<1>11. /\ t \in Seq(Nodes) /\ Len(t) \in Nat /\ DOMAIN t = 1 .. Len(t)
    BY <1>2, <1>10
<1>12. \A j \in DOMAIN t : t[j] # nd
    BY <1>2, <1>7, <1>9, FreeNotListed
<1>13. h1[af].next = NULL
    <2>1. g[af].next = IF af = node[nd].prev THEN node[nd].next ELSE node[af].next
        BY <1>3 DEF g, DropHeap, Cells
    <2>2. PICK a \in DOMAIN lst[d] : lst[d][a] = af
        BY <1>3 DEF Owned
    <2>3. /\ node[nd].prev = Elem(lst[p], i - 1) /\ node[nd].next = Elem(lst[p], i + 1)
          /\ node[af].next = Elem(lst[d], a + 1)
          /\ node[nd].parent = p /\ node[af].parent = d
        BY <1>2, <1>3, <2>2 DEF Chain
    <2>4. CASE node[af].next = NULL
        <3>1. SUFFICES ASSUME af = node[nd].prev
                       PROVE  node[nd].next = NULL
            BY <1>1, <1>9, <2>1, <2>4
        <3>2. i - 1 \in DOMAIN lst[p] /\ lst[p][i - 1] = af
            BY <3>1, <2>3, DequeAssumption DEF Elem
        <3>3. node[af].next = Elem(lst[p], i - 1 + 1)
            BY <3>2, <1>3 DEF Chain
        <3>4. i - 1 + 1 = i
            BY <1>2, <1>3 DEF Chain
        <3> QED
            BY <3>3, <3>4, <1>2, <2>4, DequeAssumption DEF Elem
    <2>5. CASE node[af].next = nd /\ node[nd].next = NULL
        <3>1. a + 1 \in DOMAIN lst[d] /\ lst[d][a + 1] = nd
            BY <2>3, <2>5, DequeAssumption DEF Elem
        <3>2. node[nd].prev = Elem(lst[d], a + 1 - 1)
            BY <3>1, <1>3 DEF Chain
        <3>3. a + 1 - 1 = a
            BY <2>2, <1>3 DEF Chain
        <3>4. node[nd].prev = af
            BY <3>2, <3>3, <2>2 DEF Elem
        <3> QED
            BY <3>4, <1>1, <1>9, <2>1, <2>5
    <2> QED
        BY <2>4, <2>5, <1>1
<1>14. PICK a \in DOMAIN t : t[a] = af
    <2>1. h1[af].parent = d
        BY <1>1, <1>8, <1>9
    <2> QED
        BY <2>1, <1>10 DEF Owned
<1>15. a = Len(t)
    <2>1. SUFFICES ASSUME a # Len(t)
                   PROVE  FALSE
        OBVIOUS
    <2>2. h1[af].next = Elem(t, a + 1)
        BY <1>10, <1>14 DEF Chain
    <2>3. a + 1 \in DOMAIN t /\ t[a + 1] \in Nodes
        BY <2>1, <1>11, <1>14
    <2> QED
        BY <2>2, <2>3, <1>13, DequeAssumption DEF Elem
<1>16. (CHOOSE j \in DOMAIN t : t[j] = af) = Len(t) /\ Elem(t, Len(t)) = af
    <2>1. \A j \in DOMAIN t : t[j] = af => j = a
        BY <1>10, <1>14 DEF Chain
    <2> QED
        BY <2>1, <1>14, <1>15 DEF Elem
<1>17. lst' = [l1 EXCEPT ![d] = Append(@, nd)]
    <2>1. InsertAt(t, Len(t) + 1, nd) = Append(t, nd)
        BY <1>11, InsertLast
    <2> QED
        BY <2>1, <1>2, <1>5, <1>10, <1>16
<1>18. /\ node' \in [Nodes -> Cells]
       /\ node'[nd] = NewNode(NULL, af, d, g[nd].ptr)
       /\ \A m \in Nodes \ {nd} :
             node'[m] = IF m = af THEN [h1[m] EXCEPT !.next = nd] ELSE h1[m]
    <2>1. NewNode(g[af].next, af, g[af].parent, g[nd].ptr)
              = NewNode(NULL, af, d, g[nd].ptr)
        BY <1>1, <1>8, <1>9, <1>13
    <2>2. NewNode(NULL, af, d, g[nd].ptr) \in Cells
        BY <1>2, <1>8 DEF NewNode, Cells, Ptr
    <2>3. \A c \in Cells : [c EXCEPT !.next = nd] \in Cells
        BY DEF Cells, Ptr
    <2> QED
        BY <1>5, <1>8, <1>9, <2>1, <2>2, <2>3 DEF AddHeap
<1>19. LinkedLast(h1, t, d, nd, node')
    <2>2. /\ node'[nd].parent = d /\ node'[nd].next = NULL /\ node'[nd].prev = af
        BY <1>18 DEF NewNode
    <2>3. ASSUME NEW m \in Nodes \ {nd}
          PROVE  /\ node'[m].parent = h1[m].parent
                 /\ node'[m].prev = h1[m].prev
                 /\ node'[m].next = IF m = af THEN nd ELSE h1[m].next
        BY <1>9, <1>18 DEF Cells
    <2> QED
        BY <1>12, <1>16, <1>18, <2>2, <2>3 DEF LinkedLast
<1>20. /\ moved' \in [Deques -> Int] /\ moved'[d] = m1[d] + 1
       /\ \A e \in Deques \ {d} : moved'[e] = m1[e]
    BY <1>2, <1>3, <1>5 DEF Passes
<1>21. k[d].items \in Int /\ k[d].items + moved'[d] = Len(t) + 1
    <2>1. k[d].items \in Int /\ m1[d] \in Int
        BY <1>2, <1>4, <1>10 DEF Heads
    <2>2. k[d].items + m1[d] = Len(t)
        BY <1>10 DEF Ends
    <2> HIDE DEF m1, t, d
    <2> QED
        BY <2>1, <2>2, <1>11, <1>20
<1>22. dq' = [k EXCEPT ![d] = HeadRec(IF @.first = NULL THEN nd ELSE @.first, nd,
                                      k[d].items)]
    <2>1. k[d].last = af
        BY <1>10, <1>16 DEF Ends
    <2>2. k[d].first # NULL
        <3>1. 1 \in DOMAIN t /\ t[1] \in Nodes
            BY <1>11, <1>14
        <3> QED
            BY <3>1, <1>10, DequeAssumption DEF Ends, Elem
    <2> QED
        BY <2>1, <2>2, <1>2, <1>4, <1>5 DEF AddHead
<1> HIDE DEF m1
<1>23. Puts(k, h1, l1, m1, d, nd, dq', node', lst', moved')
    <2>1. \A n \in Nodes \ {nd} : n # Elem(t, Len(t)) => node'[n] = h1[n]
        BY <1>16, <1>18
    <2> QED
        BY <2>1, <1>9, <1>17, <1>19, <1>20, <1>21, <1>22 DEF Puts
<1> QED
    BY <1>2, <1>7, <1>23, PutsOK

(* HXdeque_init makes an empty deque. *)
LEMMA InitInv ==
    ASSUME AllOK(dq, node, lst, moved), NEW d \in Deques, HXdeque_init(d)
    PROVE  AllOK(dq', node', lst', moved')
<1>1. /\ dq \in [Deques -> Heads] /\ lst[d] = <<>> /\ moved[d] = 0
      /\ node' = node /\ lst' = lst /\ moved' = moved
      /\ dq' = [dq EXCEPT ![d] = HeadRec(NULL, NULL, 0)]
    BY DEF AllOK, HXdeque_init
<1>2. HeadRec(NULL, NULL, 0) \in Heads
    BY DEF HeadRec, Heads, Ptr
<1>3. /\ dq' \in [Deques -> Heads] /\ dq'[d] = HeadRec(NULL, NULL, 0)
      /\ \A e \in Deques \ {d} : dq'[e] = dq[e]
    BY <1>1, <1>2
<1>4. Ends(dq'[d], lst[d], moved[d]) /\ dq'[d].live
    BY <1>1, <1>3 DEF Ends, HeadRec, Elem
<1>5. Touches(dq, node, lst, moved, d, dq', node', lst', moved')
    BY <1>1, <1>3, <1>4 DEF Touches, AllOK
<1> QED
    BY <1>5, TouchesOK

-----------------------------------------------------------------------------
(* The inductive invariant.                                                *)

Calls == [fn : {"none", "free", "vec"}, dq : Deques \cup {NULL}, cur : Ptr,
          room : Int, sentinel : {0, 1}, out : Seq(Values \cup {NULL})]

(* While no free is under way all deques are well formed. *)
LEMMA QuietFacts ==
    ASSUME IndInv, call.fn # "free"
    PROVE  AllOK(dq, node, lst, moved)
<1>1. ASSUME NEW d \in Deques
      PROVE  Chain(node, lst[d], d) /\ Ends(dq[d], lst[d], moved[d])
    BY DEF IndInv, TypeOK, ChainOK, HeadOK, LinksOK, Dying, NodesOwned,
           Chain, Ends, Cells
<1>2. ASSUME NEW d \in Deques
      PROVE  Owned(node, lst, d)
    <2>1. ASSUME NEW n \in Nodes, node[n].parent = d
          PROVE  \E i \in DOMAIN lst[d] : lst[d][i] = n
        BY <2>1, DequeAssumption DEF IndInv, NodesOwned, Free
    <2> QED
        BY <2>1 DEF Owned
<1> QED
    BY <1>1, <1>2 DEF AllOK, IndInv, TypeOK, NodesOwned, NoneMoved, Heads, Cells

Formed == AllOK(dq, node, lst, moved)

(* Well formed deques are what the invariant asks for. *)
LEMMA FromFormed == Formed => ChainOK /\ NodesOwned /\ NoneMoved
<1>0. SUFFICES ASSUME AllOK(dq, node, lst, moved)
               PROVE  ChainOK /\ NodesOwned /\ NoneMoved
    BY DEF Formed
<1>1. ASSUME NEW d \in Deques
      PROVE  HeadOK(d) /\ LinksOK(d)
    BY <1>0 DEF AllOK, Chain, Ends, HeadOK, LinksOK
<1>2. ASSUME NEW n \in Nodes \ Free
      PROVE  \E i \in DOMAIN lst[node[n].parent] : lst[node[n].parent][i] = n
    <2>1. node[n].parent \in Deques
        BY <1>0 DEF AllOK, Cells, Free
    <2> QED
        BY <2>1, <1>0 DEF AllOK, Owned
<1>3. ASSUME NEW d \in Deques
      PROVE  /\ \A i, j \in DOMAIN lst[d] : lst[d][i] = lst[d][j] => i = j
             /\ ~dq[d].live => lst[d] = <<>> /\ moved[d] = 0
    BY <1>0 DEF AllOK, Chain
<1> QED
    BY <1>1, <1>2, <1>3 DEF ChainOK, NodesOwned, NoneMoved

(* Well formed deques with no loop under way. *)
Settled ==
    /\ AllOK(dq, node, lst, moved)
    /\ call \in Calls /\ call.fn = "none"
    /\ ret \in Values \cup {NULL}

(* Such a state satisfies the invariant. *)
LEMMA SettledInv == Settled => IndInv
<1>1. SUFFICES ASSUME Settled
               PROVE  IndInv
    OBVIOUS
<1>2. ChainOK /\ NodesOwned /\ NoneMoved
    BY <1>1, FromFormed DEF Settled, Formed
<1> QED
    BY <1>1, <1>2 DEF Settled, IndInv, TypeOK, AllOK, Heads, Cells, Calls,
                      FreeOK, VecOK, CallLive

(* The calls that are one step: they find the deques well formed and leave *)
(* them well formed.                                                       *)
LEMMA StepInv ==
    ASSUME IndInv, MoveAnywhere = FALSE,
           \/ \E d \in Deques : HXdeque_init(d)
           \/ \E d \in Deques, v \in Values : HXdeque_push(d, v)
           \/ \E d \in Deques, v \in Values : HXdeque_unshift(d, v)
           \/ \E d \in Deques : HXdeque_pop(d)
           \/ \E d \in Deques : HXdeque_shift(d)
           \/ \E d \in Deques : RemoveNone(d)
           \/ \E n \in Nodes : Delete(n)
           \/ \E nd, af \in Nodes : HXdeque_move(nd, af)
    PROVE  IndInv'
<1>1. Ready
    BY DEF HXdeque_init, HXdeque_push, HXdeque_unshift, Unshift, HXdeque_pop,
           HXdeque_shift, RemoveNone, Delete, HXdeque_move
<1>2. AllOK(dq, node, lst, moved) /\ call \in Calls /\ ret \in Values \cup {NULL}
    BY <1>1, QuietFacts DEF Ready, IndInv, TypeOK, Calls
<1>3. /\ AllOK(dq', node', lst', moved')
      /\ call' = call
      /\ ret' \in Values \cup {NULL}
    <2>1. CASE \E d \in Deques : HXdeque_init(d)
        BY <2>1, <1>2, InitInv DEF HXdeque_init
    <2>2. CASE \E d \in Deques, v \in Values : HXdeque_push(d, v)
        BY <2>2, <1>2, PushInv DEF HXdeque_push
    <2>3. CASE \E d \in Deques, v \in Values : HXdeque_unshift(d, v)
        BY <2>3, <1>2, PushInv, UnshiftInv DEF HXdeque_push, HXdeque_unshift, Unshift
    <2>4. ASSUME NEW d \in Deques,
                 \/ HXdeque_pop(d)
                 \/ HXdeque_shift(d)
                 \/ \E n \in Nodes : Delete(n)
          PROVE  <1>3!1 /\ <1>3!2 /\ <1>3!3
        BY <2>4, <1>2, RemoveInv DEF AllOK, Cells
    <2>5. CASE \E n \in Nodes : Delete(n)
        <3>1. Deques # {}
            <4>1. PICK n \in Nodes : Delete(n)
                BY <2>5
            <4>2. node[n].parent \in Deques
                BY <4>1, <1>2, IndexProps DEF Delete
            <4> QED
                BY <4>2
        <3> QED
            BY <2>4, <2>5, <3>1
    <2>6. CASE \E nd, af \in Nodes : HXdeque_move(nd, af)
        <3>1. PICK nd \in Nodes, af \in Nodes : HXdeque_move(nd, af)
            BY <2>6
        <3>2. Movable(nd, af) /\ ret' = NULL /\ call' = call
            BY <3>1 DEF HXdeque_move
        <3> QED
            BY <3>1, <3>2, <1>2, MoveInv
    <2>7. CASE \E d \in Deques : RemoveNone(d)
        BY <2>7, <1>2 DEF RemoveNone
    <2> QED
        BY <2>1, <2>2, <2>3, <2>4, <2>5, <2>6, <2>7
<1>4. call' \in Calls /\ call'.fn = "none"
    BY <1>1, <1>2, <1>3 DEF Ready
<1>5. (Settled => IndInv)'
    BY SettledInv, PTL
<1> QED
    BY <1>3, <1>4, <1>5 DEF Settled, Calls

-----------------------------------------------------------------------------
(* The loops.                                                              *)

(* HXdeque_to_vec writes the nodes in order within what it allocated. *)
LEMMA VecInv ==
    ASSUME IndInv,
           \/ \E d \in Deques : VecBegin(d)
           \/ VecNode
           \/ VecEnd
           \/ VecNoMem
    PROVE  IndInv'
<1>1. call.fn # "free" /\ UNCHANGED <<dq, node, lst, moved>> /\ ret' = NULL
    BY DEF VecBegin, VecNode, VecEnd, VecNoMem, Ready
<1>2. /\ Formed /\ Formed' /\ call \in Calls /\ ret' \in Values \cup {NULL}
    BY <1>1, QuietFacts DEF Formed, IndInv, TypeOK, Calls
<1>3. ChainOK' /\ NodesOwned' /\ NoneMoved'
    <2>1. (Formed => ChainOK /\ NodesOwned /\ NoneMoved)'
        BY FromFormed, PTL
    <2> QED
        BY <2>1, <1>2
<1>4. /\ call' \in Calls /\ VecOK' /\ CallLive' /\ call'.fn # "free"
    <2>1. CASE \E d \in Deques : VecBegin(d)
        <3>1. PICK d \in Deques, x \in {0, 1} :
                 /\ dq[d].live
                 /\ call' = [fn |-> "vec", dq |-> d, cur |-> dq[d].first,
                             room |-> dq[d].items + x, sentinel |-> x,
                             out |-> <<>>]
            BY <2>1 DEF VecBegin
        <3>2. /\ dq[d] \in Heads /\ dq[d].first = Elem(lst[d], 1)
              /\ dq[d].items + moved[d] = Len(lst[d]) /\ Len(lst[d]) \in Nat
              /\ moved[d] \in Int
            BY <1>2 DEF Formed, AllOK, Ends, Chain
        <3>3. dq[d].first \in Ptr /\ dq[d].items + x \in Int
            BY <3>2 DEF Heads
        <3>4. <<>> \in Seq(Values \cup {NULL}) /\ Len(<<>>) = 0 /\ DOMAIN <<>> = {}
            OBVIOUS
        <3>5. call' \in Calls
            BY <3>1, <3>3, <3>4 DEF Calls
        <3>6. dq[d].items + x + moved[d] = Len(lst[d]) + x
            BY <3>2 DEF Heads
        <3> QED
            BY <1>1, <3>1, <3>2, <3>4, <3>5, <3>6 DEF VecOK, CallLive
    <2>2. CASE VecNode
        <3> DEFINE s == lst[call.dq]
                   o == call.out
        <3>1. /\ call.fn = "vec" /\ call.cur # NULL
              /\ call' = [call EXCEPT !.out = Append(@, node[call.cur].ptr),
                                      !.cur = node[call.cur].next]
            BY <2>2 DEF VecNode
        <3>2. call.dq \in Deques /\ dq[call.dq].live
            BY <3>1 DEF IndInv, CallLive
        <3>3. /\ call.room + moved[call.dq] = Len(s) + call.sentinel
              /\ Len(o) <= Len(s)
              /\ \A i \in DOMAIN o : o[i] = node[s[i]].ptr
              /\ call.cur = Elem(s, Len(o) + 1)
            BY <3>1 DEF IndInv, VecOK
        <3>4. /\ s \in Seq(Nodes) /\ Len(s) \in Nat /\ DOMAIN s = 1 .. Len(s)
              /\ o \in Seq(Values \cup {NULL}) /\ Len(o) \in Nat
              /\ DOMAIN o = 1 .. Len(o) /\ Chain(node, s, call.dq)
            BY <3>2, <1>2 DEF Formed, AllOK, Calls
        <3> HIDE DEF s, o
        <3>5. Len(o) + 1 \in DOMAIN s /\ call.cur = s[Len(o) + 1] /\ call.cur \in Nodes
            BY <3>1, <3>3, <3>4 DEF Elem
        <3>6. /\ node[call.cur] \in Cells
              /\ node[call.cur].next = Elem(s, Len(o) + 1 + 1)
            BY <3>4, <3>5 DEF Chain
        <3>7. node[call.cur].next \in Ptr /\ node[call.cur].ptr \in Values \cup {NULL}
            BY <3>6 DEF Cells
        <3> DEFINE o2 == Append(o, node[call.cur].ptr)
        <3>8. /\ o2 \in Seq(Values \cup {NULL}) /\ Len(o2) = Len(o) + 1
              /\ DOMAIN o2 = 1 .. Len(o) + 1
              /\ \A i \in DOMAIN o2 : o2[i] = node[s[i]].ptr
            <4>1. /\ o2 \in Seq(Values \cup {NULL}) /\ Len(o2) = Len(o) + 1
                  /\ o2[Len(o) + 1] = node[call.cur].ptr
                  /\ \A i \in 1 .. Len(o) : o2[i] = o[i]
                  /\ DOMAIN o2 = 1 .. Len(o) + 1
                BY <3>4, <3>7
            <4> HIDE DEF o2
            <4> QED
                BY <4>1, <3>3, <3>4, <3>5
        <3>9. /\ call'.fn = "vec" /\ call'.dq = call.dq /\ call'.room = call.room
              /\ call'.sentinel = call.sentinel
              /\ call'.out = o2 /\ call'.cur = Elem(s, Len(o) + 1 + 1)
            BY <3>1, <3>6, <1>2 DEF Calls, o
        <3>10. call' \in Calls
            BY <3>1, <3>7, <3>8, <1>2 DEF Calls, o
        <3> HIDE DEF o2
        <3>11. Len(o2) <= Len(s) /\ call'.cur = Elem(s, Len(o2) + 1)
            BY <3>4, <3>5, <3>8, <3>9
        <3>12. VecOK'
            BY <1>1, <3>3, <3>8, <3>9, <3>11 DEF VecOK, s
        <3> QED
            BY <1>1, <3>2, <3>9, <3>10, <3>12 DEF CallLive
    <2>3. CASE VecEnd \/ VecNoMem
        <3>1. call' = Idle
            BY <2>3 DEF VecEnd, VecNoMem
        <3> QED
            BY <3>1 DEF Idle, Calls, Ptr, VecOK, CallLive
    <2> QED
        BY <2>1, <2>2, <2>3
<1> QED
    BY <1>2, <1>3, <1>4
    DEF IndInv, TypeOK, FreeOK, Formed, AllOK, Heads, Cells, Calls

(* HXdeque_free releases the nodes from the front and then the head. *)
LEMMA FreeInv ==
    ASSUME IndInv, (\E d \in Deques : FreeBegin(d)) \/ FreeNode \/ FreeEnd
    PROVE  IndInv'
<1>1. CASE \E d \in Deques : FreeBegin(d)
    <2>1. PICK d \in Deques :
             /\ Ready /\ dq[d].live
             /\ call' = [Idle EXCEPT !.fn = "free", !.dq = d, !.cur = dq[d].first]
             /\ UNCHANGED <<dq, node, lst, moved>>
             /\ ret' = NULL
        BY <1>1 DEF FreeBegin
    <2>2. Formed /\ NoneMoved
        BY <2>1, QuietFacts DEF Ready, Formed, IndInv
    <2>3. dq[d].first = Elem(lst[d], 1) /\ dq[d].first \in Ptr
        BY <2>2 DEF Formed, AllOK, Ends, Heads
    <2>4. /\ call' \in Calls /\ call'.fn = "free" /\ call'.dq = d
          /\ call'.cur = Elem(lst[d], 1)
        <3>1. call' = [fn |-> "free", dq |-> d, cur |-> dq[d].first, room |-> 0,
                       sentinel |-> 0, out |-> <<>>]
            BY <2>1 DEF Idle
        <3>2. 0 \in Int /\ <<>> \in Seq(Values \cup {NULL})
            OBVIOUS
        <3> QED
            BY <2>3, <3>1, <3>2 DEF Calls
    <2>5. ChainOK /\ NodesOwned /\ call.fn = "none"
        BY <2>1 DEF IndInv, Ready
    <2>6. ChainOK'
        BY <2>1, <2>4, <2>5 DEF ChainOK, HeadOK, LinksOK, Dying
    <2>7. NodesOwned'
        BY <2>1, <2>5 DEF NodesOwned, Free
    <2> QED
        BY <2>1, <2>2, <2>4, <2>6, <2>7
        DEF IndInv, TypeOK, Formed, AllOK, Heads, Cells, Calls, FreeOK, VecOK, CallLive,
            NoneMoved
<1>2. CASE FreeNode
    <2> DEFINE d == call.dq
               s == lst[d]
               c == call.cur
               t == Tail(s)
    <2>1. /\ call.fn = "free" /\ c # NULL
          /\ node' = [node EXCEPT ![c] = NoNode]
          /\ call' = [call EXCEPT !.cur = node[c].next]
          /\ lst' = [lst EXCEPT ![d] = t]
          /\ dq' = dq /\ moved' = moved /\ ret' = NULL
        BY <1>2 DEF FreeNode
    <2>2. d \in Deques /\ dq[d].live /\ c = Elem(s, 1)
        BY <2>1 DEF IndInv, CallLive, FreeOK
    <2>3. /\ dq \in [Deques -> Heads] /\ node \in [Nodes -> Cells]
          /\ lst \in [Deques -> Seq(Nodes)] /\ call \in Calls
          /\ moved \in [Deques -> Int] /\ NoneMoved
        BY DEF IndInv, TypeOK, Heads, Cells, Calls
    <2>4. /\ \A e \in Deques : HeadOK(e) /\ LinksOK(e)
          /\ \A n \in Nodes \ Free : \E i \in DOMAIN lst[node[n].parent] :
                lst[node[n].parent][i] = n
          /\ \A e \in Deques : \A i, j \in DOMAIN lst[e] :
                lst[e][i] = lst[e][j] => i = j
          /\ \A e \in Deques : ~dq[e].live => lst[e] = <<>>
        BY DEF IndInv, ChainOK, NodesOwned
    <2>5. /\ s \in Seq(Nodes) /\ Len(s) \in Nat /\ DOMAIN s = 1 .. Len(s)
          /\ 1 \in DOMAIN s /\ c = s[1] /\ c \in Nodes
        BY <2>1, <2>2, <2>3 DEF Elem
    <2>6. /\ t \in Seq(Nodes) /\ Len(t) = Len(s) - 1 /\ DOMAIN t = 1 .. Len(s) - 1
          /\ \A i \in 1 .. Len(s) - 1 : t[i] = s[i + 1]
        BY <2>5
    <2> HIDE DEF t
    <2>7. NoNode \in Cells /\ NoNode.parent = NULL
        BY DEF NoNode, NewNode, Cells, Ptr
    <2>8. /\ node' \in [Nodes -> Cells] /\ node'[c] = NoNode
          /\ \A n \in Nodes \ {c} : node'[n] = node[n]
        BY <2>1, <2>3, <2>5, <2>7
    <2>9. /\ lst' \in [Deques -> Seq(Nodes)] /\ lst'[d] = t
          /\ \A e \in Deques \ {d} : lst'[e] = lst[e]
        BY <2>1, <2>2, <2>3, <2>6
    <2>10. node[c].parent = d /\ node[c].next = Elem(s, 2)
        BY <2>2, <2>4, <2>5 DEF LinksOK
    <2>11. node[c] \in Cells /\ node[c].next \in Ptr
        BY <2>3, <2>5 DEF Cells
    <2>12. /\ call' \in Calls /\ call'.fn = "free" /\ call'.dq = d
           /\ call'.cur = Elem(s, 2)
        BY <2>1, <2>3, <2>10, <2>11 DEF Calls
    <2>13. Elem(t, 1) = Elem(s, 2)
        BY <2>5, <2>6 DEF Elem
    <2>14. ASSUME NEW e \in Deques
           PROVE  HeadOK(e)'
        BY <2>1, <2>4, <2>9, <2>12 DEF HeadOK, Dying
    <2>15. ASSUME NEW e \in Deques
           PROVE  LinksOK(e)'
        <3>1. CASE e = d
            <4>1. ASSUME NEW i \in DOMAIN t
                  PROVE  node'[t[i]].parent = d /\ node'[t[i]].next = Elem(t, i + 1)
                <5>1. /\ i + 1 \in DOMAIN s /\ t[i] = s[i + 1]
                      /\ t[i] \in Nodes /\ t[i] # c
                    BY <2>2, <2>4, <2>5, <2>6
                <5>2. /\ node[s[i + 1]].parent = d
                      /\ node[s[i + 1]].next = Elem(s, i + 1 + 1)
                    BY <5>1, <2>2, <2>4 DEF LinksOK
                <5>3. Elem(s, i + 1 + 1) = Elem(t, i + 1)
                    BY <2>5, <2>6 DEF Elem
                <5> QED
                    BY <5>1, <5>2, <5>3, <2>8
            <4> QED
                BY <3>1, <4>1, <2>9, <2>12 DEF LinksOK, Dying
        <3>2. CASE e # d
            <4>1. \A i \in DOMAIN lst[e] :
                     lst[e][i] \in Nodes /\ node[lst[e][i]].parent = e
                BY <2>3, <2>4 DEF LinksOK
            <4>2. \A i \in DOMAIN lst[e] : node'[lst[e][i]] = node[lst[e][i]]
                BY <3>2, <4>1, <2>8, <2>10
            <4> QED
                BY <3>2, <4>2, <2>1, <2>4, <2>9, <2>12 DEF LinksOK, Dying
        <3> QED
            BY <3>1, <3>2
    <2>16. NodesOwned'
        <3>1. ASSUME NEW n \in Nodes, node'[n].parent # NULL
              PROVE  \E i \in DOMAIN lst'[node'[n].parent] :
                         lst'[node'[n].parent][i] = n
            <4>1. n # c /\ node'[n] = node[n] /\ n \in Nodes \ Free
                BY <3>1, <2>7, <2>8 DEF Free
            <4>2. node[n].parent \in Deques
                BY <4>1, <2>3 DEF Cells, Free
            <4>3. PICK i \in DOMAIN lst[node[n].parent] : lst[node[n].parent][i] = n
                BY <4>1, <2>4
            <4>4. CASE node[n].parent = d
                <5>1. i # 1
                    BY <4>1, <4>3, <4>4, <2>5
                <5>2. i - 1 \in DOMAIN t /\ t[i - 1] = n
                    BY <4>3, <4>4, <5>1, <2>5, <2>6
                <5> QED
                    BY <4>1, <4>4, <5>2, <2>9
            <4>5. CASE node[n].parent # d
                BY <4>1, <4>2, <4>3, <4>5, <2>9
            <4> QED
                BY <4>4, <4>5
        <3>2. ASSUME NEW e \in Deques, NEW i \in DOMAIN lst'[e], NEW j \in DOMAIN lst'[e],
                     lst'[e][i] = lst'[e][j]
              PROVE  i = j
            <4>1. CASE e = d
                <5>1. /\ i + 1 \in DOMAIN s /\ j + 1 \in DOMAIN s
                      /\ s[i + 1] = s[j + 1]
                    BY <3>2, <4>1, <2>5, <2>6, <2>9
                <5>2. i + 1 = j + 1
                    BY <5>1, <2>2, <2>4
                <5> QED
                    BY <5>2, <3>2, <4>1, <2>6, <2>9
            <4>2. CASE e # d
                BY <3>2, <4>2, <2>4, <2>9
            <4> QED
                BY <4>1, <4>2
        <3>3. ASSUME NEW e \in Deques, ~dq'[e].live
              PROVE  lst'[e] = <<>>
            BY <3>3, <2>1, <2>2, <2>4, <2>9
        <3> QED
            BY <3>1, <3>2, <3>3 DEF NodesOwned, Free
    <2>17. TypeOK' /\ FreeOK' /\ VecOK' /\ CallLive' /\ NoneMoved'
        BY <2>1, <2>2, <2>3, <2>8, <2>9, <2>12, <2>13
        DEF TypeOK, Heads, Cells, Calls, FreeOK, VecOK, CallLive, NoneMoved
    <2> QED
        BY <2>14, <2>15, <2>16, <2>17 DEF IndInv, ChainOK
<1>3. CASE FreeEnd
    <2> DEFINE d == call.dq
    <2>1. /\ call.fn = "free" /\ call.cur = NULL
          /\ dq' = [dq EXCEPT ![d] = NoHead]
          /\ moved' = [moved EXCEPT ![d] = 0]
          /\ call' = Idle /\ node' = node /\ lst' = lst /\ ret' = NULL
        BY <1>3 DEF FreeEnd
    <2>2. d \in Deques /\ Elem(lst[d], 1) = NULL
        BY <2>1 DEF IndInv, CallLive, FreeOK
    <2>3. /\ dq \in [Deques -> Heads] /\ node \in [Nodes -> Cells]
          /\ lst \in [Deques -> Seq(Nodes)] /\ moved \in [Deques -> Int]
          /\ NoneMoved
        BY DEF IndInv, TypeOK, Heads, Cells
    <2>4. lst[d] = <<>>
        <3>1. lst[d] \in Seq(Nodes) /\ 1 \notin DOMAIN lst[d]
            BY <2>2, <2>3, DequeAssumption DEF Elem
        <3> QED
            BY <3>1
    <2>5. NoHead \in Heads
        BY DEF NoHead, Heads, Ptr
    <2>6. /\ dq' \in [Deques -> Heads] /\ dq'[d] = NoHead
          /\ \A e \in Deques \ {d} : dq'[e] = dq[e]
        BY <2>1, <2>2, <2>3, <2>5
    <2>10. /\ moved' \in [Deques -> Int] /\ moved'[d] = 0
           /\ \A e \in Deques \ {d} : moved'[e] = moved[e]
        BY <2>1, <2>2, <2>3
    <2>7. call' \in Calls /\ call'.fn = "none"
        BY <2>1 DEF Idle, Calls, Ptr
    <2>8. ASSUME NEW e \in Deques
          PROVE  HeadOK(e)' /\ LinksOK(e)'
        <3>1. CASE e = d
            <4>1. DOMAIN lst[e] = {} /\ Len(lst[e]) = 0
                BY <3>1, <2>4
            <4> QED
                BY <3>1, <4>1, <2>1, <2>6, <2>7, <2>10
                DEF HeadOK, LinksOK, Dying, NoHead, Elem
        <3>2. CASE e # d
            <4>1. HeadOK(e) /\ LinksOK(e)
                BY DEF IndInv, ChainOK
            <4> QED
                BY <3>2, <4>1, <2>1, <2>6, <2>7, <2>10 DEF HeadOK, LinksOK, Dying
        <3> QED
            BY <3>1, <3>2
    <2>9. NodesOwned'
        <3>1. NodesOwned
            BY DEF IndInv
        <3> QED
            BY <3>1, <2>1, <2>4, <2>6 DEF NodesOwned, Free
    <2> QED
        BY <2>1, <2>3, <2>6, <2>7, <2>8, <2>9, <2>10
        DEF IndInv, TypeOK, ChainOK, Heads, Cells, Calls, FreeOK, VecOK, CallLive,
            NoneMoved
<1> QED
    BY <1>1, <1>2, <1>3

(* Every step preserves the invariant. *)
LEMMA NextInv ==
    ASSUME MoveAnywhere = FALSE, IndInv, [Next]_vars
    PROVE  IndInv'
<1>1. CASE Next
    BY <1>1, StepInv, VecInv, FreeInv DEF Next
<1>2. CASE UNCHANGED vars
    BY <1>2
    DEF vars, IndInv, TypeOK, ChainOK, HeadOK, LinksOK, Dying, NodesOwned, Free,
        FreeOK, VecOK, CallLive, NoneMoved
<1> QED
    BY <1>1, <1>2

(* It holds initially. *)
LEMMA StartInv == Init => IndInv
<1>1. SUFFICES ASSUME Init
               PROVE  Settled
    BY SettledInv
<1>2. /\ NoHead \in Heads /\ NoNode \in Cells /\ NoNode.parent = NULL /\ Idle \in Calls
      /\ Idle.fn = "none"
    BY DEF NoHead, Heads, NoNode, NewNode, Cells, Idle, Calls, Ptr
<1>3. /\ dq \in [Deques -> Heads] /\ node \in [Nodes -> Cells]
      /\ lst \in [Deques -> Seq(Nodes)] /\ moved \in [Deques -> Int]
    BY <1>1, <1>2 DEF Init
<1>4. \A d \in Deques : dq[d] = NoHead /\ lst[d] = <<>> /\ moved[d] = 0
    BY <1>1 DEF Init
<1>5. \A d \in Deques : Chain(node, lst[d], d) /\ Ends(dq[d], lst[d], moved[d])
    BY <1>3, <1>4 DEF Chain, Ends, NoHead, Elem
<1>6. \A d \in Deques : Owned(node, lst, d)
    BY <1>1, <1>2, DequeAssumption DEF Init, Owned
<1> QED
    BY <1>1, <1>2, <1>3, <1>4, <1>5, <1>6 DEF Init, Settled, AllOK

(* The moves that Movable leaves out are those that do not work: each of   *)
(* them breaks the chain at once, for the node that comes to be behind the *)
(* moved one keeps the target as its prev (deque.c:109-114).               *)
THEOREM OtherMovesBreak ==
    ASSUME IndInv, NEW nd \in Nodes, NEW af \in Nodes,
           HXdeque_move(nd, af), ~Movable(nd, af)
    PROVE  ~ChainOK'
<1> DEFINE p == node[nd].parent
           d == node[af].parent
           i == Index(nd)
           g == DropHeap(node, nd)
           rest == RemoveAt(lst[p], i)
           t == IF p = d THEN rest ELSE lst[d]
           at == CHOOSE j \in DOMAIN t : t[j] = af
<1>1. /\ nd # af /\ nd \notin Free /\ af \notin Free
      /\ node[af].next # NULL
      /\ node[af].next = nd => node[nd].next # NULL
      /\ Ready /\ call' = call
    BY DEF HXdeque_move, Movable
<1>2. AllOK(dq, node, lst, moved)
    BY <1>1, QuietFacts DEF Ready
<1>3. /\ p \in Deques /\ i \in DOMAIN lst[p] /\ lst[p][i] = nd
      /\ d \in Deques
    BY <1>1, <1>2, IndexProps
<1>4. /\ node \in [Nodes -> Cells]
      /\ Chain(node, lst[p], p) /\ Chain(node, lst[d], d) /\ Owned(node, lst, d)
    BY <1>2, <1>3 DEF AllOK
<1>5. lst'[d] = InsertAt(t, at + 1, nd) /\ node' = AddHeap(g, af, nd)
    BY <1>3 DEF HXdeque_move
<1> HIDE DEF i, g, rest, at
<1>6. Dropped(node, lst[p], p, i, g, rest)
    BY <1>3, <1>4, DropChain DEF g, rest
<1>7. PICK b \in DOMAIN lst[d] : lst[d][b] = af
    BY <1>1, <1>4 DEF Owned
(* The target is followed by some node x in the list without nd. *)
<1>8. /\ Chain(g, t, d)
      /\ \A j \in DOMAIN t : t[j] # nd
      /\ \E j \in DOMAIN t : t[j] = af
    <2>1. CASE p = d
        <3>1. b # i
            BY <2>1, <1>1, <1>3, <1>7
        <3> QED
            BY <2>1, <3>1, <1>3, <1>6, <1>7 DEF Dropped
    <2>2. CASE p # d
        <3>1. \A j \in DOMAIN lst[d] : lst[d][j] \in Nodes /\ node[lst[d][j]].parent = d
            BY <1>4 DEF Chain
        <3>2. g \in [Nodes -> Cells]
            BY <1>6 DEF Dropped, Chain
        <3>3. \A j \in DOMAIN lst[d] : g[lst[d][j]] = node[lst[d][j]]
            BY <2>2, <3>1, <1>6 DEF Dropped
        <3>4. Chain(g, lst[d], d)
            BY <3>2, <3>3, <1>4, FrameChain
        <3>5. \A j \in DOMAIN lst[d] : lst[d][j] # nd
            BY <2>2, <3>1
        <3> QED
            BY <2>2, <3>4, <3>5, <1>7
    <2> QED
        BY <2>1, <2>2
<1> HIDE DEF t
<1>9. at \in DOMAIN t /\ t[at] = af
    BY <1>8 DEF at
<1>10. g[af].next # NULL
    <2>1. g[af].next = IF af = node[nd].prev THEN node[nd].next ELSE node[af].next
        BY <1>4 DEF g, DropHeap, Cells
    <2>2. SUFFICES ASSUME af = node[nd].prev
                   PROVE  node[nd].next # NULL
        BY <2>1, <1>1
    <2>3. node[nd].prev = Elem(lst[p], i - 1)
        BY <1>3, <1>4 DEF Chain
    <2>4. i - 1 \in DOMAIN lst[p] /\ lst[p][i - 1] = af
        BY <2>2, <2>3, DequeAssumption DEF Elem
    <2>5. node[af].next = Elem(lst[p], i - 1 + 1)
        BY <2>4, <1>4 DEF Chain
    <2>6. (i - 1) + 1 = i
        BY <1>3, <1>4 DEF Chain
    <2> QED
        BY <2>5, <2>6, <1>1, <1>3 DEF Elem
<1>11. /\ t \in Seq(Nodes) /\ at + 1 \in DOMAIN t /\ t[at + 1] \in Nodes
       /\ g[t[at + 1]].prev = af
    <2>1. t \in Seq(Nodes) /\ Len(t) \in Nat /\ DOMAIN t = 1 .. Len(t)
        BY <1>8 DEF Chain
    <2>2. at + 1 \in DOMAIN t
        <3>1. g[af].next = Elem(t, at + 1)
            BY <1>8, <1>9 DEF Chain
        <3> QED
            BY <3>1, <1>10 DEF Elem
    <2>3. g[t[at + 1]].prev = Elem(t, (at + 1) - 1)
        BY <2>2, <1>8 DEF Chain
    <2>4. (at + 1) - 1 = at
        BY <2>1, <1>9
    <2> QED
        BY <2>1, <2>2, <2>3, <2>4, <1>9 DEF Elem
<1>12. t[at + 1] # nd /\ t[at + 1] # af
    <2>1. t[at + 1] = t[at] => at + 1 = at
        BY <1>8, <1>9, <1>11 DEF Chain
    <2>2. at + 1 # at
        BY <1>9, <1>11
    <2> QED
        BY <2>1, <2>2, <1>8, <1>9, <1>11
(* Now x is two places behind the target, with nd in between. *)
<1>13. /\ at + 1 + 1 \in DOMAIN lst'[d] /\ lst'[d][at + 1] = nd
       /\ lst'[d][at + 1 + 1] = t[at + 1]
    BY <1>5, <1>11, InsertProps
<1>14. node'[t[at + 1]].prev = af
    BY <1>5, <1>11, <1>12 DEF AddHeap
<1>15. SUFFICES ASSUME ChainOK'
                PROVE  FALSE
    OBVIOUS
<1>16. node'[lst'[d][at + 1 + 1]].prev = Elem(lst'[d], (at + 1 + 1) - 1)
    <2>1. PICK e \in Deques : e = d
        BY <1>3
    <2>2. LinksOK(e)'
        BY <1>15 DEF ChainOK
    <2>3. ~Dying(e)'
        BY <1>1 DEF Dying, Ready
    <2>4. at + 1 + 1 \in DOMAIN lst'[e]
        BY <2>1, <1>13
    <2>5. node'[lst'[e][at + 1 + 1]].prev = Elem(lst'[e], (at + 1 + 1) - 1)
        BY <2>2, <2>3, <2>4 DEF LinksOK
    <2> QED
        BY <2>1, <2>5
<1>17. (at + 1 + 1) - 1 = at + 1 /\ at + 1 \in DOMAIN lst'[d]
    <2>1. at \in Nat /\ (at + 1 + 1) - 1 = at + 1
        BY <1>9, <1>11
    <2> QED
        BY <2>1, <1>5, <1>11, InsertProps
<1> QED
    BY <1>1, <1>13, <1>14, <1>16, <1>17 DEF Elem

-----------------------------------------------------------------------------
(* The inductive invariant of the deque holds as long as HXdeque_move puts *)
(* nodes nowhere but at the end of a deque.                                *)
THEOREM Invariance == ASSUME MoveAnywhere = FALSE PROVE Spec => []IndInv
<1>1. Init => IndInv
    BY StartInv
<1>2. IndInv /\ [Next]_vars => IndInv'
    BY NextInv
<1> QED
    BY <1>1, <1>2, PTL DEF Spec

(* Type correctness of the deque, moves to the end of a deque included:    *)
(* heads, nodes and loop cursors point to deques and nodes or nowhere.     *)
THEOREM TypeCorrect == ASSUME MoveAnywhere = FALSE PROVE Spec => []TypeOK
<1>1. IndInv => TypeOK
    BY DEF IndInv
<1> QED
    BY <1>1, Invariance, PTL

(* The pointers first, last, next, prev and parent represent the list that *)
(* the calls made so far have produced, moves to the end of a deque        *)
(* included; items is its length less the nodes that came by such moves.   *)
THEOREM ChainCorrect == ASSUME MoveAnywhere = FALSE PROVE Spec => []ChainOK
<1>1. IndInv => ChainOK
    BY DEF IndInv
<1> QED
    BY <1>1, Invariance, PTL

(* Every allocated node is in the list of one deque, at one place: nothing *)
(* leaks, whether a node came by push, by unshift or by a move to the end  *)
(* of a deque.                                                             *)
THEOREM NothingLeaks == ASSUME MoveAnywhere = FALSE PROVE Spec => []NodesOwned
<1>1. IndInv => NodesOwned
    BY DEF IndInv
<1> QED
    BY <1>1, Invariance, PTL

(* HXdeque_free releases each node of its deque, in order, and no other.   *)
(* HXdeque_to_vec delivers the pointers in order; what it writes is what   *)
(* it has allocated if no node was moved between deques, and exceeds it by *)
(* the nodes moved in otherwise.                                           *)
THEOREM LoopsCorrect == ASSUME MoveAnywhere = FALSE PROVE Spec => []LoopsOK
<1>1. IndInv => LoopsOK
    BY DEF IndInv, LoopsOK
<1> QED
    BY <1>1, Invariance, PTL

(* HXdeque_pop and HXdeque_shift return the data at the two ends of the    *)
(* list, also where a node was moved to the end.                           *)
THEOREM EndsCorrect == ASSUME MoveAnywhere = FALSE PROVE Spec => EndsReturned
<1>1. ASSUME IndInv, NEW d \in Deques
      PROVE  /\ HXdeque_pop(d) => ret' = node[lst[d][Len(lst[d])]].ptr
             /\ HXdeque_shift(d) => ret' = node[lst[d][1]].ptr
    <2>1. HXdeque_pop(d) => /\ dq[d].last # NULL /\ ret' = node[dq[d].last].ptr
                            /\ call.fn = "none"
        BY DEF HXdeque_pop, HXdeque_del, Ready
    <2>2. HXdeque_shift(d) => /\ dq[d].first # NULL /\ ret' = node[dq[d].first].ptr
                              /\ call.fn = "none"
        BY DEF HXdeque_shift, HXdeque_del, Ready
    <2>3. call.fn = "none" => /\ dq[d].first = Elem(lst[d], 1)
                              /\ dq[d].last = Elem(lst[d], Len(lst[d]))
        BY <1>1 DEF IndInv, ChainOK, HeadOK, Dying
    <2> QED
        BY <2>1, <2>2, <2>3 DEF Elem
<1> DEFINE Act == \A d \in Deques :
              /\ HXdeque_pop(d) => ret' = node[lst[d][Len(lst[d])]].ptr
              /\ HXdeque_shift(d) => ret' = node[lst[d][1]].ptr
<1>2. IndInv /\ [Next]_vars => [Act]_vars
    BY <1>1
<1> QED
    BY <1>2, Invariance, PTL DEF Spec, EndsReturned
=============================================================================
