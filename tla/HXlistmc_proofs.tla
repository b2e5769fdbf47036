-------------------------- MODULE HXlistmc_proofs ---------------------------
(***************************************************************************)
(* Machine-checked proofs about the two containers whose memory the        *)
(* callers see.                                                            *)
(*                                                                         *)
(* Intrusive lists, for any number of heads and nodes: the pointers are    *)
(* the rings of the lists, and the safe loops visit every node once        *)
(* whatever their bodies unlink.                                           *)
(*                                                                         *)
(* Memory containers, for data of any kind and length and for any initial  *)
(* capacities: no call writes outside of the block, and the container      *)
(* holds what its calls promise.                                           *)
(***************************************************************************)
EXTENDS HXlist, HXmc, SequenceTheorems, TLAPS

-----------------------------------------------------------------------------
(* Rings.                                                                  *)

Ptrs == AllHeads \cup Nodes

(* What is at place i of the ring through head h and the nodes of s: the   *)
(* head is before the first and behind the last of them.                   *)
Elem(h, s, i) == IF i \in DOMAIN s THEN s[i] ELSE h

Pointers == [Ptrs -> Ptrs \cup {NoNode}]

Ring(nx, pv, h, s) ==
    \A i \in 0 .. Len(s) :
        nx[Elem(h, s, i)] = Elem(h, s, i + 1) /\ pv[Elem(h, s, i + 1)] = Elem(h, s, i)

Distinct(s) == \A i, j \in DOMAIN s : s[i] = s[j] => i = j

(* A head and nodes that can be a ring. *)
Rung(h, s) == h \in AllHeads /\ s \in Seq(Nodes) /\ Distinct(s)

(* t is s with nu inserted behind its first k elements, and s without its  *)
(* kth element.                                                            *)
Inserted(s, k, nu, t) ==
    /\ t \in Seq(Nodes) /\ Len(t) = Len(s) + 1
    /\ \A j \in 1 .. Len(s) + 1 :
         t[j] = IF j <= k THEN s[j] ELSE IF j = k + 1 THEN nu ELSE s[j - 1]

Removed(s, k, t) ==
    /\ t \in Seq(Nodes) /\ Len(t) = Len(s) - 1
    /\ \A j \in 1 .. Len(s) - 1 : t[j] = IF j < k THEN s[j] ELSE s[j + 1]

(* The pointers after __HXlist_add(nu, p, n) and after HXlist_del(e). *)
Linking(nx, pv, nx2, pv2, nu, p, n) ==
    /\ nx2 = [nx EXCEPT ![nu] = n, ![p] = nu]
    /\ pv2 = [pv EXCEPT ![nu] = p, ![n] = nu]

Unlinking(nx, pv, nx2, pv2, e) ==
    /\ nx2 = [nx EXCEPT ![pv[e]] = nx[e], ![e] = NoNode]
    /\ pv2 = [pv EXCEPT ![nx[e]] = pv[e], ![e] = NoNode]

(* Only pointers of the ring and of the nodes in S have changed. *)
SameOff(nx, pv, nx2, pv2, h, s, S) ==
    \A p \in Ptrs : p # h /\ p \notin S /\ (\A i \in DOMAIN s : s[i] # p)
                      => nx2[p] = nx[p] /\ pv2[p] = pv[p]

(* The places of a ring and what is there. *)
LEMMA ElemType ==
    ASSUME ListAssumption, NEW h, NEW s, Rung(h, s)
    PROVE  /\ Len(s) \in Nat /\ DOMAIN s = 1 .. Len(s)
           /\ \A i \in Int : Elem(h, s, i) \in Ptrs
           /\ \A i \in 1 .. Len(s) : Elem(h, s, i) = s[i] /\ s[i] \in Nodes /\ s[i] # h
           /\ Elem(h, s, 0) = h /\ Elem(h, s, Len(s) + 1) = h
<1>1. s \in Seq(Nodes) /\ Len(s) \in Nat /\ DOMAIN s = 1 .. Len(s) /\ h \in AllHeads
    BY DEF Rung
<1>2. \A i \in 1 .. Len(s) : s[i] \in Nodes
    BY <1>1
<1> QED
    BY <1>1, <1>2 DEF Elem, Ptrs, ListAssumption

(* Two places of a ring hold different things. *)
LEMMA ElemDistinct ==
    ASSUME ListAssumption, NEW h, NEW s, Rung(h, s)
    PROVE  /\ \A i, j \in 0 .. Len(s) : Elem(h, s, i) = Elem(h, s, j) => i = j
           /\ \A i, j \in 1 .. Len(s) + 1 : Elem(h, s, i) = Elem(h, s, j) => i = j
<1>1. /\ Len(s) \in Nat /\ DOMAIN s = 1 .. Len(s)
      /\ \A i \in 1 .. Len(s) : s[i] # h
    BY ElemType
<1>2. \A i, j \in 1 .. Len(s) : s[i] = s[j] => i = j
    BY <1>1 DEF Rung, Distinct
<1> QED
    BY <1>1, <1>2 DEF Elem

(* A ring is untouched by changes of pointers elsewhere. *)
LEMMA RingFrame ==
    ASSUME ListAssumption, NEW nx, NEW pv, NEW nx2, NEW pv2, NEW h, NEW s, Rung(h, s),
           Ring(nx, pv, h, s),
           \A i \in 0 .. Len(s) + 1 : /\ nx2[Elem(h, s, i)] = nx[Elem(h, s, i)]
                                      /\ pv2[Elem(h, s, i)] = pv[Elem(h, s, i)]
    PROVE  Ring(nx2, pv2, h, s)
<1>1. Len(s) \in Nat
    BY ElemType
<1> SUFFICES ASSUME NEW i \in 0 .. Len(s)
             PROVE  /\ nx2[Elem(h, s, i)] = Elem(h, s, i + 1)
                    /\ pv2[Elem(h, s, i + 1)] = Elem(h, s, i)
    BY DEF Ring
<1>2. i \in 0 .. Len(s) + 1 /\ i + 1 \in 0 .. Len(s) + 1
    BY <1>1
<1> QED
    BY <1>2 DEF Ring

(* The places of a ring with a node more. *)
LEMMA InsertElem ==
    ASSUME ListAssumption, NEW h, NEW s, Rung(h, s), NEW k \in 0 .. Len(s), NEW nu, NEW t,
           Inserted(s, k, nu, t)
    PROVE  \A i \in 0 .. Len(s) + 2 :
              Elem(h, t, i) = IF i <= k THEN Elem(h, s, i)
                              ELSE IF i = k + 1 THEN nu ELSE Elem(h, s, i - 1)
<1>1. Len(s) \in Nat /\ DOMAIN s = 1 .. Len(s) /\ DOMAIN t = 1 .. Len(s) + 1
    BY ElemType DEF Inserted
<1> QED
    BY <1>1 DEF Elem, Inserted

(* The places of a ring with a node less. *)
LEMMA RemoveElem ==
    ASSUME ListAssumption, NEW h, NEW s, Rung(h, s), NEW k \in 1 .. Len(s), NEW t,
           Removed(s, k, t)
    PROVE  \A i \in 0 .. Len(s) : Elem(h, t, i) = IF i < k THEN Elem(h, s, i)
                                                  ELSE Elem(h, s, i + 1)
<1>1. Len(s) \in Nat /\ DOMAIN s = 1 .. Len(s)
    BY ElemType
<1>2. DOMAIN t = 1 .. Len(s) - 1
    BY <1>1 DEF Removed
<1> QED
    BY <1>1, <1>2 DEF Elem, Removed

(* __HXlist_add makes the ring of the list with the node in it.            *)
LEMMA RingInsert ==
    ASSUME ListAssumption, NEW h, NEW s, Rung(h, s), NEW k \in 0 .. Len(s), NEW nu \in Nodes,
           NEW t, Inserted(s, k, nu, t), \A i \in DOMAIN s : s[i] # nu,
           NEW nx \in Pointers, NEW pv \in Pointers, Ring(nx, pv, h, s), NEW nx2, NEW pv2,
           Linking(nx, pv, nx2, pv2, nu, Elem(h, s, k), Elem(h, s, k + 1))
    PROVE  /\ Ring(nx2, pv2, h, t)
           /\ nx2 \in Pointers /\ pv2 \in Pointers
           /\ SameOff(nx, pv, nx2, pv2, h, s, {nu})
<1> DEFINE el(i) == Elem(h, s, i)
           tl(i) == Elem(h, t, i)
<1>1. /\ Len(s) \in Nat /\ DOMAIN s = 1 .. Len(s)
      /\ \A i \in Int : el(i) \in Ptrs
      /\ \A i \in Int : el(i) = h \/ (i \in DOMAIN s /\ el(i) = s[i])
    BY ElemType DEF Elem
<1>2. /\ \A i, j \in 0 .. Len(s) : el(i) = el(j) => i = j
      /\ \A i, j \in 1 .. Len(s) + 1 : el(i) = el(j) => i = j
    BY ElemDistinct
<1>3. \A i \in 0 .. Len(s) + 2 :
         tl(i) = IF i <= k THEN el(i) ELSE IF i = k + 1 THEN nu ELSE el(i - 1)
    BY InsertElem
<1>4. nu \in Ptrs /\ h # nu /\ h \in Ptrs
    BY DEF Ptrs, Rung, ListAssumption
<1>5. \A i \in Int : el(i) # nu
    BY <1>1, <1>4
<1>6. \A i \in 0 .. Len(s) : nx[el(i)] = el(i + 1) /\ pv[el(i + 1)] = el(i)
    BY DEF Ring
<1>7. Len(t) = Len(s) + 1
    BY DEF Inserted
<1>8. /\ nx2 = [nx EXCEPT ![nu] = el(k + 1), ![el(k)] = nu]
      /\ pv2 = [pv EXCEPT ![nu] = el(k), ![el(k + 1)] = nu]
    BY DEF Linking
<1>9. k \in Int /\ k + 1 \in Int /\ k >= 0 /\ k <= Len(s)
    BY <1>1
<1> HIDE DEF el, tl
<1>10. /\ \A p \in Ptrs : nx2[p] = IF p = el(k) THEN nu ELSE IF p = nu THEN el(k + 1) ELSE nx[p]
       /\ \A p \in Ptrs : pv2[p] = IF p = el(k + 1) THEN nu ELSE IF p = nu THEN el(k) ELSE pv[p]
       /\ nx2 \in Pointers /\ pv2 \in Pointers
    BY <1>1, <1>4, <1>5, <1>8, <1>9 DEF Pointers
<1>11. ASSUME NEW i \in 0 .. Len(s) + 1
       PROVE  nx2[tl(i)] = tl(i + 1) /\ pv2[tl(i + 1)] = tl(i)
    <2>0. i \in Int /\ i >= 0 /\ i <= Len(s) + 1
        BY <1>1
    <2>1. CASE i < k
        <3>1. tl(i) = el(i) /\ tl(i + 1) = el(i + 1)
            BY <2>0, <2>1, <1>1, <1>3, <1>9
        <3>2. nx[el(i)] = el(i + 1) /\ pv[el(i + 1)] = el(i)
            BY <2>0, <2>1, <1>1, <1>6, <1>9
        <3>3. el(i) # el(k) /\ el(i + 1) # el(k + 1) /\ el(i) # nu /\ el(i + 1) # nu
            BY <2>0, <2>1, <1>1, <1>2, <1>5, <1>9
        <3>4. el(i) \in Ptrs /\ el(i + 1) \in Ptrs
            BY <2>0, <1>1
        <3> QED
            BY <3>1, <3>2, <3>3, <3>4, <1>10
    <2>2. CASE i = k
        <3>1. tl(i) = el(k) /\ tl(i + 1) = nu
            BY <2>0, <2>2, <1>1, <1>3, <1>9
        <3>2. el(k) \in Ptrs /\ el(k + 1) # nu
            BY <1>1, <1>5, <1>9
        <3> QED
            BY <3>1, <3>2, <1>4, <1>10
    <2>3. CASE i = k + 1
        <3>1. tl(i) = nu /\ tl(i + 1) = el(k + 1)
            BY <2>0, <2>3, <1>1, <1>3, <1>9
        <3>2. el(k + 1) \in Ptrs /\ el(k) # nu
            BY <1>1, <1>5, <1>9
        <3> QED
            BY <3>1, <3>2, <1>4, <1>10
    <2>4. CASE i > k + 1
        <3>1. tl(i) = el(i - 1) /\ tl(i + 1) = el(i)
            BY <2>0, <2>4, <1>1, <1>3, <1>9
        <3>2. nx[el(i - 1)] = el(i) /\ pv[el(i)] = el(i - 1)
            BY <2>0, <2>4, <1>1, <1>6, <1>9
        <3>3. el(i - 1) # el(k) /\ el(i) # el(k + 1) /\ el(i - 1) # nu /\ el(i) # nu
            BY <2>0, <2>4, <1>1, <1>2, <1>5, <1>9
        <3>4. el(i - 1) \in Ptrs /\ el(i) \in Ptrs
            BY <2>0, <1>1
        <3> QED
            BY <3>1, <3>2, <3>3, <3>4, <1>10
    <2> QED
        BY <2>0, <2>1, <2>2, <2>3, <2>4, <1>9
<1>12. Ring(nx2, pv2, h, t)
    BY <1>7, <1>11 DEF Ring, tl
<1>13. ASSUME NEW p \in Ptrs, p # h, p # nu, \A i \in DOMAIN s : s[i] # p
       PROVE  nx2[p] = nx[p] /\ pv2[p] = pv[p]
    <2>1. el(k) # p /\ el(k + 1) # p
        BY <1>1, <1>9, <1>13
    <2> QED
        BY <2>1, <1>10, <1>13
<1>14. SameOff(nx, pv, nx2, pv2, h, s, {nu})
    BY <1>13 DEF SameOff
<1> QED
    BY <1>10, <1>12, <1>14

(* HXlist_del makes the ring of the list without the node.                 *)
LEMMA RingRemove ==
    ASSUME ListAssumption, NEW h, NEW s, Rung(h, s), NEW k \in 1 .. Len(s),
           NEW t, Removed(s, k, t),
           NEW nx \in Pointers, NEW pv \in Pointers, Ring(nx, pv, h, s), NEW nx2, NEW pv2,
           Unlinking(nx, pv, nx2, pv2, s[k])
    PROVE  /\ Ring(nx2, pv2, h, t)
           /\ nx2 \in Pointers /\ pv2 \in Pointers
           /\ SameOff(nx, pv, nx2, pv2, h, s, {})
<1> DEFINE el(i) == Elem(h, s, i)
           tl(i) == Elem(h, t, i)
<1>1. /\ Len(s) \in Nat /\ DOMAIN s = 1 .. Len(s)
      /\ \A i \in Int : el(i) \in Ptrs
      /\ \A i \in Int : el(i) = h \/ (i \in DOMAIN s /\ el(i) = s[i])
    BY ElemType DEF Elem
<1>2. /\ \A i, j \in 0 .. Len(s) : el(i) = el(j) => i = j
      /\ \A i, j \in 1 .. Len(s) + 1 : el(i) = el(j) => i = j
    BY ElemDistinct
<1>3. \A i \in 0 .. Len(s) : tl(i) = IF i < k THEN el(i) ELSE el(i + 1)
    BY RemoveElem
<1>4. s[k] = el(k) /\ el(k) # h
    BY ElemType
<1>5. \A i \in 0 .. Len(s) : nx[el(i)] = el(i + 1) /\ pv[el(i + 1)] = el(i)
    BY DEF Ring
<1>6. Len(t) = Len(s) - 1
    BY DEF Removed
<1> HIDE DEF el, tl
<1>7. k \in Int /\ k + 1 \in Int /\ k - 1 \in Int /\ k >= 1 /\ k <= Len(s)
    BY <1>1
<1>8. nx[el(k)] = el(k + 1) /\ pv[el(k)] = el(k - 1)
    <2>1. k \in 0 .. Len(s) /\ k - 1 \in 0 .. Len(s) /\ (k - 1) + 1 = k
        BY <1>1, <1>7
    <2> QED
        BY <2>1, <1>5
<1>9. el(k + 1) # el(k) /\ el(k - 1) # el(k)
    BY <1>1, <1>2, <1>7
<1>10. /\ nx2 = [nx EXCEPT ![el(k - 1)] = el(k + 1), ![el(k)] = NoNode]
       /\ pv2 = [pv EXCEPT ![el(k + 1)] = el(k - 1), ![el(k)] = NoNode]
    BY <1>4, <1>8 DEF Unlinking
<1>11. /\ \A p \in Ptrs : nx2[p] = IF p = el(k) THEN NoNode
                                   ELSE IF p = el(k - 1) THEN el(k + 1) ELSE nx[p]
       /\ \A p \in Ptrs : pv2[p] = IF p = el(k) THEN NoNode
                                   ELSE IF p = el(k + 1) THEN el(k - 1) ELSE pv[p]
       /\ nx2 \in Pointers /\ pv2 \in Pointers
    <2> DEFINE a == el(k - 1)
               b == el(k)
               c == el(k + 1)
    <2>1. a \in Ptrs /\ b \in Ptrs /\ c \in Ptrs /\ a # b /\ c # b
        BY <1>1, <1>7, <1>9
    <2>2. /\ nx2 = [nx EXCEPT ![a] = c, ![b] = NoNode]
          /\ pv2 = [pv EXCEPT ![c] = a, ![b] = NoNode]
        BY <1>10
    <2> HIDE DEF a, b, c
    <2>3. /\ nx2 \in Pointers
          /\ \A p \in Ptrs : nx2[p] = IF p = b THEN NoNode ELSE IF p = a THEN c ELSE nx[p]
        BY <2>1, <2>2 DEF Pointers
    <2>4. /\ pv2 \in Pointers
          /\ \A p \in Ptrs : pv2[p] = IF p = b THEN NoNode ELSE IF p = c THEN a ELSE pv[p]
        BY <2>1, <2>2 DEF Pointers
    <2> QED
        BY <2>3, <2>4 DEF a, b, c
<1>12. ASSUME NEW i \in 0 .. Len(s) - 1
       PROVE  nx2[tl(i)] = tl(i + 1) /\ pv2[tl(i + 1)] = tl(i)
    <2>0. i \in Int /\ i >= 0 /\ i <= Len(s) - 1
        BY <1>1
    <2>1. CASE i < k - 1
        <3>1. tl(i) = el(i) /\ tl(i + 1) = el(i + 1)
            <4>1. i \in 0 .. Len(s) /\ i + 1 \in 0 .. Len(s) /\ i < k /\ i + 1 < k
                BY <2>0, <2>1, <1>1, <1>7
            <4> QED
                BY <4>1, <1>3
        <3>2. nx[el(i)] = el(i + 1) /\ pv[el(i + 1)] = el(i)
            BY <2>0, <2>1, <1>1, <1>5, <1>7
        <3>3. el(i) # el(k) /\ el(i) # el(k - 1) /\ el(i + 1) # el(k + 1) /\ el(i + 1) # el(k)
            BY <2>0, <2>1, <1>1, <1>2, <1>7
        <3>4. el(i) \in Ptrs /\ el(i + 1) \in Ptrs
            BY <2>0, <1>1
        <3> QED
            BY <3>1, <3>2, <3>3, <3>4, <1>11
    <2>2. CASE i = k - 1
        <3>1. tl(i) = el(k - 1) /\ tl(i + 1) = el(k + 1)
            BY <2>0, <2>2, <1>1, <1>3, <1>7
        <3>2. el(k - 1) \in Ptrs /\ el(k + 1) \in Ptrs
            BY <1>1, <1>7
        <3> QED
            BY <3>1, <3>2, <1>9, <1>11
    <2>3. CASE i > k - 1
        <3>1. tl(i) = el(i + 1) /\ tl(i + 1) = el(i + 2)
            BY <2>0, <2>3, <1>1, <1>3, <1>7
        <3>2. nx[el(i + 1)] = el(i + 2) /\ pv[el(i + 2)] = el(i + 1)
            <4>1. i + 1 \in 0 .. Len(s) /\ (i + 1) + 1 = i + 2
                BY <2>0, <1>1
            <4> QED
                BY <4>1, <1>5
        <3>3. el(i + 1) # el(k) /\ el(i + 1) # el(k - 1) /\ el(i + 2) # el(k + 1) /\ el(i + 2) # el(k)
            BY <2>0, <2>3, <1>1, <1>2, <1>7
        <3>4. el(i + 1) \in Ptrs /\ el(i + 2) \in Ptrs
            BY <2>0, <1>1
        <3> QED
            BY <3>1, <3>2, <3>3, <3>4, <1>11
    <2> QED
        BY <2>0, <2>1, <2>2, <2>3, <1>7
<1>13. Ring(nx2, pv2, h, t)
    BY <1>1, <1>6, <1>12 DEF Ring, tl
<1>14. ASSUME NEW p \in Ptrs, p # h, \A i \in DOMAIN s : s[i] # p
       PROVE  nx2[p] = nx[p] /\ pv2[p] = pv[p]
    <2>1. el(k) # p /\ el(k + 1) # p /\ el(k - 1) # p
        BY <1>1, <1>7, <1>14
    <2> QED
        BY <2>1, <1>11, <1>14
<1>15. SameOff(nx, pv, nx2, pv2, h, s, {})
    BY <1>14 DEF SameOff
<1> QED
    BY <1>11, <1>13, <1>15

(* What is left of a sequence without its element at place i. *)
LEMMA RemoveAtProps ==
    ASSUME NEW S, NEW s \in Seq(S), NEW i \in DOMAIN s
    PROVE  /\ RemoveAt(s, i) \in Seq(S)
           /\ Len(RemoveAt(s, i)) = Len(s) - 1
           /\ \A j \in 1 .. Len(s) - 1 :
                 RemoveAt(s, i)[j] = IF j < i THEN s[j] ELSE s[j + 1]
<1> DEFINE l == SubSeq(s, 1, i - 1)
           r == SubSeq(s, i + 1, Len(s))
<1>1. i \in 1 .. Len(s) /\ Len(s) \in Nat
    OBVIOUS
<1>2. /\ l \in Seq(S) /\ Len(l) = i - 1
      /\ \A j \in 1 .. i - 1 : l[j] = s[j]
    BY <1>1
<1>3. /\ r \in Seq(S) /\ Len(r) = Len(s) - i
      /\ \A j \in 1 .. Len(s) - i : r[j] = s[i + j]
    BY <1>1
<1>4. RemoveAt(s, i) = l \o r
    BY DEF RemoveAt
<1> HIDE DEF l, r
<1>5. l \o r \in Seq(S) /\ Len(l \o r) = Len(s) - 1
    BY <1>1, <1>2, <1>3
<1>6. ASSUME NEW j \in 1 .. Len(s) - 1
      PROVE  (l \o r)[j] = IF j < i THEN s[j] ELSE s[j + 1]
    <2>1. CASE j < i
        BY <2>1, <1>1, <1>2, <1>3
    <2>2. CASE j >= i
        <3>1. (l \o r)[j] = r[j - (i - 1)]
            <4>1. /\ Len(l) \in Nat /\ Len(r) \in Nat
                  /\ j \in Nat /\ j > Len(l) /\ j <= Len(l) + Len(r)
                  /\ Len(l) = i - 1
                BY <2>2, <1>1, <1>2, <1>3
            <4>2. l \in Seq(S) /\ r \in Seq(S)
                BY <1>2, <1>3
            <4>3. \A m \in 1 .. Len(l) + Len(r) :
                     (l \o r)[m] = IF m <= Len(l) THEN l[m] ELSE r[m - Len(l)]
                BY <4>2
            <4> QED
                BY <4>1, <4>3
        <3>2. j - (i - 1) \in 1 .. Len(s) - i
            BY <2>2, <1>1
        <3> QED
            BY <3>1, <3>2, <2>2, <1>1, <1>3
    <2>3. j < i \/ j >= i
        BY <1>1
    <2> QED
        BY <2>1, <2>2, <2>3
<1> QED
    BY <1>4, <1>5, <1>6

(* Without takes out the one place where the node is. *)
LEMMA WithoutRemoves ==
    ASSUME NEW s \in Seq(Nodes), Distinct(s), NEW k \in DOMAIN s
    PROVE  Removed(s, k, Without(s, s[k]))
<1>1. (CHOOSE i \in DOMAIN s : s[i] = s[k]) = k
    BY DEF Distinct
<1>2. Without(s, s[k]) = RemoveAt(s, k)
    BY <1>1 DEF Without
<1> QED
    BY <1>2, RemoveAtProps DEF Removed

(* The head's neighbours are where HXlist_add and HXlist_add_tail insert. *)
LEMMA EndsInsert ==
    ASSUME NEW s \in Seq(Nodes), NEW nu \in Nodes
    PROVE  Inserted(s, 0, nu, <<nu>> \o s) /\ Inserted(s, Len(s), nu, Append(s, nu))
<1>1. /\ <<nu>> \in Seq(Nodes) /\ Len(<<nu>>) = 1 /\ <<nu>>[1] = nu /\ Len(s) \in Nat
      /\ <<nu>> \o s \in Seq(Nodes) /\ Append(s, nu) \in Seq(Nodes)
    OBVIOUS
<1>2. /\ Len(<<nu>> \o s) = Len(s) + 1
      /\ \A j \in 1 .. Len(s) + 1 : (<<nu>> \o s)[j] = IF j <= 1 THEN <<nu>>[j] ELSE s[j - 1]
    BY <1>1, ConcatProperties
<1>3. /\ Len(Append(s, nu)) = Len(s) + 1
      /\ \A j \in 1 .. Len(s) + 1 : Append(s, nu)[j] = IF j <= Len(s) THEN s[j] ELSE nu
    BY <1>1
<1>4. Inserted(s, 0, nu, <<nu>> \o s)
    BY <1>1, <1>2 DEF Inserted
<1>5. Inserted(s, Len(s), nu, Append(s, nu))
    BY <1>1, <1>3 DEF Inserted
<1> QED
    BY <1>4, <1>5

-----------------------------------------------------------------------------
(* The inductive invariant.                                                *)

(* The elements of a loop: what it walks over, and where it stands. *)
Loops ==
    [head : AllHeads, rev : BOOLEAN, pos : Ptrs, n : Ptrs \cup {NoNode},
     seen : Seq(Nodes), all : Seq(Nodes)]

Stored ==
    /\ next \in Pointers
    /\ prev \in Pointers
    /\ items \in [CHeads -> Int]
    /\ lst \in [AllHeads -> Seq(Nodes)]

ListTypeOK == Stored /\ (loop = NoLoop \/ loop \in Loops)

(* A node is in one list, at one place. *)
Once ==
    \A g, h \in AllHeads : \A i \in DOMAIN lst[g], j \in DOMAIN lst[h] :
        lst[g][i] = lst[h][j] => g = h /\ i = j

Rings == \A h \in AllHeads : Ring(next, prev, h, lst[h])

Counted == \A h \in CHeads : items[h] = Len(lst[h])

(* Where the jth node of a loop over all is in the list l, which has all   *)
(* nodes that the loop has not reached at its end (its front in a reverse  *)
(* loop).                                                                  *)
Spot(rev, l, all, j) == IF rev THEN Len(all) + 1 - j ELSE Len(l) - Len(all) + j

Ahead(rev, l, all, s) ==
    \A j \in s + 1 .. Len(all) :
        Spot(rev, l, all, j) \in DOMAIN l /\ l[Spot(rev, l, all, j)] = all[j]

(* The loop has seen a prefix of its nodes and stands at the one behind it, *)
(* n is the one after that, and those it has not seen are still linked.     *)
LoopOK ==
    loop # NoLoop =>
      LET s == Len(loop.seen)
      IN  /\ s <= Len(loop.all)
          /\ Distinct(loop.all)
          /\ \A i \in 1 .. s : loop.seen[i] = loop.all[i]
          /\ loop.pos = Elem(loop.head, loop.all, s + 1)
          /\ s < Len(loop.all) => loop.n = Elem(loop.head, loop.all, s + 2)
          /\ Ahead(loop.rev, lst[loop.head], loop.all, s)

(* The part that is about the lists and not about the loop. *)
Lists == Stored /\ Once /\ Rings /\ Counted

ListInv == ListTypeOK /\ Lists /\ LoopOK

-----------------------------------------------------------------------------
(* The lists.                                                              *)

(* Every list is a head and nodes that can be a ring. *)
LEMMA RungLists ==
    ASSUME Lists, NEW h \in AllHeads
    PROVE  /\ Rung(h, lst[h]) /\ lst[h] \in Seq(Nodes)
           /\ Len(lst[h]) \in Nat /\ DOMAIN lst[h] = 1 .. Len(lst[h])
           /\ \A i \in DOMAIN lst[h] : lst[h][i] \in Nodes
           /\ Ring(next, prev, h, lst[h])
<1>1. lst[h] \in Seq(Nodes) /\ Ring(next, prev, h, lst[h])
    BY DEF Lists, Stored, Rings
<1>2. Distinct(lst[h])
    BY DEF Lists, Once, Distinct
<1>3. Len(lst[h]) \in Nat /\ DOMAIN lst[h] = 1 .. Len(lst[h])
    BY <1>1
<1>4. \A i \in DOMAIN lst[h] : lst[h][i] \in Nodes
    BY <1>1
<1> QED
    BY <1>1, <1>2, <1>3, <1>4 DEF Rung

(* A ring that shares nothing with a list that changes stays as it was.    *)
LEMMA OtherRings ==
    ASSUME ListAssumption, Lists, NEW h \in AllHeads, NEW g \in AllHeads, g # h, NEW S,
           \A i \in DOMAIN lst[g] : lst[g][i] \notin S, S \subseteq Nodes,
           SameOff(next, prev, next', prev', h, lst[h], S)
    PROVE  Ring(next', prev', g, lst[g])
<1> DEFINE el(i) == Elem(g, lst[g], i)
<1>1. /\ Rung(g, lst[g]) /\ Ring(next, prev, g, lst[g])
      /\ Len(lst[g]) \in Nat /\ DOMAIN lst[g] = 1 .. Len(lst[g])
      /\ \A i \in DOMAIN lst[g] : lst[g][i] \in Nodes
    BY RungLists
<1>2. \A i \in DOMAIN lst[h] : lst[h][i] \in Nodes
    BY RungLists
<1>3. ASSUME NEW i \in 0 .. Len(lst[g]) + 1
      PROVE  next'[el(i)] = next[el(i)] /\ prev'[el(i)] = prev[el(i)]
    <2>1. CASE i \in DOMAIN lst[g]
        <3>1. el(i) = lst[g][i] /\ el(i) \in Nodes /\ el(i) \notin S
            BY <1>1, <2>1 DEF Elem
        <3>2. el(i) \in Ptrs /\ el(i) # h
            BY <3>1 DEF Ptrs, ListAssumption
        <3>3. \A j \in DOMAIN lst[h] : lst[h][j] # el(i)
            BY <3>1, <2>1 DEF Lists, Once
        <3> QED
            BY <3>1, <3>2, <3>3 DEF SameOff
    <2>2. CASE i \notin DOMAIN lst[g]
        <3>1. el(i) = g
            BY <2>2 DEF Elem
        <3>2. g \in Ptrs /\ g \notin S /\ \A j \in DOMAIN lst[h] : lst[h][j] # g
            BY <1>2 DEF Ptrs, ListAssumption
        <3> QED
            BY <3>1, <3>2 DEF SameOff
    <2> QED
        BY <2>1, <2>2
<1> QED
    BY <1>1, <1>3, RingFrame

(* Linking a node behind the first k of a list. *)
LEMMA LinkStep ==
    ASSUME ListAssumption, Lists, NEW h \in AllHeads, NEW nu \in Nodes, nu \notin Linked,
           NEW k \in 0 .. Len(lst[h]), NEW t, Inserted(lst[h], k, nu, t),
           Add(nu, Elem(h, lst[h], k), Elem(h, lst[h], k + 1)), Count(h, 1),
           lst' = [lst EXCEPT ![h] = t]
    PROVE  Lists'
<1> DEFINE s == lst[h]
<1>1. /\ Rung(h, s) /\ s \in Seq(Nodes) /\ Len(s) \in Nat /\ DOMAIN s = 1 .. Len(s)
      /\ Ring(next, prev, h, s)
    BY RungLists
<1>2. \A g \in AllHeads : \A i \in DOMAIN lst[g] : lst[g][i] # nu
    BY DEF Linked, Range
<1>3. /\ t \in Seq(Nodes) /\ Len(t) = Len(s) + 1 /\ DOMAIN t = 1 .. Len(s) + 1
      /\ \A j \in 1 .. Len(s) + 1 :
           t[j] = IF j <= k THEN s[j] ELSE IF j = k + 1 THEN nu ELSE s[j - 1]
    BY <1>1 DEF Inserted
<1>4. next \in Pointers /\ prev \in Pointers /\ items \in [CHeads -> Int]
      /\ lst \in [AllHeads -> Seq(Nodes)]
    BY DEF Lists, Stored
<1>5. /\ Ring(next', prev', h, t)
      /\ next' \in Pointers /\ prev' \in Pointers
      /\ SameOff(next, prev, next', prev', h, s, {nu})
    <2>1. Linking(next, prev, next', prev', nu, Elem(h, s, k), Elem(h, s, k + 1))
        BY DEF Add, Linking
    <2> HIDE DEF s
    <2>2. k \in 0 .. Len(s) /\ Inserted(s, k, nu, t) /\ \A i \in DOMAIN s : s[i] # nu
        BY <1>2 DEF s
    <2> DEFINE n2 == next'
               p2 == prev'
    <2>3. Rung(h, s) /\ Ring(next, prev, h, s)
          /\ Linking(next, prev, n2, p2, nu, Elem(h, s, k), Elem(h, s, k + 1))
        BY <1>1, <2>1
    <2>4. next \in Pointers /\ prev \in Pointers
        BY <1>4
    <2> HIDE DEF n2, p2
    <2>5. /\ Ring(n2, p2, h, t)
          /\ n2 \in Pointers /\ p2 \in Pointers
          /\ SameOff(next, prev, n2, p2, h, s, {nu})
        BY <2>2, <2>3, <2>4, RingInsert
    <2> QED
        BY <2>5 DEF n2, p2
<1>6. Stored'
    <2>1. items' \in [CHeads -> Int]
        BY <1>4 DEF Count
    <2>2. lst' \in [AllHeads -> Seq(Nodes)]
        BY <1>3, <1>4
    <2> QED
        BY <1>5, <2>1, <2>2 DEF Stored
<1>7. lst'[h] = t /\ \A g \in AllHeads : g # h => lst'[g] = lst[g]
    BY <1>4
<1>8. Rings'
    <2> SUFFICES ASSUME NEW g \in AllHeads
                 PROVE  Ring(next', prev', g, lst'[g])
        BY DEF Rings
    <2>1. CASE g = h
        BY <2>1, <1>5, <1>7
    <2>2. CASE g # h
        <3>1. \A i \in DOMAIN lst[g] : lst[g][i] \notin {nu}
            BY <1>2
        <3>2. {nu} \subseteq Nodes /\ SameOff(next, prev, next', prev', h, lst[h], {nu})
            BY <1>5
        <3>3. Ring(next', prev', g, lst[g])
            BY <2>2, <3>1, <3>2, OtherRings
        <3> QED
            BY <2>2, <3>3, <1>7
    <2> QED
        BY <2>1, <2>2
<1>9. Counted'
    <2>1. \A g \in CHeads : items'[g] = IF g = h THEN items[g] + 1 ELSE items[g]
        BY DEF Count
    <2>2. \A g \in CHeads : g \in AllHeads /\ items[g] = Len(lst[g])
        BY DEF Lists, Counted, AllHeads
    <2> QED
        BY <1>3, <1>7, <2>1, <2>2 DEF Counted
<1>10. Once'
    <2> DEFINE from(g, i) == IF g = h /\ i > k THEN i - 1 ELSE i
    <2>1. ASSUME NEW g \in AllHeads, NEW i \in DOMAIN lst'[g]
          PROVE  \/ g = h /\ i = k + 1 /\ lst'[g][i] = nu
                 \/ /\ ~ (g = h /\ i = k + 1)
                    /\ from(g, i) \in DOMAIN lst[g]
                    /\ lst'[g][i] = lst[g][from(g, i)]
        BY <1>1, <1>3, <1>7
    <2>2. \A g \in AllHeads : lst'[g] \in Seq(Nodes) /\ DOMAIN lst'[g] \subseteq Int
        BY <1>6 DEF Stored
    <2>3. ASSUME NEW g \in AllHeads, NEW f \in AllHeads,
                 NEW i \in DOMAIN lst'[g], NEW j \in DOMAIN lst'[f], lst'[g][i] = lst'[f][j]
          PROVE  g = f /\ i = j
        <3>1. i \in Int /\ j \in Int
            BY <2>2
        <3>2. CASE (g = h /\ i = k + 1) \/ (f = h /\ j = k + 1)
            BY <2>1, <2>3, <3>2, <1>2
        <3>3. CASE ~ (g = h /\ i = k + 1) /\ ~ (f = h /\ j = k + 1)
            <4>1. /\ from(g, i) \in DOMAIN lst[g] /\ from(f, j) \in DOMAIN lst[f]
                  /\ lst[g][from(g, i)] = lst[f][from(f, j)]
                BY <2>1, <2>3, <3>3
            <4>2. g = f /\ from(g, i) = from(f, j)
                BY <4>1 DEF Lists, Once
            <4> QED
                BY <4>2, <3>1, <3>3, <1>1
        <3> QED
            BY <3>2, <3>3
    <2> QED
        BY <2>3 DEF Once
<1> QED
    BY <1>6, <1>8, <1>9, <1>10 DEF Lists

(* Unlinking the kth node of a list. *)
LEMMA UnlinkStep ==
    ASSUME ListAssumption, Lists, NEW h \in AllHeads, NEW k \in DOMAIN lst[h],
           Unlink(h, lst[h][k])
    PROVE  Lists' /\ Removed(lst[h], k, lst'[h])
<1> DEFINE s == lst[h]
           t == Without(s, s[k])
<1>1. /\ Rung(h, s) /\ s \in Seq(Nodes) /\ Len(s) \in Nat /\ DOMAIN s = 1 .. Len(s)
      /\ Ring(next, prev, h, s)
    BY RungLists
<1>2. Removed(s, k, t)
    BY <1>1, WithoutRemoves DEF Rung
<1>3. lst' = [lst EXCEPT ![h] = t] /\ HXlist_del(s[k]) /\ Count(h, -1)
    BY DEF Unlink
<1> HIDE DEF t
<1>4. next \in Pointers /\ prev \in Pointers /\ items \in [CHeads -> Int]
      /\ lst \in [AllHeads -> Seq(Nodes)]
    BY DEF Lists, Stored
<1>5. /\ Ring(next', prev', h, t)
      /\ next' \in Pointers /\ prev' \in Pointers
      /\ SameOff(next, prev, next', prev', h, s, {})
    <2>1. Unlinking(next, prev, next', prev', s[k])
        BY <1>3 DEF HXlist_del, Unlinking
    <2>2. k \in 1 .. Len(s)
        BY <1>1
    <2> HIDE DEF s
    <2> DEFINE n2 == next'
               p2 == prev'
    <2>3. Rung(h, s) /\ Removed(s, k, t) /\ Ring(next, prev, h, s)
          /\ Unlinking(next, prev, n2, p2, s[k])
        BY <1>1, <1>2, <2>1
    <2>4. next \in Pointers /\ prev \in Pointers
        BY <1>4
    <2> HIDE DEF n2, p2
    <2>5. /\ Ring(n2, p2, h, t)
          /\ n2 \in Pointers /\ p2 \in Pointers
          /\ SameOff(next, prev, n2, p2, h, s, {})
        BY <2>2, <2>3, <2>4, RingRemove
    <2> QED
        BY <2>5 DEF n2, p2
<1>6. /\ t \in Seq(Nodes) /\ Len(t) = Len(s) - 1 /\ DOMAIN t = 1 .. Len(s) - 1
      /\ \A j \in 1 .. Len(s) - 1 : t[j] = IF j < k THEN s[j] ELSE s[j + 1]
    BY <1>1, <1>2 DEF Removed
<1>7. Stored'
    <2>1. items' \in [CHeads -> Int]
        BY <1>3, <1>4 DEF Count
    <2>2. lst' \in [AllHeads -> Seq(Nodes)]
        BY <1>3, <1>4, <1>6
    <2> QED
        BY <1>5, <2>1, <2>2 DEF Stored
<1>8. lst'[h] = t /\ \A g \in AllHeads : g # h => lst'[g] = lst[g]
    BY <1>3, <1>4
<1>9. Rings'
    <2> SUFFICES ASSUME NEW g \in AllHeads
                 PROVE  Ring(next', prev', g, lst'[g])
        BY DEF Rings
    <2>1. CASE g = h
        BY <2>1, <1>5, <1>8
    <2>2. CASE g # h
        <3> DEFINE S == {}
        <3>1. SameOff(next, prev, next', prev', h, lst[h], S)
            BY <1>5
        <3>2. (\A i \in DOMAIN lst[g] : lst[g][i] \notin S) /\ S \subseteq Nodes
            OBVIOUS
        <3> HIDE DEF S
        <3>3. Ring(next', prev', g, lst[g])
            BY <2>2, <3>1, <3>2, OtherRings
        <3> QED
            BY <2>2, <3>3, <1>8
    <2> QED
        BY <2>1, <2>2
<1>10. Counted'
    <2>1. \A g \in CHeads : items'[g] = IF g = h THEN items[g] - 1 ELSE items[g]
        BY <1>3, <1>4 DEF Count
    <2>2. \A g \in CHeads : g \in AllHeads /\ items[g] = Len(lst[g])
        BY DEF Lists, Counted, AllHeads
    <2> QED
        BY <1>6, <1>8, <2>1, <2>2 DEF Counted
<1>11. Once'
    <2> DEFINE from(g, i) == IF g = h /\ i >= k THEN i + 1 ELSE i
    <2>1. ASSUME NEW g \in AllHeads, NEW i \in DOMAIN lst'[g]
          PROVE  /\ from(g, i) \in DOMAIN lst[g]
                 /\ lst'[g][i] = lst[g][from(g, i)]
        <3>1. CASE g = h
            <4>1. i \in 1 .. Len(s) - 1 /\ lst'[g][i] = t[i] /\ k \in Int
                BY <3>1, <1>1, <1>6, <1>8
            <4> QED
                BY <3>1, <4>1, <1>1, <1>6
        <3>2. CASE g # h
            BY <3>2, <1>8
        <3> QED
            BY <3>1, <3>2
    <2>2. \A g \in AllHeads : lst'[g] \in Seq(Nodes) /\ DOMAIN lst'[g] \subseteq Int
        BY <1>7 DEF Stored
    <2>3. ASSUME NEW g \in AllHeads, NEW f \in AllHeads,
                 NEW i \in DOMAIN lst'[g], NEW j \in DOMAIN lst'[f], lst'[g][i] = lst'[f][j]
          PROVE  g = f /\ i = j
        <3>1. i \in Int /\ j \in Int
            BY <2>2
        <3>2. /\ from(g, i) \in DOMAIN lst[g] /\ from(f, j) \in DOMAIN lst[f]
              /\ lst[g][from(g, i)] = lst[f][from(f, j)]
            BY <2>1, <2>3
        <3>3. g = f /\ from(g, i) = from(f, j)
            BY <3>2 DEF Lists, Once
        <3> QED
            BY <3>1, <3>3, <1>1
    <2> QED
        BY <2>3 DEF Once
<1> QED
    BY <1>2, <1>7, <1>8, <1>9, <1>10, <1>11 DEF Lists

(* The neighbours of a head are the ends of its list. *)
LEMMA HeadEnds ==
    ASSUME ListAssumption, Lists, NEW h \in AllHeads
    PROVE  /\ next[h] = Elem(h, lst[h], 1) /\ prev[h] = Elem(h, lst[h], Len(lst[h]))
           /\ Elem(h, lst[h], 0) = h /\ Elem(h, lst[h], Len(lst[h]) + 1) = h
<1> DEFINE s == lst[h]
<1>1. Rung(h, s) /\ Ring(next, prev, h, s) /\ Len(s) \in Nat
    BY RungLists
<1>2. Elem(h, s, 0) = h /\ Elem(h, s, Len(s) + 1) = h
    BY <1>1, ElemType
<1> HIDE DEF s
<1>3. 0 \in 0 .. Len(s) /\ Len(s) \in 0 .. Len(s) /\ 0 + 1 = 1
    BY <1>1
<1>4. next[Elem(h, s, 0)] = Elem(h, s, 0 + 1) /\ prev[Elem(h, s, Len(s) + 1)] = Elem(h, s, Len(s))
    BY <1>1, <1>3 DEF Ring
<1> QED
    BY <1>2, <1>3, <1>4 DEF s

(* HXlist_add and HXclist_unshift link at the front. *)
LEMMA AddStep ==
    ASSUME ListAssumption, Lists, NEW h \in AllHeads, NEW nu \in Nodes, HXlist_add(h, nu)
    PROVE  Lists'
<1> DEFINE t == <<nu>> \o lst[h]
           k == 0
<1>1. lst[h] \in Seq(Nodes) /\ Len(lst[h]) \in Nat
    BY RungLists
<1>2. Inserted(lst[h], k, nu, t)
    BY <1>1, EndsInsert
<1>3. Add(nu, Elem(h, lst[h], k), Elem(h, lst[h], k + 1))
    BY HeadEnds DEF HXlist_add
<1>4. nu \notin Linked /\ Count(h, 1) /\ lst' = [lst EXCEPT ![h] = t] /\ k \in 0 .. Len(lst[h])
    BY <1>1 DEF HXlist_add
<1> HIDE DEF t, k
<1> QED
    BY <1>2, <1>3, <1>4, LinkStep

(* HXlist_add_tail and HXclist_push link at the back. *)
LEMMA AddTailStep ==
    ASSUME ListAssumption, Lists, NEW h \in AllHeads, NEW nu \in Nodes, HXlist_add_tail(h, nu)
    PROVE  Lists'
<1> DEFINE t == Append(lst[h], nu)
           k == Len(lst[h])
<1>1. lst[h] \in Seq(Nodes) /\ Len(lst[h]) \in Nat
    BY RungLists
<1>2. Inserted(lst[h], k, nu, t)
    BY <1>1, EndsInsert
<1>3. Add(nu, Elem(h, lst[h], k), Elem(h, lst[h], k + 1))
    BY HeadEnds DEF HXlist_add_tail
<1>4. nu \notin Linked /\ Count(h, 1) /\ lst' = [lst EXCEPT ![h] = t] /\ k \in 0 .. Len(lst[h])
    BY <1>1 DEF HXlist_add_tail
<1> HIDE DEF t, k
<1> QED
    BY <1>2, <1>3, <1>4, LinkStep

(* HXclist_del, HXclist_pop and HXclist_shift unlink a node of the list. *)
LEMMA DelStep ==
    ASSUME ListAssumption, Lists, NEW h \in AllHeads,
           \/ \E nd \in Nodes : HXclist_del(h, nd)
           \/ HXclist_pop(h)
           \/ HXclist_shift(h)
    PROVE  Lists'
<1>1. /\ Len(lst[h]) \in Nat /\ DOMAIN lst[h] = 1 .. Len(lst[h])
    BY RungLists
<1>2. /\ next[h] = Elem(h, lst[h], 1) /\ prev[h] = Elem(h, lst[h], Len(lst[h]))
    BY HeadEnds
<1>3. \E k \in DOMAIN lst[h] : Unlink(h, lst[h][k])
    <2>1. CASE \E nd \in Nodes : HXclist_del(h, nd)
        BY <2>1 DEF HXclist_del, Range
    <2>2. CASE HXclist_pop(h)
        <3>1. Unlink(h, prev[h]) /\ h # next[h]
            BY <2>2 DEF HXclist_pop
        <3>2. 1 \in DOMAIN lst[h]
            BY <3>1, <1>2 DEF Elem
        <3>3. Len(lst[h]) \in DOMAIN lst[h]
            BY <3>2, <1>1
        <3>4. prev[h] = lst[h][Len(lst[h])]
            BY <3>3, <1>2 DEF Elem
        <3> QED
            BY <3>1, <3>3, <3>4
    <2>3. CASE HXclist_shift(h)
        <3>1. Unlink(h, next[h]) /\ h # next[h]
            BY <2>3 DEF HXclist_shift
        <3>2. 1 \in DOMAIN lst[h]
            BY <3>1, <1>2 DEF Elem
        <3>3. next[h] = lst[h][1]
            BY <3>2, <1>2 DEF Elem
        <3> QED
            BY <3>1, <3>2, <3>3
    <2> QED
        BY <2>1, <2>2, <2>3
<1>4. PICK k \in DOMAIN lst[h] : Unlink(h, lst[h][k])
    BY <1>3
<1> QED
    BY <1>4, UnlinkStep

-----------------------------------------------------------------------------
(* The loop.                                                               *)

(* The pointer a loop follows leads from each node that it has yet to      *)
(* visit to the next.                                                      *)
LEMMA FollowsRing ==
    ASSUME ListAssumption, NEW h, NEW l, Rung(h, l), NEW nx, NEW pv, Ring(nx, pv, h, l),
           NEW rev \in BOOLEAN, NEW all \in Seq(Nodes), NEW s \in Nat, Ahead(rev, l, all, s),
           NEW j \in s + 1 .. Len(all)
    PROVE  (IF rev THEN pv ELSE nx)[all[j]] = Elem(h, all, j + 1)
<1> DEFINE m == Spot(rev, l, all, j)
<1>1. Len(l) \in Nat /\ DOMAIN l = 1 .. Len(l) /\ Len(all) \in Nat /\ DOMAIN all = 1 .. Len(all)
    BY ElemType
<1>2. j \in Int /\ j >= s + 1 /\ j <= Len(all)
    BY <1>1
<1>3. j = Len(all) \/ j < Len(all)
    <2> DEFINE n == Len(all)
    <2>1. n \in Int /\ j \in Int /\ j <= n
        BY <1>2, <1>1
    <2> HIDE DEF n
    <2>2. j = n \/ j < n
        BY <2>1
    <2> QED
        BY <2>2 DEF n
<1>4. m \in 1 .. Len(l) /\ l[m] = all[j]
    BY <1>1 DEF Ahead
<1>5. Elem(h, l, m) = all[j]
    BY <1>1, <1>4 DEF Elem
<1>6. CASE rev
    <2>1. m = Len(all) + 1 - j
        BY <1>6 DEF Spot
    <2> HIDE DEF m
    <2>2. m - 1 \in 0 .. Len(l) /\ (m - 1) + 1 = m
        BY <1>1, <1>4
    <2>3. pv[Elem(h, l, (m - 1) + 1)] = Elem(h, l, m - 1)
        BY <2>2 DEF Ring
    <2>4. Elem(h, l, m - 1) = Elem(h, all, j + 1)
        <3>1. CASE j = Len(all)
            BY <3>1, <2>1, <1>1 DEF Elem
        <3>2. CASE j < Len(all)
            <4>1. j + 1 \in s + 1 .. Len(all)
                BY <3>2, <1>2, <1>1
            <4>2. Spot(rev, l, all, j + 1) = m - 1
                BY <1>6, <2>1, <1>1 DEF Spot
            <4>3. m - 1 \in DOMAIN l /\ l[m - 1] = all[j + 1]
                BY <4>1, <4>2 DEF Ahead
            <4>4. j + 1 \in DOMAIN all
                BY <4>1, <1>1
            <4> QED
                BY <4>3, <4>4 DEF Elem
        <3> QED
            BY <3>1, <3>2, <1>3
    <2> QED
        BY <1>5, <1>6, <2>2, <2>3, <2>4
<1>7. CASE ~ rev
    <2>1. m = Len(l) - Len(all) + j
        BY <1>7 DEF Spot
    <2> HIDE DEF m
    <2>2. m \in 0 .. Len(l)
        BY <1>1, <1>4
    <2>3. nx[Elem(h, l, m)] = Elem(h, l, m + 1)
        BY <2>2 DEF Ring
    <2>4. Elem(h, l, m + 1) = Elem(h, all, j + 1)
        <3>1. CASE j = Len(all)
            BY <3>1, <2>1, <1>1 DEF Elem
        <3>2. CASE j < Len(all)
            <4>1. j + 1 \in s + 1 .. Len(all)
                BY <3>2, <1>2, <1>1
            <4>2. Spot(rev, l, all, j + 1) = m + 1
                BY <1>7, <2>1, <1>1 DEF Spot
            <4>3. m + 1 \in DOMAIN l /\ l[m + 1] = all[j + 1]
                BY <4>1, <4>2 DEF Ahead
            <4>4. j + 1 \in DOMAIN all
                BY <4>1, <1>1
            <4> QED
                BY <4>3, <4>4 DEF Elem
        <3> QED
            BY <3>1, <3>2, <1>3
    <2> QED
        BY <1>5, <1>7, <2>3, <2>4
<1> QED
    BY <1>6, <1>7

(* Unlinking the node at which the loop stands leaves the others ahead. *)
LEMMA AheadRemoved ==
    ASSUME NEW l \in Seq(Nodes), NEW all \in Seq(Nodes), NEW rev \in BOOLEAN, NEW s \in Nat,
           s < Len(all), Ahead(rev, l, all, s), NEW t,
           Removed(l, Spot(rev, l, all, s + 1), t)
    PROVE  Ahead(rev, t, all, s + 1)
<1> DEFINE k == Spot(rev, l, all, s + 1)
<1>1. Len(l) \in Nat /\ DOMAIN l = 1 .. Len(l) /\ Len(all) \in Nat
    OBVIOUS
<1>2. k \in 1 .. Len(l)
    BY <1>1 DEF Ahead
<1>3. /\ Len(t) = Len(l) - 1 /\ DOMAIN t = 1 .. Len(l) - 1
      /\ \A j \in 1 .. Len(l) - 1 : t[j] = IF j < k THEN l[j] ELSE l[j + 1]
    BY <1>1, <1>2 DEF Removed
<1> SUFFICES ASSUME NEW j \in (s + 1) + 1 .. Len(all)
             PROVE  Spot(rev, t, all, j) \in DOMAIN t /\ t[Spot(rev, t, all, j)] = all[j]
    BY DEF Ahead
<1> DEFINE m == Spot(rev, l, all, j)
<1>4. m \in 1 .. Len(l) /\ l[m] = all[j]
    BY <1>1 DEF Ahead
<1>5. CASE rev
    <2>1. Spot(rev, t, all, j) = m /\ m = Len(all) + 1 - j /\ k = Len(all) + 1 - (s + 1)
        BY <1>5 DEF Spot
    <2> HIDE DEF m, k
    <2>2. m < k /\ m \in 1 .. Len(l) - 1
        BY <2>1, <1>1, <1>2, <1>4
    <2> QED
        BY <2>1, <2>2, <1>3, <1>4
<1>6. CASE ~ rev
    <2>1. /\ Spot(rev, t, all, j) = Len(t) - Len(all) + j /\ m = Len(l) - Len(all) + j
          /\ k = Len(l) - Len(all) + (s + 1)
        BY <1>6 DEF Spot
    <2> HIDE DEF m, k
    <2>2a. m \in Int /\ k \in Int /\ m > k
        BY <2>1, <1>1, <1>2, <1>4
    <2>2b. Spot(rev, t, all, j) = m - 1
        BY <2>1, <1>1, <1>3
    <2>2. Spot(rev, t, all, j) = m - 1 /\ m > k /\ m - 1 \in 1 .. Len(l) - 1 /\ ~ (m - 1 < k)
        BY <2>2a, <2>2b, <1>1, <1>2, <1>4
    <2>3. t[m - 1] = l[(m - 1) + 1] /\ (m - 1) + 1 = m
        BY <2>2, <1>3, <1>4
    <2> QED
        BY <2>2, <2>3, <1>3, <1>4
<1> QED
    BY <1>5, <1>6

(* A loop begins with all nodes of its list ahead of it. *)
LEMMA LoopBeginStep ==
    ASSUME ListAssumption, ListInv, NEW h \in AllHeads, NEW rev \in BOOLEAN, LoopBegin(h, rev)
    PROVE  ListInv'
<1> DEFINE l == lst[h]
           all == IF rev THEN Reverse(l) ELSE l
           d == IF rev THEN prev ELSE next
<1>1. Lists /\ ListTypeOK
    BY DEF ListInv
<1>2. UNCHANGED <<next, prev, items, lst>>
    BY DEF LoopBegin
<1>3. Lists' /\ Stored'
    BY <1>1, <1>2 DEF Lists, Stored, Once, Rings, Counted
<1>4. /\ Rung(h, l) /\ l \in Seq(Nodes) /\ Len(l) \in Nat /\ DOMAIN l = 1 .. Len(l)
      /\ Ring(next, prev, h, l) /\ \A i \in DOMAIN l : l[i] \in Nodes
    BY <1>1, RungLists
<1>5. next[h] = Elem(h, l, 1) /\ prev[h] = Elem(h, l, Len(l))
    BY <1>1, HeadEnds
<1> HIDE DEF l
<1>6. /\ all \in Seq(Nodes) /\ Len(all) = Len(l) /\ DOMAIN all = 1 .. Len(l)
      /\ \A j \in 1 .. Len(l) : /\ Spot(rev, l, all, j) \in 1 .. Len(l)
                                /\ all[j] = l[Spot(rev, l, all, j)]
    <2>1. CASE rev
        <3>1. all = [i \in 1 .. Len(l) |-> l[(Len(l) - i) + 1]]
            BY <2>1 DEF Reverse
        <3>2. \A i \in 1 .. Len(l) : (Len(l) - i) + 1 \in 1 .. Len(l)
            BY <1>4
        <3> HIDE DEF all
        <3>3. all \in [1 .. Len(l) -> Nodes]
            BY <3>1, <3>2, <1>4
        <3>4. all \in Seq(Nodes) /\ Len(all) = Len(l) /\ DOMAIN all = 1 .. Len(l)
            BY <3>3, <1>4
        <3>5. \A j \in 1 .. Len(l) : Spot(rev, l, all, j) = (Len(l) - j) + 1
            BY <2>1, <3>4, <1>4 DEF Spot
        <3> QED
            BY <3>1, <3>2, <3>4, <3>5
    <2>2. CASE ~ rev
        BY <2>2, <1>4 DEF Spot
    <2> QED
        BY <2>1, <2>2
<1>7. d[h] = Elem(h, all, 1)
    <2>1. CASE rev
        <3>1. CASE Len(l) = 0
            BY <2>1, <3>1, <1>4, <1>5, <1>6 DEF Elem
        <3>2. CASE Len(l) # 0
            <4>1. 1 \in 1 .. Len(l) /\ Len(l) \in 1 .. Len(l)
                BY <3>2, <1>4
            <4>2. Spot(rev, l, all, 1) = Len(l)
                BY <2>1, <1>4, <1>6 DEF Spot
            <4>3. all[1] = l[Len(l)]
                BY <4>1, <4>2, <1>6
            <4> QED
                BY <2>1, <4>1, <4>3, <1>4, <1>5, <1>6 DEF Elem
        <3> QED
            BY <3>1, <3>2
    <2>2. CASE ~ rev
        BY <2>2, <1>5
    <2> QED
        BY <2>1, <2>2
<1>8. loop' = [head |-> h, rev |-> rev, pos |-> d[h], n |-> d[d[h]], seen |-> <<>>, all |-> all]
    BY DEF LoopBegin, Dir, l
<1> HIDE DEF all, d
<1>9. Ahead(rev, l, all, 0)
    BY <1>4, <1>6 DEF Ahead
<1>10. Elem(h, all, 1) \in Ptrs
    <2>1. \A i \in DOMAIN all : all[i] \in Nodes
        BY <1>6
    <2> QED
        BY <2>1 DEF Elem, Ptrs
<1>11. d \in Pointers
    BY <1>1 DEF d, ListTypeOK, Stored
<1>12. loop' \in Loops
    <2>1. d[h] \in Ptrs /\ d[d[h]] \in Ptrs \cup {NoNode} /\ <<>> \in Seq(Nodes)
        BY <1>7, <1>10, <1>11 DEF Pointers
    <2> QED
        BY <2>1, <1>6, <1>8 DEF Loops
<1>13. 0 < Len(all) => d[d[h]] = Elem(h, all, 2)
    <2> SUFFICES ASSUME 0 < Len(all)
                 PROVE  d[d[h]] = Elem(h, all, 2)
        OBVIOUS
    <2>1. 1 \in 0 + 1 .. Len(all) /\ 1 + 1 = 2
        BY <1>4, <1>6
    <2>2. (IF rev THEN prev ELSE next)[all[1]] = Elem(h, all, 1 + 1)
        BY <2>1, <1>4, <1>6, <1>9, FollowsRing
    <2>3. Elem(h, all, 1) = all[1]
        BY <2>1, <1>6 DEF Elem
    <2> QED
        BY <2>1, <2>2, <2>3, <1>7 DEF d
<1>14. Distinct(all)
    <2>1. Distinct(l)
        BY <1>4 DEF Rung
    <2>2. \A i, j \in 1 .. Len(l) : Spot(rev, l, all, i) = Spot(rev, l, all, j) => i = j
        BY <1>4, <1>6 DEF Spot
    <2> QED
        BY <2>1, <2>2, <1>4, <1>6 DEF Distinct
<1>15. LoopOK'
    <2>1. /\ loop'.head = h /\ loop'.rev = rev /\ loop'.pos = d[h] /\ loop'.n = d[d[h]]
          /\ loop'.seen = <<>> /\ loop'.all = all /\ Len(<<>>) = 0
        BY <1>8
    <2>2. lst'[h] = l
        BY <1>2 DEF l
    <2>3. 0 <= Len(all) /\ 0 + 1 = 1 /\ 0 + 2 = 2
        BY <1>4, <1>6
    <2> QED
        BY <2>1, <2>2, <2>3, <1>7, <1>9, <1>13, <1>14 DEF LoopOK
<1> QED
    BY <1>3, <1>12, <1>15 DEF ListInv, ListTypeOK

(* The body and the step of a loop, with and without unlinking. *)
LEMMA BodyStep ==
    ASSUME ListAssumption, ListInv, NEW unlink \in BOOLEAN, LoopBody(unlink)
    PROVE  ListInv'
<1> DEFINE h == loop.head
           rev == loop.rev
           all == loop.all
           seen == loop.seen
           s == Len(seen)
           l == lst[h]
<1>1. /\ Lists /\ ListTypeOK /\ loop # NoLoop /\ loop \in Loops /\ loop.pos # h
      /\ loop' = [loop EXCEPT !.seen = Append(@, loop.pos), !.pos = loop.n, !.n = Follow(loop.n)]
    BY DEF ListInv, ListTypeOK, LoopBody
<1>2. /\ h \in AllHeads /\ rev \in BOOLEAN /\ all \in Seq(Nodes) /\ seen \in Seq(Nodes)
      /\ s \in Nat /\ Len(all) \in Nat /\ DOMAIN all = 1 .. Len(all)
    BY <1>1 DEF Loops
<1>3. /\ s <= Len(all) /\ Distinct(all)
      /\ \A i \in 1 .. s : seen[i] = all[i]
      /\ loop.pos = Elem(h, all, s + 1)
      /\ s < Len(all) => loop.n = Elem(h, all, s + 2)
      /\ Ahead(rev, l, all, s)
    BY <1>1 DEF ListInv, LoopOK
<1>4. s + 1 \in 1 .. Len(all) /\ s < Len(all) /\ loop.pos = all[s + 1]
    BY <1>1, <1>2, <1>3 DEF Elem
<1>5. loop.n = Elem(h, all, s + 2) /\ loop.n \in Ptrs
    <2>1. \A i \in DOMAIN all : all[i] \in Nodes
        BY <1>2
    <2> QED
        BY <2>1, <1>2, <1>3, <1>4 DEF Elem, Ptrs
<1>6. l \in Seq(Nodes)
    BY <1>1, <1>2, RungLists
<1>7. /\ Lists' /\ Ahead(rev, lst'[h], all, s + 1)
    <2>1. CASE unlink
        <3> DEFINE k == Spot(rev, l, all, s + 1)
        <3>1. k \in DOMAIN l /\ l[k] = all[s + 1]
            <4>1. s + 1 \in s + 1 .. Len(all)
                BY <1>2, <1>4
            <4> QED
                BY <4>1, <1>3 DEF Ahead
        <3>2. Unlink(h, l[k])
            BY <2>1, <3>1, <1>4 DEF LoopBody
        <3> HIDE DEF k
        <3>3. Lists' /\ Removed(l, k, lst'[h])
            BY <3>1, <3>2, <1>1, <1>2, UnlinkStep
        <3> DEFINE t == lst'[h]
        <3>4. Removed(l, Spot(rev, l, all, s + 1), t)
            BY <3>3 DEF k
        <3> HIDE DEF t, l, h, rev, all, s
        <3>5. Ahead(rev, t, all, s + 1)
            BY <3>4, <1>2, <1>3, <1>4, <1>6, AheadRemoved
        <3> QED
            BY <3>3, <3>5 DEF t, h, rev, all, s
    <2>2. CASE ~ unlink
        <3>1. UNCHANGED <<next, prev, items, lst>>
            BY <2>2 DEF LoopBody
        <3>2. Lists'
            BY <3>1, <1>1 DEF Lists, Stored, Once, Rings, Counted
        <3>3. Ahead(rev, l, all, s + 1)
            BY <1>2, <1>3 DEF Ahead
        <3> QED
            BY <3>1, <3>2, <3>3
    <2> QED
        BY <2>1, <2>2
<1>8. /\ loop'.head = h /\ loop'.rev = rev /\ loop'.all = all /\ loop'.pos = loop.n
      /\ loop'.seen = Append(seen, all[s + 1]) /\ loop'.n = Follow(loop.n)
    BY <1>1, <1>4 DEF Loops
<1>9. /\ loop' \in Loops
    <2>1. next' \in Pointers /\ prev' \in Pointers
        BY <1>7 DEF Lists, Stored
    <2>2. Follow(loop.n) \in Ptrs \cup {NoNode}
        BY <2>1, <1>5 DEF Follow, Pointers
    <2>3. all[s + 1] \in Nodes
        BY <1>2, <1>4
    <2>4. Append(seen, loop.pos) \in Seq(Nodes)
        BY <2>3, <1>2, <1>4
    <2> QED
        BY <2>2, <2>4, <1>1, <1>5 DEF Loops
<1>10. /\ Len(loop'.seen) = s + 1
       /\ \A i \in 1 .. s + 1 : loop'.seen[i] = all[i]
    <2>1. \A i \in 1 .. s + 1 : Append(seen, all[s + 1])[i] = IF i <= s THEN seen[i] ELSE all[s + 1]
        BY <1>2
    <2> QED
        BY <2>1, <1>2, <1>3, <1>8
<1>11. ASSUME s + 1 < Len(all)
       PROVE  loop'.n = Elem(h, all, s + 3)
    <2> DEFINE n2 == next'
               p2 == prev'
               t == lst'[h]
               j == s + 2
               s2 == s + 1
    <2>1. Rung(h, t) /\ Ring(n2, p2, h, t)
        <3>1. lst'[h] \in Seq(Nodes) /\ Distinct(lst'[h]) /\ Ring(next', prev', h, lst'[h])
            BY <1>2, <1>7 DEF Lists, Stored, Rings, Once, Distinct
        <3> QED
            BY <3>1, <1>2 DEF Rung
    <2>2. j \in s2 + 1 .. Len(all) /\ s2 \in Nat /\ j + 1 = s + 3 /\ j \in 1 .. Len(all)
        BY <1>2, <1>11
    <2>3. Ahead(rev, t, all, s2)
        BY <1>7
    <2>4. loop.n = all[j]
        BY <2>2, <1>2, <1>5 DEF Elem
    <2>5. loop'.n = (IF rev THEN p2 ELSE n2)[all[j]]
        BY <2>4, <1>8 DEF Follow
    <2> HIDE DEF n2, p2, t, j, s2, h, rev, all, s
    <2>6. (IF rev THEN p2 ELSE n2)[all[j]] = Elem(h, all, j + 1)
        BY <2>1, <2>2, <2>3, <1>2, FollowsRing
    <2> QED
        BY <2>2, <2>5, <2>6
<1>12. LoopOK'
    <2>1. s + 1 <= Len(all) /\ (s + 1) + 1 = s + 2 /\ (s + 1) + 2 = s + 3
        BY <1>2, <1>4
    <2>2. Len(loop'.seen) <= Len(loop'.all) /\ Distinct(loop'.all)
        BY <2>1, <1>3, <1>8, <1>10
    <2>3. \A i \in 1 .. Len(loop'.seen) : loop'.seen[i] = loop'.all[i]
        BY <1>8, <1>10
    <2>4. loop'.pos = Elem(loop'.head, loop'.all, Len(loop'.seen) + 1)
        BY <2>1, <1>5, <1>8, <1>10
    <2>5. Len(loop'.seen) < Len(loop'.all)
             => loop'.n = Elem(loop'.head, loop'.all, Len(loop'.seen) + 2)
        BY <2>1, <1>8, <1>10, <1>11
    <2>6. Ahead(loop'.rev, lst'[loop'.head], loop'.all, Len(loop'.seen))
        BY <1>7, <1>8, <1>10
    <2> QED
        BY <2>2, <2>3, <2>4, <2>5, <2>6 DEF LoopOK
<1> QED
    BY <1>7, <1>9, <1>12 DEF ListInv, ListTypeOK, Lists

-----------------------------------------------------------------------------
(* The theorem.                                                            *)

(* The invariant holds of lists that have just been initialised. *)
LEMMA ListInitInductive ==
    ASSUME ListAssumption, ListInit
    PROVE  ListInv
<1>1. \A h \in AllHeads : lst[h] = <<>> /\ next[h] = h /\ prev[h] = h
    BY DEF ListInit
<1>2. Stored
    <2>1. next \in Pointers /\ prev \in Pointers
        BY DEF ListInit, Pointers, Ptrs
    <2>2. items \in [CHeads -> Int] /\ lst \in [AllHeads -> Seq(Nodes)]
        BY DEF ListInit
    <2> QED
        BY <2>1, <2>2 DEF Stored
<1>3. Once /\ Rings /\ Counted
    <2>1. Len(<<>>) = 0 /\ DOMAIN <<>> = {}
        OBVIOUS
    <2>2. Once
        BY <1>1, <2>1 DEF Once
    <2>3. Rings
        BY <1>1, <2>1 DEF Rings, Ring, Elem
    <2>4. Counted
        BY <1>1, <2>1 DEF Counted, ListInit, AllHeads
    <2> QED
        BY <2>2, <2>3, <2>4
<1>4. loop = NoLoop
    BY DEF ListInit
<1> QED
    BY <1>2, <1>3, <1>4 DEF ListInv, ListTypeOK, Lists, LoopOK

(* Every call and every step of a loop keeps the invariant. *)
LEMMA ListNextInductive ==
    ASSUME ListAssumption, ListInv, [ListNext]_listvars
    PROVE  ListInv'
<1>1. Lists
    BY DEF ListInv
<1>2. ASSUME loop' = NoLoop, Lists'
      PROVE  ListInv'
    BY <1>2 DEF ListInv, ListTypeOK, Lists, LoopOK
<1>3. ASSUME loop = NoLoop, NEW h \in AllHeads,
             NEW nd \in Nodes, HXlist_add(h, nd) \/ HXlist_add_tail(h, nd) \/ HXclist_del(h, nd)
      PROVE  ListInv'
    <2>1. loop' = NoLoop
        BY <1>3 DEF HXlist_add, HXlist_add_tail, HXclist_del
    <2>2. Lists'
        BY <1>1, <1>3, AddStep, AddTailStep, DelStep
    <2> QED
        BY <1>2, <2>1, <2>2
<1>4. ASSUME NEW h \in AllHeads, NEW rev \in BOOLEAN, LoopBegin(h, rev)
      PROVE  ListInv'
    BY <1>4, LoopBeginStep
<1>5. ASSUME loop = NoLoop, NEW h \in CHeads, HXclist_pop(h) \/ HXclist_shift(h)
      PROVE  ListInv'
    <2>1. loop' = NoLoop /\ h \in AllHeads
        BY <1>5 DEF HXclist_pop, HXclist_shift, AllHeads
    <2>2. Lists'
        BY <1>1, <1>5, <2>1, DelStep
    <2> QED
        BY <1>2, <2>1, <2>2
<1>6. ASSUME NEW unlink \in BOOLEAN, LoopBody(unlink)
      PROVE  ListInv'
    BY <1>6, BodyStep
<1>7. CASE LoopEnd
    <2>1. loop' = NoLoop /\ UNCHANGED <<next, prev, items, lst>>
        BY <1>7 DEF LoopEnd
    <2>2. Lists'
        BY <1>1, <2>1 DEF Lists, Stored, Once, Rings, Counted
    <2> QED
        BY <1>2, <2>1, <2>2
<1>8. CASE UNCHANGED listvars
    BY <1>8 DEF listvars, ListInv, ListTypeOK, Lists, Stored, Once, Rings, Counted, LoopOK
<1> QED
    BY <1>3, <1>4, <1>5, <1>6, <1>7, <1>8 DEF ListNext

(* The ring that RingOK writes out is the list between two of its head. *)
LEMMA RingPlaces ==
    ASSUME ListAssumption, NEW h, NEW s, Rung(h, s)
    PROVE  /\ Len(<<h>> \o s \o <<h>>) = Len(s) + 2
           /\ \A i \in 1 .. Len(s) + 2 : (<<h>> \o s \o <<h>>)[i] = Elem(h, s, i - 1)
<1> DEFINE front == <<h>> \o s
           one == <<h>>
<1>1. s \in Seq(Ptrs) /\ one \in Seq(Ptrs) /\ Len(one) = 1 /\ one[1] = h
      /\ Len(s) \in Nat /\ DOMAIN s = 1 .. Len(s)
    <2>1. s \in Seq(Nodes) /\ h \in Ptrs
        BY DEF Rung, Ptrs
    <2>2. Nodes \subseteq Ptrs
        BY DEF Ptrs
    <2> QED
        BY <2>1, <2>2
<1>2. /\ front \in Seq(Ptrs) /\ Len(front) = Len(s) + 1
      /\ \A i \in 1 .. Len(s) + 1 : front[i] = IF i <= 1 THEN h ELSE s[i - 1]
    <2> HIDE DEF one
    <2>1. /\ one \o s \in Seq(Ptrs) /\ Len(one \o s) = Len(one) + Len(s)
          /\ \A i \in 1 .. Len(one) + Len(s) :
                (one \o s)[i] = IF i <= Len(one) THEN one[i] ELSE s[i - Len(one)]
        BY <1>1, ConcatProperties
    <2> QED
        BY <2>1, <1>1 DEF one
<1> HIDE DEF front, one
<1>3. /\ Len(front \o one) = Len(front) + Len(one)
      /\ \A i \in 1 .. Len(front) + Len(one) :
            (front \o one)[i] = IF i <= Len(front) THEN front[i] ELSE one[i - Len(front)]
    BY <1>1, <1>2, ConcatProperties
<1>4. /\ Len(front \o one) = Len(s) + 2
      /\ \A i \in 1 .. Len(s) + 2 : (front \o one)[i] = Elem(h, s, i - 1)
    <2>1. Len(front \o one) = Len(s) + 2
        BY <1>1, <1>2, <1>3
    <2>2. ASSUME NEW i \in 1 .. Len(s) + 2
          PROVE  (front \o one)[i] = Elem(h, s, i - 1)
        <3>1. CASE i = Len(s) + 2
            BY <3>1, <1>1, <1>2, <1>3 DEF Elem
        <3>2. CASE i <= Len(s) + 1
            <4>1. (front \o one)[i] = front[i] /\ i \in 1 .. Len(s) + 1
                BY <3>2, <1>1, <1>2, <1>3
            <4> QED
                BY <4>1, <1>1, <1>2 DEF Elem
        <3>3. i = Len(s) + 2 \/ i <= Len(s) + 1
            BY <1>1
        <3> QED
            BY <3>1, <3>2, <3>3
    <2> QED
        BY <2>1, <2>2
<1> QED
    BY <1>4 DEF front, one

(* The invariant says that the pointers are the rings ... *)
LEMMA InductiveRings ==
    ASSUME ListAssumption, ListInv
    PROVE  RingOK
<1> SUFFICES ASSUME NEW h \in AllHeads
             PROVE  /\ \A i \in 1 .. Len(<<h>> \o lst[h] \o <<h>>) - 1 :
                          /\ next[(<<h>> \o lst[h] \o <<h>>)[i]] = (<<h>> \o lst[h] \o <<h>>)[i + 1]
                          /\ prev[(<<h>> \o lst[h] \o <<h>>)[i + 1]] = (<<h>> \o lst[h] \o <<h>>)[i]
                    /\ h \in CHeads => items[h] = Len(lst[h])
    BY DEF RingOK
<1> DEFINE ring == <<h>> \o lst[h] \o <<h>>
           s == lst[h]
<1>1. Rung(h, s) /\ Ring(next, prev, h, s) /\ Len(s) \in Nat
    BY RungLists DEF ListInv
<1>2. Len(ring) = Len(s) + 2 /\ \A i \in 1 .. Len(s) + 2 : ring[i] = Elem(h, s, i - 1)
    BY <1>1, RingPlaces
<1> HIDE DEF ring, s
<1>3. ASSUME NEW i \in 1 .. Len(ring) - 1
      PROVE  next[ring[i]] = ring[i + 1] /\ prev[ring[i + 1]] = ring[i]
    <2>1. /\ i \in 1 .. Len(s) + 2 /\ i + 1 \in 1 .. Len(s) + 2 /\ (i + 1) - 1 = (i - 1) + 1
          /\ i - 1 \in 0 .. Len(s)
        BY <1>1, <1>2
    <2>2. ring[i] = Elem(h, s, i - 1) /\ ring[i + 1] = Elem(h, s, (i - 1) + 1)
        BY <2>1, <1>2
    <2> QED
        BY <2>1, <2>2, <1>1 DEF Ring
<1>4. h \in CHeads => items[h] = Len(s)
    BY DEF ListInv, Lists, Counted, s
<1> QED
    BY <1>3, <1>4 DEF ring, s

(* ... and that the loop has visited a prefix of what it walks over. *)
LEMMA InductiveLoop ==
    ASSUME ListAssumption, ListInv
    PROVE  SafeLoop
<1> SUFFICES ASSUME loop # NoLoop
             PROVE  /\ IsPrefix(loop.seen, loop.all)
                    /\ loop.pos = loop.head <=> loop.seen = loop.all
    BY DEF SafeLoop
<1> DEFINE h == loop.head
           all == loop.all
           seen == loop.seen
           s == Len(seen)
<1>1. /\ h \in AllHeads /\ all \in Seq(Nodes) /\ seen \in Seq(Nodes)
      /\ s \in Nat /\ Len(all) \in Nat /\ DOMAIN all = 1 .. Len(all)
    BY DEF ListInv, ListTypeOK, Loops
<1>2. /\ s <= Len(all)
      /\ \A i \in 1 .. s : seen[i] = all[i]
      /\ loop.pos = Elem(h, all, s + 1)
    BY DEF ListInv, LoopOK
<1>3. \A i \in DOMAIN all : all[i] # h
    BY <1>1 DEF ListAssumption
<1> HIDE DEF h, all, seen
<1>4. IsPrefix(seen, all)
    <2>1. /\ SubSeq(seen, 1, s) \in Seq(Nodes) /\ Len(SubSeq(seen, 1, s)) = s
          /\ \A i \in 1 .. s : SubSeq(seen, 1, s)[i] = seen[i]
        BY <1>1
    <2>2. /\ SubSeq(all, 1, s) \in Seq(Nodes) /\ Len(SubSeq(all, 1, s)) = s
          /\ \A i \in 1 .. s : SubSeq(all, 1, s)[i] = all[i]
        BY <1>1, <1>2
    <2>3. SubSeq(seen, 1, s) = SubSeq(all, 1, s)
        BY <2>1, <2>2, <1>2, SeqEqual
    <2> QED
        BY <2>3, <1>2 DEF IsPrefix
<1>5. seen = all <=> s = Len(all)
    <2>1. ASSUME s = Len(all)
          PROVE  seen = all
        BY <2>1, <1>1, <1>2, SeqEqual
    <2> QED
        BY <2>1
<1>6. loop.pos = h <=> s = Len(all)
    BY <1>1, <1>2, <1>3 DEF Elem
<1> QED
    BY <1>4, <1>5, <1>6 DEF h, all, seen

(* The invariant of the lists and of the loop over one of them. *)
THEOREM ListInductive == ASSUME ListAssumption PROVE ListSpec => []ListInv
<1>1. ListInit => ListInv
    BY ListInitInductive
<1>2. ListInv /\ [ListNext]_listvars => ListInv'
    BY ListNextInductive
<1> QED
    BY <1>1, <1>2, PTL DEF ListSpec

(* For any heads and nodes, the next and prev pointers of every list are   *)
(* the ring of its nodes in the order its calls promise, HXclist counts    *)
(* them, and a _safe loop visits the nodes that were linked when it began, *)
(* each once and in order, whichever of them its body unlinks.             *)
THEOREM ListsAndLoops == ASSUME ListAssumption PROVE ListSpec => []ListOK
<1>1. ListInv => ListOK
    BY InductiveRings, InductiveLoop DEF ListOK
<1> QED
    BY <1>1, ListInductive, PTL

-----------------------------------------------------------------------------
(* Blocks.                                                                 *)

Vals == Bytes \cup {NUL, Junk}

Cells == [alloc : Nat, length : Nat, data : Seq(Vals)]

(* A container whose data fit the block, with a byte for the terminator. *)
Block(c) ==
    /\ c \in Cells
    /\ c.length <= c.alloc
    /\ Len(c.data) = c.alloc + 1

(* The container holds t, as far as t says what there is to hold. *)
Holds(c, t) ==
    /\ t \in Seq(Vals)
    /\ Len(t) = c.length
    /\ \A i \in 1 .. Len(t) : t[i] = Junk \/ c.data[i] = t[i]

Closed(c) == c.data[c.length + 1] = NUL

(* The larger of two sizes. *)
LEMMA MaxOfTwo ==
    ASSUME NEW a \in Int, NEW b \in Int, b <= a
    PROVE  Max({a, b}) = a
<1>1. a \in {a, b} /\ \A y \in {a, b} : a >= y
    OBVIOUS
<1>2. \A x \in {a, b} : (\A y \in {a, b} : x >= y) => x = a
    OBVIOUS
<1> QED
    BY <1>1, <1>2 DEF Max

(* Bytes written inside of a block change just those places. *)
LEMMA PokeInside ==
    ASSUME NEW d \in Seq(Vals), NEW pos \in Nat, NEW s \in Seq(Vals), pos + Len(s) <= Len(d)
    PROVE  /\ Poke(d, pos, s) \in Seq(Vals)
           /\ Len(Poke(d, pos, s)) = Len(d)
           /\ \A i \in 1 .. Len(d) :
                 Poke(d, pos, s)[i] = IF pos < i /\ i <= pos + Len(s) THEN s[i - pos] ELSE d[i]
<1> DEFINE p == Poke(d, pos, s)
           f == [i \in 1 .. Len(d) |-> IF i - pos \in DOMAIN s THEN s[i - pos]
                                        ELSE IF i \in DOMAIN d THEN d[i] ELSE Junk]
<1>1. /\ Len(d) \in Nat /\ Len(s) \in Nat /\ pos + Len(s) \in Int
      /\ DOMAIN d = 1 .. Len(d) /\ DOMAIN s = 1 .. Len(s)
    OBVIOUS
<1>2. Max({Len(d), pos + Len(s)}) = Len(d)
    BY <1>1, MaxOfTwo
<1>3. p = f
    BY <1>2 DEF Poke
<1>4. \A i \in 1 .. Len(d) : i - pos \in DOMAIN s <=> (pos < i /\ i <= pos + Len(s))
    BY <1>1
<1>5. /\ \A i \in DOMAIN d : d[i] \in Vals
      /\ \A i \in DOMAIN s : s[i] \in Vals
    OBVIOUS
<1>6. f \in [1 .. Len(d) -> Vals]
    BY <1>1, <1>5
<1>7. \A i \in 1 .. Len(d) :
         f[i] = IF pos < i /\ i <= pos + Len(s) THEN s[i - pos] ELSE d[i]
    BY <1>1, <1>4
<1> HIDE DEF f
<1>8. f \in Seq(Vals) /\ Len(f) = Len(d)
    BY <1>1, <1>6
<1> QED
    BY <1>3, <1>7, <1>8

(* realloc keeps what the block held. *)
LEMMA ResizeKeeps ==
    ASSUME NEW d \in Seq(Vals), NEW n \in Nat, Len(d) <= n + 1
    PROVE  /\ Resize(d, n) \in Seq(Vals)
           /\ Len(Resize(d, n)) = n + 1
           /\ \A i \in 1 .. Len(d) : Resize(d, n)[i] = d[i]
<1> DEFINE f == [i \in 1 .. n + 1 |-> IF i \in DOMAIN d THEN d[i] ELSE Junk]
<1>1. Len(d) \in Nat /\ DOMAIN d = 1 .. Len(d) /\ \A i \in DOMAIN d : d[i] \in Vals
    OBVIOUS
<1>2. f \in [1 .. n + 1 -> Vals]
    BY <1>1 DEF Vals
<1>3. \A i \in 1 .. Len(d) : f[i] = d[i]
    BY <1>1
<1>4. Resize(d, n) = f
    BY DEF Resize
<1> HIDE DEF f
<1>5. f \in Seq(Vals) /\ Len(f) = n + 1
    BY <1>2
<1> QED
    BY <1>3, <1>4, <1>5

(* What is promised of data of another length. *)
LEMMA StretchKeeps ==
    ASSUME NEW t \in Seq(Vals), NEW n \in Nat
    PROVE  /\ Stretch(t, n) \in Seq(Vals)
           /\ Len(Stretch(t, n)) = n
           /\ \A i \in 1 .. n : Stretch(t, n)[i] = IF i <= Len(t) THEN t[i] ELSE Junk
<1> DEFINE f == [i \in 1 .. n |-> IF i \in DOMAIN t THEN t[i] ELSE Junk]
<1>1. Len(t) \in Nat /\ DOMAIN t = 1 .. Len(t) /\ \A i \in DOMAIN t : t[i] \in Vals
    OBVIOUS
<1>2. f \in [1 .. n -> Vals]
    BY <1>1 DEF Vals
<1>3. \A i \in 1 .. n : f[i] = IF i <= Len(t) THEN t[i] ELSE Junk
    BY <1>1
<1>4. Stretch(t, n) = f
    BY DEF Stretch
<1> HIDE DEF f
<1>5. f \in Seq(Vals) /\ Len(f) = n
    BY <1>2
<1> QED
    BY <1>3, <1>4, <1>5

(* Making room keeps the block's contents and its length. *)
LEMMA RoomKeeps ==
    ASSUME NEW c, NEW n \in Nat, Block(c)
    PROVE  /\ Block(Room(c, n)) /\ Room(c, n).alloc >= n /\ Room(c, n).alloc >= c.alloc
           /\ Room(c, n).length = c.length
           /\ \A i \in 1 .. c.alloc + 1 : Room(c, n).data[i] = c.data[i]
<1>1. /\ c \in Cells /\ c.alloc \in Nat /\ c.length \in Nat /\ c.data \in Seq(Vals)
      /\ c.length <= c.alloc /\ Len(c.data) = c.alloc + 1
    BY DEF Block, Cells
<1>2. CASE c.alloc < n
    <2> DEFINE r == Resize(c.data, n)
    <2>1. Len(c.data) <= n + 1
        BY <1>1, <1>2
    <2>2. r \in Seq(Vals) /\ Len(r) = n + 1 /\ \A i \in 1 .. Len(c.data) : r[i] = c.data[i]
        BY <1>1, <2>1, ResizeKeeps
    <2>3. Room(c, n) = [c EXCEPT !.alloc = n, !.data = r]
        BY <1>2 DEF Room
    <2> HIDE DEF r
    <2>4. /\ Room(c, n) \in Cells /\ Room(c, n).alloc = n /\ Room(c, n).length = c.length
          /\ Room(c, n).data = r
        BY <1>1, <2>2, <2>3 DEF Cells
    <2> QED
        BY <1>1, <1>2, <2>2, <2>4 DEF Block
<1>3. CASE ~ (c.alloc < n)
    <2>1. Room(c, n) = c
        BY <1>3 DEF Room
    <2> QED
        BY <1>1, <1>3, <2>1 DEF Block
<1> QED
    BY <1>2, <1>3

(* Making room where there is no container yet allocates one. *)
LEMMA RoomNew ==
    ASSUME NEW n \in Nat
    PROVE  Block(Room(NoMc, n)) /\ Room(NoMc, n).alloc = n /\ Room(NoMc, n).length = 0
<1> DEFINE none == <<>>
           r == Resize(none, n)
<1>1. none \in Seq(Vals) /\ Len(none) = 0 /\ Len(none) <= n + 1
    OBVIOUS
<1>2. NoMc.alloc < n /\ NoMc = [alloc |-> -1, length |-> 0, data |-> none]
    BY DEF NoMc
<1> HIDE DEF none
<1>3. r \in Seq(Vals) /\ Len(r) = n + 1
    BY <1>1, ResizeKeeps
<1>4. Room(NoMc, n) = [NoMc EXCEPT !.alloc = n, !.data = r]
    BY <1>2 DEF Room
<1> HIDE DEF r
<1>5. Room(NoMc, n) = [alloc |-> n, length |-> 0, data |-> r]
    BY <1>2, <1>4
<1> QED
    BY <1>3, <1>5 DEF Block, Cells

(* Filling a block from pos: what is before pos stays, s follows, and the  *)
(* terminator ends it.                                                     *)
LEMMA FillKeeps ==
    ASSUME NEW c, Block(c), NEW pos \in Nat, NEW s \in Seq(Vals), pos + Len(s) <= c.alloc
    PROVE  /\ Block(Fill(c, pos, s)) /\ Closed(Fill(c, pos, s))
           /\ Fill(c, pos, s).alloc = c.alloc
           /\ Fill(c, pos, s).length = pos + Len(s)
           /\ \A i \in 1 .. pos + Len(s) :
                 Fill(c, pos, s).data[i] = IF i <= pos THEN c.data[i] ELSE s[i - pos]
<1> DEFINE z == Append(s, NUL)
           p == Poke(c.data, pos, z)
<1>1. /\ c \in Cells /\ c.alloc \in Nat /\ c.length \in Nat /\ c.data \in Seq(Vals)
      /\ Len(c.data) = c.alloc + 1 /\ Len(s) \in Nat
    BY DEF Block, Cells
<1>2. z \in Seq(Vals) /\ Len(z) = Len(s) + 1
      /\ \A i \in 1 .. Len(s) + 1 : z[i] = IF i <= Len(s) THEN s[i] ELSE NUL
    <2>1. NUL \in Vals
        BY DEF Vals
    <2> QED
        BY <2>1
<1>3. Fill(c, pos, s) = [c EXCEPT !.data = p, !.length = pos + Len(s)]
    BY DEF Fill
<1> HIDE DEF z
<1>4. pos + Len(z) <= Len(c.data)
    BY <1>1, <1>2
<1>5. /\ p \in Seq(Vals) /\ Len(p) = Len(c.data)
      /\ \A i \in 1 .. Len(c.data) :
            p[i] = IF pos < i /\ i <= pos + Len(z) THEN z[i - pos] ELSE c.data[i]
    BY <1>1, <1>2, <1>4, PokeInside
<1> HIDE DEF p
<1>6. pos + Len(s) \in Nat
    BY <1>1
<1>7. /\ Fill(c, pos, s) \in Cells /\ Fill(c, pos, s).alloc = c.alloc
      /\ Fill(c, pos, s).length = pos + Len(s) /\ Fill(c, pos, s).data = p
    BY <1>1, <1>3, <1>5, <1>6 DEF Cells
<1>8. p[pos + Len(s) + 1] = NUL
    <2> DEFINE i == pos + Len(s) + 1
    <2>1. i \in 1 .. Len(c.data) /\ pos < i /\ i <= pos + Len(z) /\ i - pos = Len(s) + 1
        BY <1>1, <1>2, <1>4
    <2>2. z[Len(s) + 1] = NUL
        BY <1>1, <1>2
    <2> HIDE DEF i
    <2>3. p[i] = z[i - pos]
        BY <2>1, <1>5
    <2> QED
        BY <2>1, <2>2, <2>3 DEF i
<1>9. ASSUME NEW i \in 1 .. pos + Len(s)
      PROVE  p[i] = IF i <= pos THEN c.data[i] ELSE s[i - pos]
    <2>1. i \in 1 .. Len(c.data)
        BY <1>1
    <2>2. CASE i <= pos
        BY <1>1, <1>5, <2>1, <2>2
    <2>3. CASE ~ (i <= pos)
        <3>1. pos < i /\ i <= pos + Len(z) /\ i - pos \in 1 .. Len(s)
            BY <1>1, <1>2, <2>3
        <3>2. z[i - pos] = s[i - pos]
            BY <1>1, <1>2, <3>1
        <3> QED
            BY <1>5, <2>1, <2>3, <3>1, <3>2
    <2> QED
        BY <2>2, <2>3
<1> QED
    BY <1>1, <1>5, <1>7, <1>8, <1>9 DEF Block, Closed

-----------------------------------------------------------------------------
(* The inductive invariant.                                                *)

Calls == [op : {"readlink", "getcwd"}, s : Seq(Bytes), size : Nat, allocate : BOOLEAN]

McTypeOK ==
    /\ mc = NoMc \/ mc \in Cells
    /\ call = Idle \/ call \in Calls
    /\ txt \in Seq(Vals)
    /\ raw \in BOOLEAN

(* The container is a block that holds what was promised. *)
Kept == mc # NoMc => Block(mc) /\ Holds(mc, txt) /\ (raw \/ Closed(mc))

(* HX_readlink and HX_getcwd offer the kernel no more than the capacity. *)
CallOK == call # Idle => mc # NoMc /\ call.size <= mc.alloc

McInv == McTypeOK /\ Kept /\ CallOK

(* A block is a container that exists. *)
LEMMA BlockIsThere ==
    ASSUME NEW c, Block(c)
    PROVE  c # NoMc
    BY DEF Block, Cells, NoMc

(* What the containers of the invariant are. *)
LEMMA Facts ==
    ASSUME McInv, mc # NoMc
    PROVE  /\ Block(mc) /\ Holds(mc, txt) /\ (raw \/ Closed(mc))
           /\ mc \in Cells /\ mc.alloc \in Nat /\ mc.length \in Nat /\ mc.data \in Seq(Vals)
           /\ mc.length <= mc.alloc /\ Len(mc.data) = mc.alloc + 1
           /\ txt \in Seq(Vals) /\ Len(txt) = mc.length /\ DOMAIN txt = 1 .. mc.length
           /\ \A i \in 1 .. mc.length : txt[i] = Junk \/ mc.data[i] = txt[i]
<1>1. Block(mc) /\ Holds(mc, txt) /\ (raw \/ Closed(mc)) /\ txt \in Seq(Vals)
    BY DEF McInv, Kept, McTypeOK
<1>2. /\ mc \in Cells /\ mc.alloc \in Nat /\ mc.length \in Nat /\ mc.data \in Seq(Vals)
      /\ mc.length <= mc.alloc /\ Len(mc.data) = mc.alloc + 1
    BY <1>1 DEF Block, Cells
<1>3. /\ Len(txt) = mc.length /\ \A i \in 1 .. mc.length : txt[i] = Junk \/ mc.data[i] = txt[i]
    BY <1>1 DEF Holds
<1> QED
    BY <1>1, <1>2, <1>3

(* User's data. *)
LEMMA StringType ==
    ASSUME McAssumption, NEW s \in Strings
    PROVE  s \in Seq(Bytes) /\ s \in Seq(Vals) /\ Len(s) \in Nat
<1>1. PICK n \in 0 .. MaxLen : s \in [1 .. n -> Bytes]
    BY DEF Strings
<1>2. n \in Nat
    BY DEF McAssumption
<1>3. s \in [1 .. n -> Vals]
    BY <1>1 DEF Vals
<1> QED
    BY <1>1, <1>2, <1>3

(* After a step to a block that holds what is promised, the invariant      *)
(* holds; a call under way has to fit it.                                  *)
LEMMA Settles ==
    ASSUME Block(mc'), Holds(mc', txt'), raw' \in BOOLEAN, raw' \/ Closed(mc'),
           call' = Idle \/ (call' \in Calls /\ call'.size <= mc'.alloc)
    PROVE  McInv'
<1>1. mc' \in Cells /\ txt' \in Seq(Vals)
    BY DEF Block, Holds
<1>2. mc' # NoMc
    BY BlockIsThere
<1> QED
    BY <1>1, <1>2 DEF McInv, McTypeOK, Kept, CallOK

(* A container filled from the start holds what was stored. *)
LEMMA FilledHolds ==
    ASSUME NEW c, Block(c), NEW s \in Seq(Vals), Len(s) <= c.alloc
    PROVE  Block(Fill(c, 0, s)) /\ Closed(Fill(c, 0, s)) /\ Holds(Fill(c, 0, s), s)
<1> DEFINE z == 0
           f == Fill(c, z, s)
<1>1. c.alloc \in Nat /\ Len(s) \in Nat /\ z \in Nat /\ z + Len(s) <= c.alloc /\ z + Len(s) = Len(s)
    BY DEF Block, Cells
<1> HIDE DEF z
<1>2. /\ Block(f) /\ Closed(f) /\ f.length = z + Len(s)
      /\ \A i \in 1 .. z + Len(s) : f.data[i] = IF i <= z THEN c.data[i] ELSE s[i - z]
    BY <1>1, FillKeeps
<1> HIDE DEF f
<1>3. \A i \in 1 .. Len(s) : f.data[i] = s[i]
    BY <1>1, <1>2 DEF z
<1>4. Holds(f, s)
    BY <1>1, <1>2, <1>3 DEF Holds
<1> QED
    BY <1>2, <1>4 DEF f, z

(* A call whose allocation fails changes nothing. *)
LEMMA NoMemKeeps ==
    ASSUME McInv, NEW n, NoMem(n), UNCHANGED call
    PROVE  McInv'
    BY DEF NoMem, McInv, McTypeOK, Kept, CallOK

-----------------------------------------------------------------------------
(* The operations.                                                         *)

(* HXmc_meminit and HXmc_strinit. *)
LEMMA InitStep ==
    ASSUME McAssumption, McInv, call = Idle, NEW s \in Strings,
           HXmc_meminit(s) \/ HXmc_strinit(s)
    PROVE  McInv'
<1>1. s \in Seq(Vals) /\ Len(s) \in Nat /\ Prealloc \in Nat
    BY StringType DEF McAssumption
<1>2. CASE NoMem(Len(s)) /\ UNCHANGED call
    BY <1>2, NoMemKeeps
<1>3. CASE mc' = Fill(Room(NoMc, Len(s)), 0, s) /\ Keep(s) /\ UNCHANGED call
    <2> DEFINE r == Room(NoMc, Len(s))
    <2>1. Block(r) /\ r.alloc = Len(s)
        BY <1>1, RoomNew
    <2>2. Len(s) <= r.alloc
        BY <1>1, <2>1
    <2> HIDE DEF r
    <2>3. Block(Fill(r, 0, s)) /\ Closed(Fill(r, 0, s)) /\ Holds(Fill(r, 0, s), s)
        BY <1>1, <2>1, <2>2, FilledHolds
    <2>4. mc' = Fill(r, 0, s) /\ txt' = s /\ raw' = FALSE /\ call' = Idle
        BY <1>3 DEF r, Keep
    <2> QED
        BY <2>3, <2>4, Settles
<1>4. CASE /\ Len(s) < Prealloc
           /\ mc' = Fill(Room(Fill(Room(NoMc, Prealloc), 0, <<>>), Len(s)), 0, s)
           /\ Keep(s) /\ UNCHANGED call
    <2> DEFINE none == <<>>
               q == Room(NoMc, Prealloc)
               c == Fill(q, 0, none)
               r == Room(c, Len(s))
    <2>1. Block(q) /\ q.alloc = Prealloc
        BY <1>1, RoomNew
    <2>2. none \in Seq(Vals) /\ Len(none) <= q.alloc
        BY <1>1, <2>1
    <2> HIDE DEF none, q
    <2>3. Block(c)
        BY <2>1, <2>2, FilledHolds
    <2> HIDE DEF c
    <2>4. Block(r) /\ Len(s) <= r.alloc
        <3>1. Block(r) /\ r.alloc >= Len(s)
            BY <1>1, <2>3, RoomKeeps
        <3>2. r.alloc \in Nat
            BY <3>1 DEF Block, Cells
        <3> QED
            BY <1>1, <3>1, <3>2
    <2> HIDE DEF r
    <2>5. Block(Fill(r, 0, s)) /\ Closed(Fill(r, 0, s)) /\ Holds(Fill(r, 0, s), s)
        BY <1>1, <2>4, FilledHolds
    <2>6. mc' = Fill(r, 0, s) /\ txt' = s /\ raw' = FALSE /\ call' = Idle
        BY <1>4 DEF r, c, q, none, Keep
    <2> QED
        BY <2>5, <2>6, Settles
<1> QED
    BY <1>2, <1>3, <1>4 DEF HXmc_meminit, HXmc_strinit

(* HXmc_memcpy and HXmc_strcpy. *)
LEMMA CopyStep ==
    ASSUME McAssumption, McInv, call = Idle, NEW s \in Strings, NEW null \in BOOLEAN,
           HXmc_memcpy(s, null)
    PROVE  McInv'
<1> DEFINE w == IF null THEN <<>> ELSE s
           r == Room(mc, Len(s))
<1>1. s \in Seq(Vals) /\ Len(s) \in Nat /\ w \in Seq(Vals) /\ Len(w) <= Len(s)
    BY StringType
<1>2. mc # NoMc /\ Block(mc)
    BY Facts DEF HXmc_memcpy
<1>3. CASE NoMem(Len(s)) /\ UNCHANGED call
    BY <1>3, NoMemKeeps
<1>4. CASE mc' = Fill(r, 0, w) /\ Keep(w) /\ UNCHANGED call
    <2>1. mc' = Fill(r, 0, w) /\ txt' = w /\ raw' = FALSE /\ call' = Idle
        BY <1>4 DEF Keep
    <2> HIDE DEF w
    <2>2. Block(r) /\ r.alloc >= Len(s) /\ r.alloc \in Nat
        <3>1. Block(r) /\ r.alloc >= Len(s)
            BY <1>1, <1>2, RoomKeeps
        <3> QED
            BY <3>1 DEF Block, Cells
    <2> HIDE DEF r
    <2>3. Len(w) <= r.alloc
        <3>1. Len(w) \in Nat
            BY <1>1
        <3> QED
            BY <3>1, <1>1, <2>2
    <2>4. Block(Fill(r, 0, w)) /\ Closed(Fill(r, 0, w)) /\ Holds(Fill(r, 0, w), w)
        BY <1>1, <2>2, <2>3, FilledHolds
    <2> QED
        BY <2>1, <2>4, Settles
<1> QED
    BY <1>3, <1>4 DEF HXmc_memcpy

(* HXmc_free. *)
LEMMA FreeStep ==
    ASSUME McInv, call = Idle, HXmc_free
    PROVE  McInv'
<1>1. mc' = NoMc /\ txt' = <<>> /\ raw' = FALSE /\ call' = Idle /\ <<>> \in Seq(Vals)
    BY DEF HXmc_free, Keep
<1> QED
    BY <1>1 DEF McInv, McTypeOK, Kept, CallOK

(* Making room, and HXmc_trunc beyond the capacity. *)
LEMMA RoomStep ==
    ASSUME McInv, call = Idle, mc # NoMc, NEW n \in Nat, mc' = Room(mc, n),
           UNCHANGED <<call, txt, raw>>
    PROVE  McInv'
<1> DEFINE r == Room(mc, n)
<1>1. /\ Block(mc) /\ mc.alloc \in Nat /\ mc.length \in Nat /\ mc.length <= mc.alloc
      /\ txt \in Seq(Vals) /\ Len(txt) = mc.length
      /\ \A i \in 1 .. mc.length : txt[i] = Junk \/ mc.data[i] = txt[i]
      /\ raw \/ Closed(mc)
    BY Facts
<1>2. /\ Block(r) /\ r.length = mc.length
      /\ \A i \in 1 .. mc.alloc + 1 : r.data[i] = mc.data[i]
    BY <1>1, RoomKeeps
<1> HIDE DEF r
<1>3. \A i \in 1 .. mc.length : r.data[i] = mc.data[i]
    BY <1>1, <1>2
<1>4. Holds(r, txt)
    BY <1>1, <1>2, <1>3 DEF Holds
<1>5. mc.length + 1 \in 1 .. mc.alloc + 1
    BY <1>1
<1>6. raw \/ Closed(r)
    BY <1>1, <1>2, <1>5 DEF Closed
<1>7. mc' = r /\ txt' = txt /\ raw' = raw /\ call' = Idle /\ raw \in BOOLEAN
    BY DEF r, McInv, McTypeOK
<1> QED
    BY <1>2, <1>4, <1>6, <1>7, Settles

(* HXmc_memcat and HXmc_strcat. *)
LEMMA AppendStep ==
    ASSUME McAssumption, McInv, call = Idle, NEW s \in Strings, HXmc_memcat(s)
    PROVE  McInv'
<1> DEFINE L == mc.length
           n == L + Len(s)
           r == Room(mc, n)
           f == Fill(r, L, s)
           t == txt \o s
<1>1. s \in Seq(Vals) /\ Len(s) \in Nat
    BY StringType
<1>2. mc # NoMc
    BY DEF HXmc_memcat
<1>3. /\ Block(mc) /\ mc.alloc \in Nat /\ L \in Nat /\ L <= mc.alloc
      /\ txt \in Seq(Vals) /\ Len(txt) = L
      /\ \A i \in 1 .. L : txt[i] = Junk \/ mc.data[i] = txt[i]
    BY <1>2, Facts
<1>4. CASE NoMem(n) /\ UNCHANGED call
    BY <1>4, NoMemKeeps
<1>5. CASE mc' = f /\ Keep(t) /\ UNCHANGED call
    <2>1. mc' = f /\ txt' = t /\ raw' = FALSE /\ call' = Idle
        BY <1>5 DEF Keep
    <2>2. n \in Nat /\ n = L + Len(s)
        BY <1>1, <1>3
    <2> HIDE DEF n, L
    <2>3. /\ Block(r) /\ r.alloc >= n
          /\ \A i \in 1 .. mc.alloc + 1 : r.data[i] = mc.data[i]
        BY <1>3, <2>2, RoomKeeps
    <2>4. r.alloc \in Nat
        BY <2>3 DEF Block, Cells
    <2> HIDE DEF r
    <2>5. L + Len(s) <= r.alloc
        BY <1>1, <1>3, <2>2, <2>3, <2>4
    <2>6. /\ Block(f) /\ Closed(f) /\ f.length = L + Len(s)
          /\ \A i \in 1 .. L + Len(s) : f.data[i] = IF i <= L THEN r.data[i] ELSE s[i - L]
        BY <1>1, <1>3, <2>3, <2>5, FillKeeps
    <2> HIDE DEF f
    <2>7. /\ t \in Seq(Vals) /\ Len(t) = L + Len(s)
          /\ \A i \in 1 .. L + Len(s) : t[i] = IF i <= L THEN txt[i] ELSE s[i - L]
        BY <1>1, <1>3, ConcatProperties
    <2> HIDE DEF t
    <2>8. ASSUME NEW i \in 1 .. Len(t)
          PROVE  t[i] = Junk \/ f.data[i] = t[i]
        <3>1. i \in 1 .. L + Len(s) /\ L + Len(s) \in Nat
            BY <1>1, <1>3, <2>7
        <3>2. CASE i <= L
            <4>1. i \in 1 .. L /\ i \in 1 .. mc.alloc + 1
                BY <1>3, <3>1, <3>2
            <4>2. t[i] = txt[i] /\ f.data[i] = mc.data[i]
                BY <2>3, <2>6, <2>7, <3>1, <3>2, <4>1
            <4> QED
                BY <1>3, <4>1, <4>2
        <3>3. CASE ~ (i <= L)
            BY <2>6, <2>7, <3>1, <3>3
        <3> QED
            BY <3>2, <3>3
    <2>9. Holds(f, t)
        BY <2>6, <2>7, <2>8 DEF Holds
    <2> QED
        BY <2>1, <2>6, <2>9, Settles
<1> QED
    BY <1>4, <1>5 DEF HXmc_memcat

(* The bytes of a part of a sequence. *)
LEMMA Part ==
    ASSUME NEW d \in Seq(Vals), NEW a \in Nat, NEW b \in Nat, a <= b, b <= Len(d)
    PROVE  /\ SubSeq(d, a + 1, b) \in Seq(Vals) /\ Len(SubSeq(d, a + 1, b)) = b - a
           /\ \A i \in 1 .. b - a : SubSeq(d, a + 1, b)[i] = d[a + i]
<1> DEFINE m == a + 1
           q == SubSeq(d, m, b)
<1>1. Len(d) \in Nat /\ \A i \in 1 .. Len(d) : d[i] \in Vals
    OBVIOUS
<1>2. m \in Int /\ b \in Int /\ m = a + 1 /\ \A i \in m .. b : d[i] \in Vals
    BY <1>1
<1> HIDE DEF m
<1>3. /\ q \in Seq(Vals) /\ Len(q) = IF m <= b THEN b - m + 1 ELSE 0
      /\ \A i \in 1 .. b - m + 1 : q[i] = d[m + i - 1]
    BY <1>2, SubSeqProperties
<1> HIDE DEF q
<1>4. b - m + 1 = b - a /\ \A i \in 1 .. b - a : m + i - 1 = a + i
    BY <1>2
<1>5. Len(q) = b - a
    BY <1>2, <1>3
<1>6. \A i \in 1 .. b - a : q[i] = d[a + i]
    BY <1>3, <1>4
<1> QED
    BY <1>3, <1>5, <1>6 DEF q, m

(* The bytes of three sequences in a row. *)
LEMMA Joined ==
    ASSUME NEW a \in Seq(Vals), NEW s \in Seq(Vals), NEW b \in Seq(Vals),
           NEW t, t = a \o s \o b
    PROVE  /\ t \in Seq(Vals) /\ Len(t) = Len(a) + Len(s) + Len(b)
           /\ \A i \in 1 .. Len(a) + Len(s) + Len(b) :
                 t[i] = IF i <= Len(a) THEN a[i]
                        ELSE IF i <= Len(a) + Len(s) THEN s[i - Len(a)]
                        ELSE b[i - (Len(a) + Len(s))]
<1> DEFINE as == a \o s
<1>1. Len(a) \in Nat /\ Len(s) \in Nat /\ Len(b) \in Nat
    OBVIOUS
<1>2. /\ as \in Seq(Vals) /\ Len(as) = Len(a) + Len(s)
      /\ \A i \in 1 .. Len(a) + Len(s) : as[i] = IF i <= Len(a) THEN a[i] ELSE s[i - Len(a)]
    BY ConcatProperties
<1>3. t = as \o b
    OBVIOUS
<1> HIDE DEF as
<1>4. /\ t \in Seq(Vals) /\ Len(t) = Len(as) + Len(b)
      /\ \A i \in 1 .. Len(as) + Len(b) : t[i] = IF i <= Len(as) THEN as[i] ELSE b[i - Len(as)]
    <2>1. as \in Seq(Vals)
        BY <1>2
    <2>2. /\ as \o b \in Seq(Vals) /\ Len(as \o b) = Len(as) + Len(b)
          /\ \A i \in 1 .. Len(as) + Len(b) :
                (as \o b)[i] = IF i <= Len(as) THEN as[i] ELSE b[i - Len(as)]
        BY <2>1, ConcatProperties
    <2> QED
        BY <2>2, <1>3
<1>5. ASSUME NEW i \in 1 .. Len(a) + Len(s) + Len(b)
      PROVE  t[i] = IF i <= Len(a) THEN a[i]
                    ELSE IF i <= Len(a) + Len(s) THEN s[i - Len(a)]
                    ELSE b[i - (Len(a) + Len(s))]
    <2>1. t[i] = IF i <= Len(a) + Len(s) THEN as[i] ELSE b[i - (Len(a) + Len(s))]
        BY <1>2, <1>4
    <2>2. CASE i <= Len(a) + Len(s)
        <3>1. i \in 1 .. Len(a) + Len(s)
            BY <1>1, <2>2
        <3> QED
            BY <1>2, <2>1, <2>2, <3>1
    <2>3. CASE ~ (i <= Len(a) + Len(s))
        <3>1. ~ (i <= Len(a))
            BY <1>1, <2>3
        <3> QED
            BY <2>1, <2>3, <3>1
    <2> QED
        BY <2>2, <2>3
<1> QED
    BY <1>2, <1>4, <1>5

(* HXmc_memins, HXmc_mempcat and their variants. *)
LEMMA InsertStep ==
    ASSUME McAssumption, McInv, call = Idle, NEW s \in Strings, NEW pos \in 0 .. MaxLen,
           HXmc_memins(pos, s)
    PROVE  McInv'
<1> DEFINE L == mc.length
           n == Len(s)
           c == Room(mc, L + n)
           z == <<NUL>>
           tail == SubSeq(c.data, pos + 1, c.length)
           d1 == Poke(c.data, pos + n, tail)
           d2 == Poke(d1, pos, s)
           d3 == Poke(d2, c.length + n, z)
           a == SubSeq(txt, 1, pos)
           b == SubSeq(txt, pos + 1, Len(txt))
           t == a \o s \o b
<1>1. s \in Seq(Vals) /\ n \in Nat /\ pos \in Nat
    BY StringType DEF McAssumption
<1>2. mc # NoMc
    BY DEF HXmc_memins
<1>3. /\ Block(mc) /\ mc.alloc \in Nat /\ L \in Nat /\ L <= mc.alloc
      /\ txt \in Seq(Vals) /\ Len(txt) = L
      /\ \A i \in 1 .. L : txt[i] = Junk \/ mc.data[i] = txt[i]
    BY <1>2, Facts
<1>4. pos <= L
    BY <1>1, <1>3 DEF HXmc_memins
<1>5. CASE NoMem(L + n) /\ UNCHANGED call
    BY <1>5, NoMemKeeps
<1>6. CASE mc' = [c EXCEPT !.data = d3, !.length = c.length + n] /\ Keep(t) /\ UNCHANGED call
    <2> HIDE DEF L, n
    <2>1. L + n \in Nat
        BY <1>1, <1>3
    <2>2. /\ Block(c) /\ c.alloc >= L + n /\ c.length = mc.length
          /\ \A i \in 1 .. mc.alloc + 1 : c.data[i] = mc.data[i]
        BY <1>3, <2>1, RoomKeeps
    <2>3. /\ c \in Cells /\ c.alloc \in Nat /\ c.data \in Seq(Vals) /\ Len(c.data) = c.alloc + 1
          /\ c.length = L
        BY <2>2 DEF Block, Cells, L
    <2>4. \A i \in 1 .. L : c.data[i] = mc.data[i]
        BY <1>3, <2>2
    <2>5. /\ mc' = [c EXCEPT !.data = d3, !.length = L + n]
          /\ txt' = t /\ raw' = FALSE /\ call' = Idle
        BY <1>6, <2>3 DEF Keep
    <2> HIDE DEF c
    <2>6. /\ tail \in Seq(Vals) /\ Len(tail) = L - pos
          /\ \A i \in 1 .. L - pos : tail[i] = c.data[pos + i]
        <3>1. L <= Len(c.data)
            BY <1>1, <1>3, <2>2, <2>3
        <3> QED
            BY <1>1, <1>3, <1>4, <2>3, <3>1, Part
    <2>7. pos + n \in Nat /\ (pos + n) + Len(tail) <= Len(c.data)
        BY <1>1, <1>3, <1>4, <2>2, <2>3, <2>6
    <2> HIDE DEF tail
    <2>8. /\ d1 \in Seq(Vals) /\ Len(d1) = Len(c.data)
          /\ \A i \in 1 .. Len(c.data) :
                d1[i] = IF pos + n < i /\ i <= (pos + n) + Len(tail) THEN tail[i - (pos + n)]
                        ELSE c.data[i]
        BY <2>3, <2>6, <2>7, PokeInside
    <2> HIDE DEF d1
    <2>9. pos + Len(s) <= Len(d1) /\ n = Len(s)
        BY <1>1, <1>3, <1>4, <2>2, <2>3, <2>8 DEF n
    <2>10. /\ d2 \in Seq(Vals) /\ Len(d2) = Len(d1)
           /\ \A i \in 1 .. Len(d1) : d2[i] = IF pos < i /\ i <= pos + Len(s) THEN s[i - pos]
                                               ELSE d1[i]
        BY <1>1, <2>8, <2>9, PokeInside
    <2> HIDE DEF d2
    <2>11. z \in Seq(Vals) /\ Len(z) = 1 /\ z[1] = NUL
        BY DEF Vals
    <2> HIDE DEF z
    <2>12. d3 = Poke(d2, L + n, z) /\ (L + n) + Len(z) <= Len(d2)
        BY <1>1, <1>3, <2>2, <2>3, <2>8, <2>10, <2>11
    <2> HIDE DEF d3
    <2>13. /\ d3 \in Seq(Vals) /\ Len(d3) = Len(d2)
           /\ \A i \in 1 .. Len(d2) : d3[i] = IF L + n < i /\ i <= (L + n) + Len(z)
                                               THEN z[i - (L + n)] ELSE d2[i]
        <3> DEFINE e == L + n
                   w == Poke(d2, e, z)
        <3>1. e \in Nat /\ e + Len(z) <= Len(d2) /\ d3 = w
            BY <2>1, <2>12
        <3> HIDE DEF e
        <3>2. /\ w \in Seq(Vals) /\ Len(w) = Len(d2)
              /\ \A i \in 1 .. Len(d2) :
                    w[i] = IF e < i /\ i <= e + Len(z) THEN z[i - e] ELSE d2[i]
            BY <2>10, <2>11, <3>1, PokeInside
        <3> HIDE DEF w
        <3> QED
            BY <3>1, <3>2 DEF e
    <2>14. Len(d3) = c.alloc + 1 /\ d3[L + n + 1] = NUL
        <3>1. Len(d3) = c.alloc + 1
            BY <2>3, <2>8, <2>10, <2>13
        <3> DEFINE i == L + n + 1
        <3>2. i \in 1 .. Len(d2) /\ L + n < i /\ i <= (L + n) + Len(z) /\ i - (L + n) = 1
            BY <1>1, <1>3, <2>1, <2>10, <2>11, <2>12
        <3> HIDE DEF i
        <3>3. d3[i] = z[i - (L + n)]
            BY <2>13, <3>2
        <3> QED
            BY <2>11, <3>1, <3>2, <3>3 DEF i
    <2>15. ASSUME NEW i \in 1 .. L + n
           PROVE  d3[i] = IF i <= pos THEN mc.data[i]
                          ELSE IF i <= pos + n THEN s[i - pos] ELSE mc.data[i - n]
        <3>1. /\ i \in Nat /\ i >= 1 /\ i <= L + n /\ ~ (L + n < i)
              /\ i \in 1 .. Len(c.data) /\ i \in 1 .. Len(d1) /\ i \in 1 .. Len(d2)
            BY <1>1, <1>3, <2>1, <2>2, <2>3, <2>8, <2>10
        <3>2. d3[i] = d2[i]
            BY <2>13, <3>1
        <3>3. CASE i <= pos
            <4>1. ~ (pos < i) /\ ~ (pos + n < i) /\ i \in 1 .. L
                BY <1>1, <1>3, <1>4, <3>1, <3>3
            <4>2. d2[i] = d1[i] /\ d1[i] = c.data[i]
                BY <2>8, <2>10, <3>1, <4>1
            <4> QED
                BY <2>4, <3>2, <3>3, <4>1, <4>2
        <3>4. CASE pos < i /\ i <= pos + n
            <4>1. d2[i] = s[i - pos] /\ ~ (i <= pos)
                BY <1>1, <2>9, <2>10, <3>1, <3>4
            <4> QED
                BY <3>2, <3>4, <4>1
        <3>5. CASE pos + n < i
            <4>1. /\ ~ (i <= pos) /\ ~ (i <= pos + n) /\ ~ (i <= pos + Len(s))
                  /\ i <= (pos + n) + Len(tail)
                BY <1>1, <1>3, <1>4, <2>6, <2>9, <3>1, <3>5
            <4>2. d2[i] = d1[i] /\ d1[i] = tail[i - (pos + n)]
                BY <2>8, <2>10, <3>1, <3>5, <4>1
            <4>3. /\ i - (pos + n) \in 1 .. L - pos /\ pos + (i - (pos + n)) = i - n
                  /\ i - n \in 1 .. L
                BY <1>1, <1>3, <1>4, <3>1, <3>5
            <4>4. tail[i - (pos + n)] = c.data[pos + (i - (pos + n))]
                BY <2>6, <4>3
            <4>5. c.data[i - n] = mc.data[i - n]
                BY <2>4, <4>3
            <4> QED
                BY <3>2, <4>1, <4>2, <4>3, <4>4, <4>5
        <3>6. i <= pos \/ (pos < i /\ i <= pos + n) \/ pos + n < i
            BY <1>1, <3>1
        <3> QED
            BY <3>3, <3>4, <3>5, <3>6
    <2>16. /\ t \in Seq(Vals) /\ Len(t) = L + n
           /\ \A i \in 1 .. L + n : t[i] = IF i <= pos THEN txt[i]
                                            ELSE IF i <= pos + n THEN s[i - pos] ELSE txt[i - n]
        <3>1. /\ a \in Seq(Vals) /\ Len(a) = pos /\ \A i \in 1 .. pos : a[i] = txt[i]
            BY <1>1, <1>3, <1>4
        <3>2. /\ b \in Seq(Vals) /\ Len(b) = L - pos
              /\ \A i \in 1 .. L - pos : b[i] = txt[pos + i]
            BY <1>1, <1>3, <1>4, Part
        <3> HIDE DEF a, b, t
        <3>3. t = a \o s \o b
            BY DEF t
        <3>4. /\ t \in Seq(Vals) /\ Len(t) = Len(a) + Len(s) + Len(b)
              /\ \A i \in 1 .. Len(a) + Len(s) + Len(b) :
                    t[i] = IF i <= Len(a) THEN a[i]
                           ELSE IF i <= Len(a) + Len(s) THEN s[i - Len(a)]
                           ELSE b[i - (Len(a) + Len(s))]
            <4>1. a \in Seq(Vals) /\ s \in Seq(Vals) /\ b \in Seq(Vals)
                BY <1>1, <3>1, <3>2
            <4> QED
                BY <4>1, <3>3, Joined
        <3>5. Len(a) + Len(s) = pos + n /\ Len(a) + Len(s) + Len(b) = L + n
            BY <1>1, <1>3, <2>9, <3>1, <3>2
        <3>6. \A i \in 1 .. L + n :
                 t[i] = IF i <= pos THEN a[i]
                        ELSE IF i <= pos + n THEN s[i - pos] ELSE b[i - (pos + n)]
            BY <3>1, <3>4, <3>5
        <3>7. ASSUME NEW i \in 1 .. L + n
              PROVE  t[i] = IF i <= pos THEN txt[i]
                            ELSE IF i <= pos + n THEN s[i - pos] ELSE txt[i - n]
            <4>1. CASE i <= pos
                <5>1. i \in 1 .. pos
                    BY <1>1, <4>1
                <5> QED
                    BY <3>1, <3>6, <4>1, <5>1
            <4>2. CASE ~ (i <= pos) /\ i <= pos + n
                BY <3>6, <4>2
            <4>3. CASE ~ (i <= pos) /\ ~ (i <= pos + n)
                <5>1. i - (pos + n) \in 1 .. L - pos /\ pos + (i - (pos + n)) = i - n
                    BY <1>1, <1>3, <1>4, <4>3
                <5>2. b[i - (pos + n)] = txt[pos + (i - (pos + n))]
                    BY <3>2, <5>1
                <5> QED
                    BY <3>6, <4>3, <5>1, <5>2
            <4> QED
                BY <4>1, <4>2, <4>3
        <3> QED
            BY <3>4, <3>5, <3>7
    <2> HIDE DEF t
    <2>17. ASSUME NEW i \in 1 .. L + n
           PROVE  t[i] = Junk \/ d3[i] = t[i]
        <3>1. CASE i <= pos
            <4>1. i \in 1 .. L
                BY <1>1, <1>3, <1>4, <2>1, <3>1
            <4> QED
                BY <1>3, <2>15, <2>16, <3>1, <4>1
        <3>2. CASE ~ (i <= pos) /\ i <= pos + n
            BY <2>15, <2>16, <3>2
        <3>3. CASE ~ (i <= pos) /\ ~ (i <= pos + n)
            <4>1. i - n \in 1 .. L
                BY <1>1, <1>3, <1>4, <2>1, <3>3
            <4> QED
                BY <1>3, <2>15, <2>16, <3>3, <4>1
        <3> QED
            BY <3>1, <3>2, <3>3
    <2> DEFINE m == [c EXCEPT !.data = d3, !.length = L + n]
    <2>18. m \in Cells /\ m.alloc = c.alloc /\ m.length = L + n /\ m.data = d3
        BY <2>1, <2>3, <2>13 DEF Cells
    <2>19. mc' = m
        BY <2>5
    <2> HIDE DEF m
    <2>20. Block(m) /\ Closed(m)
        BY <1>1, <1>3, <2>2, <2>3, <2>14, <2>18 DEF Block, Closed
    <2>21. Holds(m, t)
        BY <2>16, <2>17, <2>18 DEF Holds
    <2> QED
        BY <2>5, <2>19, <2>20, <2>21, Settles
<1> QED
    BY <1>5, <1>6 DEF HXmc_memins

(* HXmc_memdel. *)
LEMMA DeleteStep ==
    ASSUME McAssumption, McInv, call = Idle, NEW pos \in 0 .. MaxLen, NEW n \in 0 .. MaxLen,
           HXmc_memdel(pos, n)
    PROVE  McInv'
<1> DEFINE L == mc.length
           len == IF pos + n > L THEN L - pos ELSE n
           e == pos + len
           tail == SubSeq(mc.data, e + 1, L)
           f == Fill(mc, pos, tail)
           a == SubSeq(txt, 1, pos)
           b == SubSeq(txt, e + 1, L)
           t == a \o b
<1>1. n \in Nat /\ pos \in Nat
    BY DEF McAssumption
<1>2. mc # NoMc
    BY DEF HXmc_memdel
<1>3. /\ Block(mc) /\ mc.alloc \in Nat /\ L \in Nat /\ L <= mc.alloc
      /\ mc.data \in Seq(Vals) /\ Len(mc.data) = mc.alloc + 1
      /\ txt \in Seq(Vals) /\ Len(txt) = L
      /\ \A i \in 1 .. L : txt[i] = Junk \/ mc.data[i] = txt[i]
    BY <1>2, Facts
<1>4. pos <= L
    BY <1>1, <1>3 DEF HXmc_memdel
<1>5. mc' = f /\ Keep(a \o SubSeq(txt, pos + n + 1, Len(txt))) /\ call' = Idle
    BY DEF HXmc_memdel
<1>6. SubSeq(txt, pos + n + 1, Len(txt)) = b
    <2>1. CASE pos + n > L
        <3> DEFINE u == pos + n + 1
                   v == e + 1
        <3>1. u \in Int /\ v \in Int /\ L \in Int /\ L < u /\ L < v
            BY <1>1, <1>3, <1>4, <2>1
        <3> HIDE DEF u, v
        <3>2. SubSeq(txt, u, L) = <<>> /\ SubSeq(txt, v, L) = <<>>
            BY <3>1, SubSeqEmpty
        <3> QED
            BY <1>3, <3>2 DEF u, v
    <2>2. CASE ~ (pos + n > L)
        BY <1>3, <2>2
    <2> QED
        BY <2>1, <2>2
<1>7. mc' = f /\ txt' = t /\ raw' = FALSE /\ call' = Idle
    BY <1>5, <1>6 DEF Keep
<1>8. e \in Nat /\ pos <= e /\ e <= L
    BY <1>1, <1>3, <1>4
<1> HIDE DEF e, L
<1>9. /\ tail \in Seq(Vals) /\ Len(tail) = L - e
      /\ \A i \in 1 .. L - e : tail[i] = mc.data[e + i]
    <2>1. L <= Len(mc.data)
        BY <1>3
    <2> QED
        BY <1>3, <1>8, <2>1, Part
<1>10. pos + Len(tail) <= mc.alloc
    BY <1>1, <1>3, <1>4, <1>8, <1>9
<1> HIDE DEF tail
<1>11. /\ Block(f) /\ Closed(f) /\ f.length = pos + Len(tail)
       /\ \A i \in 1 .. pos + Len(tail) : f.data[i] = IF i <= pos THEN mc.data[i] ELSE tail[i - pos]
    BY <1>1, <1>3, <1>9, <1>10, FillKeeps
<1> HIDE DEF f
<1>12. a \in Seq(Vals) /\ Len(a) = pos /\ \A i \in 1 .. pos : a[i] = txt[i]
    BY <1>1, <1>3, <1>4
<1>13. b \in Seq(Vals) /\ Len(b) = L - e /\ \A i \in 1 .. L - e : b[i] = txt[e + i]
    BY <1>3, <1>8, Part
<1> HIDE DEF a, b
<1>14. /\ t \in Seq(Vals) /\ Len(t) = Len(a) + Len(b)
       /\ \A i \in 1 .. Len(a) + Len(b) : t[i] = IF i <= Len(a) THEN a[i] ELSE b[i - Len(a)]
    <2>1. a \in Seq(Vals) /\ b \in Seq(Vals)
        BY <1>12, <1>13
    <2> QED
        BY <2>1, ConcatProperties
<1> HIDE DEF t
<1>15. ASSUME NEW i \in 1 .. Len(t)
       PROVE  t[i] = Junk \/ f.data[i] = t[i]
    <2>1. i \in Nat /\ i >= 1 /\ i \in 1 .. pos + (L - e) /\ i <= pos + (L - e)
        BY <1>1, <1>3, <1>8, <1>12, <1>13, <1>14
    <2>2. t[i] = IF i <= pos THEN a[i] ELSE b[i - pos]
        BY <1>12, <1>13, <1>14
    <2>3. f.data[i] = IF i <= pos THEN mc.data[i] ELSE tail[i - pos]
        BY <1>9, <1>11, <2>1
    <2>4. CASE i <= pos
        <3>1. i \in 1 .. pos /\ i \in 1 .. L
            BY <1>1, <1>3, <1>4, <2>1, <2>4
        <3> QED
            BY <1>3, <1>12, <2>2, <2>3, <2>4, <3>1
    <2>5. CASE ~ (i <= pos)
        <3> DEFINE j == i - pos
        <3>1. j \in 1 .. L - e /\ e + j \in 1 .. L
            BY <1>1, <1>3, <1>8, <2>1, <2>5
        <3>2. t[i] = b[j] /\ f.data[i] = tail[j]
            BY <2>2, <2>3, <2>5
        <3> HIDE DEF j
        <3>3. b[j] = txt[e + j] /\ tail[j] = mc.data[e + j]
            BY <1>9, <1>13, <3>1
        <3> QED
            BY <1>3, <3>1, <3>2, <3>3
    <2> QED
        BY <2>4, <2>5
<1>16. Holds(f, t)
    BY <1>9, <1>11, <1>12, <1>13, <1>14, <1>15 DEF Holds
<1> QED
    BY <1>7, <1>11, <1>16, Settles

(* The block once HXmc_setlen has made its length n. *)
Lengthened(c, n) ==
    [IF n > c.alloc THEN Room(c, n) ELSE [c EXCEPT !.data = Poke(@, n, <<NUL>>)]
       EXCEPT !.length = n]

(* It is closed unless the length went beyond the capacity. *)
LEMMA LengthenedKeeps ==
    ASSUME NEW c, Block(c), NEW n \in Nat
    PROVE  /\ Block(Lengthened(c, n)) /\ Lengthened(c, n).length = n
           /\ n > c.alloc \/ Closed(Lengthened(c, n))
           /\ \A i \in 1 .. n : i <= c.length => Lengthened(c, n).data[i] = c.data[i]
<1> DEFINE l == Lengthened(c, n)
<1>1. /\ c \in Cells /\ c.alloc \in Nat /\ c.length \in Nat /\ c.data \in Seq(Vals)
      /\ c.length <= c.alloc /\ Len(c.data) = c.alloc + 1
    BY DEF Block, Cells
<1>2. CASE n > c.alloc
    <2> DEFINE r == Room(c, n)
    <2>1. /\ Block(r) /\ r.alloc >= n
          /\ \A i \in 1 .. c.alloc + 1 : r.data[i] = c.data[i]
        BY RoomKeeps
    <2>2. l = [r EXCEPT !.length = n]
        BY <1>2 DEF Lengthened
    <2> HIDE DEF r, l
    <2>3. r \in Cells /\ r.alloc \in Nat /\ Len(r.data) = r.alloc + 1
        BY <2>1 DEF Block, Cells
    <2>4. l \in Cells /\ l.alloc = r.alloc /\ l.length = n /\ l.data = r.data
        BY <2>2, <2>3 DEF Cells
    <2>5. Block(l)
        BY <2>1, <2>3, <2>4 DEF Block
    <2>6. \A i \in 1 .. n : i <= c.length => l.data[i] = c.data[i]
        BY <1>1, <2>1, <2>4
    <2> QED
        BY <1>2, <2>4, <2>5, <2>6 DEF l
<1>3. CASE ~ (n > c.alloc)
    <2> DEFINE z == <<NUL>>
               p == Poke(c.data, n, z)
    <2>1. z \in Seq(Vals) /\ Len(z) = 1 /\ z[1] = NUL
        BY DEF Vals
    <2>2. l = [[c EXCEPT !.data = p] EXCEPT !.length = n]
        BY <1>3 DEF Lengthened
    <2> HIDE DEF z, l
    <2>3. n + Len(z) <= Len(c.data)
        BY <1>1, <1>3, <2>1
    <2>4. /\ p \in Seq(Vals) /\ Len(p) = Len(c.data)
          /\ \A i \in 1 .. Len(c.data) :
                p[i] = IF n < i /\ i <= n + Len(z) THEN z[i - n] ELSE c.data[i]
        BY <1>1, <2>1, <2>3, PokeInside
    <2> HIDE DEF p
    <2>5. l \in Cells /\ l.alloc = c.alloc /\ l.length = n /\ l.data = p
        BY <1>1, <2>2, <2>4 DEF Cells
    <2>6. p[n + 1] = NUL
        <3> DEFINE i == n + 1
        <3>1. i \in 1 .. Len(c.data) /\ n < i /\ i <= n + Len(z) /\ i - n = 1
            BY <1>1, <1>3, <2>1
        <3> HIDE DEF i
        <3>2. p[i] = z[i - n]
            BY <2>4, <3>1
        <3> QED
            BY <2>1, <3>1, <3>2 DEF i
    <2>7. Block(l) /\ Closed(l)
        BY <1>1, <1>3, <2>4, <2>5, <2>6 DEF Block, Closed
    <2>8. \A i \in 1 .. n : i <= c.length => l.data[i] = c.data[i]
        <3>1. \A i \in 1 .. n : i \in 1 .. Len(c.data) /\ ~ (n < i)
            BY <1>1, <1>3
        <3> QED
            BY <2>4, <2>5, <3>1
    <2> QED
        BY <2>5, <2>7, <2>8 DEF l
<1> QED
    BY <1>2, <1>3

(* What is promised of the bytes HXmc_setlen adds is nothing. *)
LEMMA StretchHolds ==
    ASSUME NEW c, Block(c), NEW t, Holds(c, t), NEW n \in Nat
    PROVE  Holds(Lengthened(c, n), Stretch(t, n))
<1> DEFINE l == Lengthened(c, n)
           x == Stretch(t, n)
<1>1. /\ l.length = n /\ \A i \in 1 .. n : i <= c.length => l.data[i] = c.data[i]
    BY LengthenedKeeps
<1>2. /\ t \in Seq(Vals) /\ Len(t) = c.length /\ Len(t) \in Nat
      /\ \A i \in 1 .. Len(t) : t[i] = Junk \/ c.data[i] = t[i]
    BY DEF Holds
<1>3. /\ x \in Seq(Vals) /\ Len(x) = n
      /\ \A i \in 1 .. n : x[i] = IF i <= Len(t) THEN t[i] ELSE Junk
    BY <1>2, StretchKeeps
<1> HIDE DEF l, x
<1>4. ASSUME NEW i \in 1 .. n
      PROVE  x[i] = Junk \/ l.data[i] = x[i]
    <2>1. CASE i <= Len(t)
        <3>1. i \in 1 .. Len(t)
            BY <1>2, <2>1
        <3> QED
            BY <1>1, <1>2, <1>3, <2>1, <3>1
    <2>2. CASE ~ (i <= Len(t))
        BY <1>3, <2>2
    <2> QED
        BY <2>1, <2>2
<1>5. Holds(l, x)
    BY <1>1, <1>3, <1>4 DEF Holds
<1> QED
    BY <1>5 DEF l, x

(* Nothing promised is always held. *)
LEMMA NothingHolds ==
    ASSUME NEW c, NEW n \in Nat, c.length = n
    PROVE  Holds(c, Stretch(<<>>, n))
<1> DEFINE none == <<>>
           x == Stretch(none, n)
<1>1. none \in Seq(Vals) /\ Len(none) = 0
    OBVIOUS
<1> HIDE DEF none
<1>2. /\ x \in Seq(Vals) /\ Len(x) = n
      /\ \A i \in 1 .. n : x[i] = IF i <= Len(none) THEN none[i] ELSE Junk
    BY <1>1, StretchKeeps
<1> HIDE DEF x
<1>3. \A i \in 1 .. n : x[i] = Junk
    BY <1>1, <1>2
<1>4. Holds(c, x)
    BY <1>2, <1>3 DEF Holds
<1> QED
    BY <1>4 DEF x, none

(* HXmc_trunc within the capacity and HXmc_setlen make that block. *)
LEMMA SetLenIs ==
    ASSUME Block(mc), NEW n \in Nat
    PROVE  /\ SetLen(n) = Lengthened(mc, n)
           /\ ~ (n > mc.alloc) => TruncMc(n) = Lengthened(mc, n)
<1>1. mc \in Cells /\ mc.alloc \in Nat
    BY DEF Block, Cells
<1>2. CASE n > mc.alloc
    BY <1>2 DEF SetLen, TruncMc, Lengthened
<1>3. CASE ~ (n > mc.alloc)
    <2> DEFINE p == Poke(mc.data, n, <<NUL>>)
    <2>1. /\ TruncMc(n) = [mc EXCEPT !.data = p, !.length = n]
          /\ SetLen(n) = [TruncMc(n) EXCEPT !.length = n]
          /\ Lengthened(mc, n) = [[mc EXCEPT !.data = p] EXCEPT !.length = n]
        BY <1>3 DEF SetLen, TruncMc, Lengthened
    <2> HIDE DEF p
    <2>2. TruncMc(n) = [alloc |-> mc.alloc, length |-> n, data |-> p]
        BY <1>1, <2>1 DEF Cells
    <2>3. Lengthened(mc, n) = [alloc |-> mc.alloc, length |-> n, data |-> p]
        BY <1>1, <2>1 DEF Cells
    <2>4. SetLen(n) = [alloc |-> mc.alloc, length |-> n, data |-> p]
        BY <2>1, <2>2
    <2> QED
        BY <2>2, <2>3, <2>4
<1> QED
    BY <1>2, <1>3

(* HXmc_setlen, whoever calls it. *)
LEMMA SetLenStep ==
    ASSUME McInv, mc # NoMc, NEW n \in Nat, mc' = SetLen(n), txt' = Stretch(txt, n),
           raw' = (n > mc.alloc), call' = Idle \/ (call' \in Calls /\ call'.size = n)
    PROVE  McInv'
<1> DEFINE l == Lengthened(mc, n)
<1>1. Block(mc) /\ Holds(mc, txt) /\ mc.alloc \in Nat
    BY Facts
<1>2. mc' = l
    BY <1>1, SetLenIs
<1>3. Block(l) /\ l.length = n /\ (n > mc.alloc \/ Closed(l))
    BY <1>1, LengthenedKeeps
<1>4. Holds(l, Stretch(txt, n))
    BY <1>1, StretchHolds
<1> HIDE DEF l
<1>5. raw' \in BOOLEAN /\ (raw' \/ Closed(l))
    <2> DEFINE beyond == n > mc.alloc
    <2>1. beyond \in BOOLEAN /\ (beyond \/ Closed(l))
        BY <1>3
    <2>2. raw' = beyond
        OBVIOUS
    <2> HIDE DEF beyond
    <2> QED
        BY <2>1, <2>2
<1>6. call' = Idle \/ (call' \in Calls /\ call'.size <= l.alloc)
    BY <1>3 DEF Block
<1> QED
    BY <1>2, <1>3, <1>4, <1>5, <1>6, Settles

(* HXmc_trunc. *)
LEMMA TruncStep ==
    ASSUME McAssumption, McInv, call = Idle, NEW n \in 0 .. MaxLen, HXmc_trunc(n)
    PROVE  McInv'
<1>1. mc # NoMc /\ call' = Idle /\ n \in Nat
    BY DEF HXmc_trunc, McAssumption
<1>2. Block(mc) /\ Holds(mc, txt) /\ mc.alloc \in Nat
    BY <1>1, Facts
<1>3. CASE NoMem(n)
    BY <1>1, <1>3, NoMemKeeps
<1>4. CASE mc' = TruncMc(n) /\ n > mc.alloc /\ UNCHANGED <<txt, raw>>
    <2>1. mc' = Room(mc, n) /\ UNCHANGED <<call, txt, raw>>
        BY <1>1, <1>4 DEF TruncMc
    <2> QED
        BY <1>1, <2>1, RoomStep
<1>5. CASE mc' = TruncMc(n) /\ ~ (n > mc.alloc) /\ Keep(Stretch(txt, n))
    <2> DEFINE l == Lengthened(mc, n)
    <2>1. mc' = l /\ txt' = Stretch(txt, n) /\ raw' = FALSE
        BY <1>1, <1>2, <1>5, SetLenIs DEF Keep
    <2>2. Block(l) /\ Closed(l)
        BY <1>1, <1>2, <1>5, LengthenedKeeps
    <2>3. Holds(l, Stretch(txt, n))
        BY <1>1, <1>2, StretchHolds
    <2> HIDE DEF l
    <2> QED
        BY <1>1, <2>1, <2>2, <2>3, Settles
<1> QED
    BY <1>3, <1>4, <1>5 DEF HXmc_trunc

-----------------------------------------------------------------------------
(* HX_readlink and HX_getcwd.                                              *)

(* The call begins with a container of its own or with the caller's. *)
LEMMA AnswerStep ==
    ASSUME McAssumption, McInv, call = Idle, NEW s \in Strings,
           NEW op \in {"readlink", "getcwd"}, AnswerBegin(op, s)
    PROVE  McInv'
<1>1. s \in Seq(Bytes) /\ Chunk \in Nat
    BY StringType DEF McAssumption
<1>2. CASE NoMem(Chunk) /\ UNCHANGED call
    BY <1>2, NoMemKeeps
<1>3. CASE /\ mc' = Fill(Room(NoMc, Chunk), 0, <<>>)
           /\ call' = [op |-> op, s |-> s, size |-> Chunk, allocate |-> TRUE]
           /\ Keep(<<>>)
    <2> DEFINE none == <<>>
               r == Room(NoMc, Chunk)
               f == Fill(r, 0, none)
    <2>1. Block(r) /\ r.alloc = Chunk
        BY <1>1, RoomNew
    <2>2. none \in Seq(Vals) /\ Len(none) = 0 /\ Len(none) <= r.alloc
        BY <1>1, <2>1
    <2>3. mc' = f /\ txt' = none /\ raw' = FALSE
        BY <1>3 DEF Keep
    <2> HIDE DEF none, r
    <2>4. Block(f) /\ Closed(f) /\ Holds(f, none)
        BY <2>1, <2>2, FilledHolds
    <2>5. f.alloc = r.alloc
        <3> DEFINE z == 0
        <3>1. z \in Nat /\ z + Len(none) <= r.alloc
            BY <1>1, <2>1, <2>2
        <3> HIDE DEF z
        <3>2. Fill(r, z, none).alloc = r.alloc
            BY <2>1, <2>2, <3>1, FillKeeps
        <3> QED
            BY <3>2 DEF z
    <2> HIDE DEF f
    <2>6. call' \in Calls /\ call'.size <= f.alloc
        BY <1>1, <1>3, <2>1, <2>5 DEF Calls
    <2> QED
        BY <2>3, <2>4, <2>6, Settles
<1>4. CASE /\ mc # NoMc /\ UNCHANGED <<mc, txt, raw>>
           /\ call' = [op |-> op, s |-> s, size |-> mc.length, allocate |-> FALSE]
    <2>1. /\ Block(mc) /\ Holds(mc, txt) /\ (raw \/ Closed(mc)) /\ raw \in BOOLEAN
          /\ mc.length \in Nat /\ mc.length <= mc.alloc
        BY <1>4, Facts DEF McInv, McTypeOK
    <2>2. call' \in Calls /\ call'.size <= mc.alloc
        BY <1>1, <1>4, <2>1 DEF Calls
    <2> QED
        BY <1>4, <2>1, <2>2, Settles
<1>5. CASE /\ mc # NoMc /\ mc' = SetLen(Chunk) /\ txt' = Stretch(txt, Chunk)
           /\ raw' = (Chunk > mc.alloc)
           /\ call' = [op |-> op, s |-> s, size |-> Chunk, allocate |-> FALSE]
    <2>1. call' \in Calls /\ call'.size = Chunk
        BY <1>1, <1>5 DEF Calls
    <2> QED
        BY <1>1, <1>5, <2>1, SetLenStep
<1> QED
    BY <1>2, <1>3, <1>4, <1>5 DEF AnswerBegin

(* What is known while the kernel answers. *)
LEMMA CallFacts ==
    ASSUME McInv, call.op # "none"
    PROVE  /\ call \in Calls /\ call.s \in Seq(Bytes) /\ call.s \in Seq(Vals)
           /\ Len(call.s) \in Nat /\ call.size \in Nat /\ call.allocate \in BOOLEAN
           /\ mc # NoMc /\ call.size <= mc.alloc
<1>1. call # Idle
    BY DEF Idle
<1>2. call \in Calls /\ mc # NoMc /\ call.size <= mc.alloc
    BY <1>1 DEF McInv, McTypeOK, CallOK
<1>3. call.s \in Seq(Bytes) /\ call.size \in Nat /\ call.allocate \in BOOLEAN
    BY <1>2 DEF Calls
<1>4. Bytes \subseteq Vals
    BY DEF Vals
<1> QED
    BY <1>2, <1>3, <1>4

(* The answer fits. *)
LEMMA FitsStep ==
    ASSUME McInv, AnswerFits
    PROVE  McInv'
<1> DEFINE s == call.s
<1>1. /\ call.op # "none" /\ Len(s) < call.size /\ mc' = Fill(mc, 0, s)
      /\ txt' = s /\ raw' = FALSE /\ call' = Idle
    BY DEF AnswerFits, Keep
<1>2. s \in Seq(Vals) /\ Len(s) \in Nat /\ call.size \in Nat /\ mc # NoMc /\ call.size <= mc.alloc
    BY <1>1, CallFacts
<1>3. Block(mc) /\ mc.alloc \in Nat
    BY <1>2, Facts
<1> HIDE DEF s
<1>4. Len(s) <= mc.alloc
    BY <1>1, <1>2, <1>3
<1>5. Block(Fill(mc, 0, s)) /\ Closed(Fill(mc, 0, s)) /\ Holds(Fill(mc, 0, s), s)
    BY <1>2, <1>3, <1>4, FilledHolds
<1> QED
    BY <1>1, <1>5, Settles

(* The call fails. *)
LEMMA FailsStep ==
    ASSUME McInv, AnswerFails
    PROVE  McInv'
<1>1. call.op # "none" /\ call' = Idle
    BY DEF AnswerFails
<1>2. mc # NoMc
    BY <1>1, CallFacts
<1>3. CASE mc' = NoMc /\ Keep(<<>>)
    <2>1. txt' = <<>> /\ raw' = FALSE /\ <<>> \in Seq(Vals)
        BY <1>3 DEF Keep
    <2> QED
        BY <1>1, <1>3, <2>1 DEF McInv, McTypeOK, Kept, CallOK
<1>4. CASE txt' = Stretch(<<>>, mc.length) /\ UNCHANGED <<mc, raw>>
    <2>1. Block(mc) /\ mc.length \in Nat /\ (raw \/ Closed(mc)) /\ raw \in BOOLEAN
        BY <1>2, Facts DEF McInv, McTypeOK
    <2>2. Holds(mc, Stretch(<<>>, mc.length))
        BY <2>1, NothingHolds
    <2> QED
        BY <1>1, <1>4, <2>1, <2>2, Settles
<1> QED
    BY <1>3, <1>4 DEF AnswerFails

(* The answer does not fit, and the container is made twice as large. *)
LEMMA GrowsStep ==
    ASSUME McInv, AnswerGrows
    PROVE  McInv'
<1> DEFINE w == SubSeq(Answer, 1, call.size)
           d == Poke(mc.data, 0, w)
           written == [mc EXCEPT !.data = d]
           n == 2 * call.size
           l == Lengthened(written, n)
<1>1. call.op # "none" /\ Len(call.s) >= call.size
    BY DEF AnswerGrows
<1>2. /\ call \in Calls /\ call.s \in Seq(Vals) /\ Len(call.s) \in Nat /\ call.size \in Nat
      /\ mc # NoMc /\ call.size <= mc.alloc
    BY <1>1, CallFacts
<1>3. /\ Block(mc) /\ mc \in Cells /\ mc.alloc \in Nat /\ mc.length \in Nat
      /\ mc.data \in Seq(Vals) /\ mc.length <= mc.alloc /\ Len(mc.data) = mc.alloc + 1
    BY <1>2, Facts
<1>4. /\ mc' = [IF n > mc.alloc THEN Room(written, n)
                ELSE [written EXCEPT !.data = Poke(@, n, <<NUL>>)] EXCEPT !.length = n]
      /\ txt' = Stretch(<<>>, n) /\ raw' = (n > mc.alloc) /\ call' = [call EXCEPT !.size = n]
    BY DEF AnswerGrows
<1>5. Answer \in Seq(Vals) /\ Len(Answer) >= call.size /\ Len(Answer) \in Nat
    <2>1. NUL \in Vals
        BY DEF Vals
    <2>2. Append(call.s, NUL) \in Seq(Vals) /\ Len(Append(call.s, NUL)) = Len(call.s) + 1
        BY <1>2, <2>1
    <2> QED
        BY <1>1, <1>2, <2>2 DEF Answer
<1>6. w \in Seq(Vals) /\ Len(w) = call.size
    BY <1>2, <1>5
<1> HIDE DEF w
<1>7. d \in Seq(Vals) /\ Len(d) = mc.alloc + 1
    <2> DEFINE z == 0
    <2>1. z \in Nat /\ z + Len(w) <= Len(mc.data)
        BY <1>2, <1>3, <1>6
    <2> HIDE DEF z
    <2>2. Poke(mc.data, z, w) \in Seq(Vals) /\ Len(Poke(mc.data, z, w)) = Len(mc.data)
        BY <1>3, <1>6, <2>1, PokeInside
    <2> QED
        BY <1>3, <2>2 DEF z
<1> HIDE DEF d
<1>8. Block(written) /\ written.alloc = mc.alloc
    <2>1. written \in Cells /\ written.alloc = mc.alloc /\ written.length = mc.length /\ written.data = d
        BY <1>3, <1>7 DEF Cells
    <2> QED
        BY <1>3, <1>7, <2>1 DEF Block
<1>9. n \in Nat
    BY <1>2
<1>10. mc' = l
    BY <1>4, <1>8 DEF Lengthened
<1> HIDE DEF written, n
<1>11. Block(l) /\ l.length = n /\ (n > mc.alloc \/ Closed(l))
    BY <1>8, <1>9, LengthenedKeeps
<1> HIDE DEF l
<1>12. Holds(l, Stretch(<<>>, n))
    BY <1>9, <1>11, NothingHolds
<1>13. raw' \in BOOLEAN /\ (raw' \/ Closed(l))
    <2> DEFINE beyond == n > mc.alloc
    <2>1. beyond \in BOOLEAN /\ (beyond \/ Closed(l))
        BY <1>11
    <2>2. raw' = beyond
        BY <1>4
    <2> HIDE DEF beyond
    <2> QED
        BY <2>1, <2>2
<1>14. call' \in Calls /\ call'.size <= l.alloc
    <2>1. call' \in Calls /\ call'.size = n
        BY <1>2, <1>4, <1>9 DEF Calls
    <2> QED
        BY <1>11, <2>1 DEF Block
<1> QED
    BY <1>4, <1>10, <1>11, <1>12, <1>13, <1>14, Settles

-----------------------------------------------------------------------------
(* The theorem.                                                            *)

(* Every call, and every step of HX_readlink and HX_getcwd, keeps the      *)
(* invariant.                                                              *)
LEMMA McNextInductive ==
    ASSUME McAssumption, McInv, [McNext]_mcvars
    PROVE  McInv'
<1>1. ASSUME call = Idle, NEW s \in Strings,
             \/ HXmc_meminit(s) \/ HXmc_strinit(s) \/ HXmc_memcat(s)
             \/ \E null \in BOOLEAN : HXmc_memcpy(s, null)
             \/ \E pos \in 0 .. MaxLen : HXmc_memins(pos, s)
             \/ \E op \in {"readlink", "getcwd"} : AnswerBegin(op, s)
      PROVE  McInv'
    BY <1>1, InitStep, AppendStep, CopyStep, InsertStep, AnswerStep
<1>2. ASSUME call = Idle, NEW n \in 0 .. MaxLen, NEW pos \in 0 .. MaxLen, HXmc_memdel(pos, n)
      PROVE  McInv'
    BY <1>2, DeleteStep
<1>3. ASSUME call = Idle, NEW n \in 0 .. MaxLen, HXmc_trunc(n)
      PROVE  McInv'
    BY <1>3, TruncStep
<1>4. ASSUME call = Idle, NEW n \in 0 .. MaxLen, HXmc_setlen(n)
      PROVE  McInv'
    <2>1. n \in Nat /\ mc # NoMc /\ call' = Idle
        BY <1>4 DEF HXmc_setlen, McAssumption
    <2>2. CASE NoMem(n)
        BY <1>4, <2>1, <2>2, NoMemKeeps
    <2>3. CASE mc' = SetLen(n) /\ txt' = Stretch(txt, n) /\ raw' = (n > mc.alloc)
        BY <2>1, <2>3, SetLenStep
    <2> QED
        BY <1>4, <2>2, <2>3 DEF HXmc_setlen
<1>5. ASSUME call = Idle, NEW n \in 0 .. MaxLen, MakeRoom(mc.length + n)
      PROVE  McInv'
    <2> DEFINE m == mc.length + n
    <2>1. mc # NoMc /\ mc' = Room(mc, m) /\ UNCHANGED <<call, txt, raw>>
        BY <1>5 DEF MakeRoom
    <2>2. m \in Nat
        <3>1. mc.length \in Nat
            BY <2>1, Facts
        <3> QED
            BY <3>1 DEF McAssumption
    <2> HIDE DEF m
    <2> QED
        BY <1>5, <2>1, <2>2, RoomStep
<1>6. CASE call = Idle /\ HXmc_free
    BY <1>6, FreeStep
<1>7. CASE AnswerFits \/ AnswerFails \/ AnswerGrows
    BY <1>7, FitsStep, FailsStep, GrowsStep
<1>8. CASE UNCHANGED mcvars
    BY <1>8 DEF mcvars, McInv, McTypeOK, Kept, CallOK
<1>9. CASE call = Idle /\ User
    BY <1>1, <1>2, <1>3, <1>4, <1>5, <1>6, <1>9 DEF User
<1> QED
    BY <1>7, <1>8, <1>9 DEF McNext

(* The invariant of the container and of the call that fills it. *)
THEOREM McInductive == ASSUME McAssumption PROVE McSpec => []McInv
<1>1. McInit => McInv
    <2>1. <<>> \in Seq(Vals)
        OBVIOUS
    <2> QED
        BY <2>1 DEF McInit, McInv, McTypeOK, Kept, CallOK
<1>2. McInv /\ [McNext]_mcvars => McInv'
    BY McNextInductive
<1> QED
    BY <1>1, <1>2, PTL DEF McSpec

(* For data of any length and any sequence of calls, each of which may run *)
(* out of memory, no function of mc.c and neither HX_readlink nor          *)
(* HX_getcwd writes beyond the block, and the container holds what the     *)
(* calls promise, terminated unless HXmc_setlen went past what was         *)
(* written.                                                                *)
THEOREM HoldsWhatIsPromised == ASSUME McAssumption PROVE McSpec => []McOK
<1>1. McInv => McOK
    <2> SUFFICES ASSUME McInv, mc # NoMc
                 PROVE  /\ mc.length <= mc.alloc /\ Len(mc.data) = mc.alloc + 1
                        /\ Len(txt) = mc.length
                        /\ \A i \in DOMAIN txt : txt[i] = Junk \/ mc.data[i] = txt[i]
                        /\ raw \/ mc.data[mc.length + 1] = NUL
        BY DEF McOK
    <2> QED
        BY Facts DEF Closed
<1> QED
    BY <1>1, McInductive, PTL

=============================================================================
