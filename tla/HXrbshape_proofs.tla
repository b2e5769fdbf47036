-------------------------- MODULE HXrbshape_proofs --------------------------
(***************************************************************************)
(* Facts about search trees and red-black trees kept as nodes with two     *)
(* child pointers and no parent pointer, and about the operations of map.c *)
(* on them: searching, rotating, and each case of HXrbtree_amov and        *)
(* HXrbtree_dmov.  They are said of any heap h, so that HXrbtree_proofs    *)
(* can use them of the present state and of the next.                      *)
(*                                                                         *)
(* A tree is described by the set L of its nodes and the function T that   *)
(* gives the set of nodes at and below each (Shape, Tree); red-black trees *)
(* by the function B that gives the number of black nodes on every way     *)
(* down, which, at the pointers in the set S, is one short (Balanced);     *)
(* RedFree says where a red node may have a red child.  Adding and         *)
(* Deleting are what HXrbtree_amov and HXrbtree_dmov find at the start of  *)
(* every iteration, Settled is a red-black tree.                           *)
(*                                                                         *)
(* Induction over trees is done with sets: a property is the set of nodes  *)
(* that have it, and the size of the subtree is the rank along which it is *)
(* inherited (RankInd).  Recursive definitions over nodes unfold because   *)
(* the functions they describe exist (RecExists).                          *)
(***************************************************************************)
EXTENDS HXrbtree, FiniteSetTheorems, SequenceTheorems, WellFoundedInduction, TLAPS

-----------------------------------------------------------------------------
(* Search trees as pointers: shape, order and subtrees.                    *)

Dirs == {RBT_LEFT, RBT_RIGHT}

(* Node a is on side d of node b. *)
Side(k, d, a, b) == IF d = RBT_LEFT THEN k[a] < k[b] ELSE k[a] > k[b]

Subs == [Addr -> [Dirs -> Nodes \cup {NULL}]]

(* With the keys k and the pointers s the nodes of L are a search tree, T  *)
(* being the set of nodes below and including each.                        *)
Subtrees(s, L, T) ==
    /\ T \in [L \cup {NULL} -> SUBSET L]
    /\ T[NULL] = {}
    /\ \A n \in L : T[n] = {n} \cup T[s[n][RBT_LEFT]] \cup T[s[n][RBT_RIGHT]]

Ordered(k, s, L, T) ==
    \A n \in L, d \in Dirs : \A m \in T[s[n][d]] : Side(k, d, m, n)

Nested(L, T) == \A n \in L : \A m \in T[n] : T[m] \subseteq T[n]

(* What holds a node holds its parent, but for the node itself. *)
Parents(s, L, T) ==
    \A n \in L, d \in Dirs, m \in L :
        s[n][d] \in T[m] /\ m # s[n][d] => n \in T[m]

Shape(k, s, L, T) ==
    /\ L \subseteq Nodes
    /\ \A n \in L : k[n] \in Int
    /\ s \in Subs
    /\ \A n \in L, d \in Dirs : s[n][d] \in L \cup {NULL}
    /\ s[ROOT][RBT_LEFT] \in L \cup {NULL}
    /\ Subtrees(s, L, T)
    /\ Ordered(k, s, L, T)
    /\ Nested(L, T)
    /\ Parents(s, L, T)
    /\ T[s[ROOT][RBT_LEFT]] = L

(* A pointer of the tree. *)
Slot(L, a, e) == (a \in L /\ e \in Dirs) \/ (a = ROOT /\ e = RBT_LEFT)

(* The two sides of a node, and Other, the mirror image. *)
LEMMA DirFacts ==
    ASSUME NEW d \in Dirs
    PROVE  /\ Other(d) \in Dirs /\ Other(d) # d /\ Other(Other(d)) = d
           /\ Dirs = {d, Other(d)}
           /\ \A e \in Dirs : e # d => e = Other(d)
           /\ RBT_LEFT \in Dirs /\ RBT_RIGHT \in Dirs
BY DEF Dirs, Other, RBT_LEFT, RBT_RIGHT

(* Being on one side of a node in key order is a strict order, and the     *)
(* mirror image of being on the other.                                     *)
LEMMA SideFacts ==
    ASSUME NEW L, NEW k, \A n \in L : k[n] \in Int, NEW d \in Dirs
    PROVE  /\ \A a \in L : ~Side(k, d, a, a)
           /\ \A a, b \in L : Side(k, d, a, b) <=> Side(k, Other(d), b, a)
           /\ \A a, b \in L : ~(Side(k, d, a, b) /\ Side(k, d, b, a))
           /\ \A a, b, c \in L : Side(k, d, a, b) /\ Side(k, d, b, c) => Side(k, d, a, c)
           /\ \A a, b \in L : Side(k, d, a, b) => ~Side(k, Other(d), a, b)
BY DEF Side, Dirs, Other, RBT_LEFT, RBT_RIGHT

(* The set below a node, by either side. *)
LEMMA SubtreeOf ==
    ASSUME RbAssumption, NEW k, NEW s, NEW L, NEW T, Shape(k, s, L, T), NEW n \in L, NEW d \in Dirs
    PROVE  /\ T[n] = {n} \cup T[s[n][d]] \cup T[s[n][Other(d)]]
           /\ n \in T[n] /\ T[n] \subseteq L
           /\ s[n][d] \in L \cup {NULL}
           /\ T[s[n][d]] \subseteq L
           /\ n \notin T[s[n][d]]
           /\ T[s[n][d]] \cap T[s[n][Other(d)]] = {}
<1>1. T[n] = {n} \cup T[s[n][d]] \cup T[s[n][Other(d)]]
  BY DEF Shape, Subtrees, Dirs, Other, RBT_LEFT, RBT_RIGHT
<1>2. n \in T[n] /\ T[n] \subseteq L
  BY <1>1 DEF Shape, Subtrees
<1>3. s[n][d] \in L \cup {NULL} /\ T[s[n][d]] \subseteq L
  BY DEF Shape, Subtrees
<1>4. n \notin T[s[n][d]]
  <2>1. \A a \in L : ~Side(k, d, a, a)
    BY SideFacts DEF Shape
  <2>2. \A m \in T[s[n][d]] : Side(k, d, m, n)
    BY DEF Shape, Ordered
  <2> QED BY <2>1, <2>2
<1>5. T[s[n][d]] \cap T[s[n][Other(d)]] = {}
  <2>1. \A m \in T[s[n][d]] : Side(k, d, m, n) /\ m \in L
    BY <1>3 DEF Shape, Ordered
  <2>2. \A m \in T[s[n][Other(d)]] : Side(k, Other(d), m, n)
    BY DirFacts DEF Shape, Ordered
  <2>3. \A m \in L : Side(k, d, m, n) => ~Side(k, Other(d), m, n)
    <3>1. \A x \in L : k[x] \in Int
      BY DEF Shape
    <3> QED BY <3>1, SideFacts
  <2> QED BY <2>1, <2>2, <2>3
<1> QED BY <1>1, <1>2, <1>3, <1>4, <1>5

(* A child, its subtree and the side it is on. *)
LEMMA Child ==
    ASSUME RbAssumption, NEW k, NEW s, NEW L, NEW T, Shape(k, s, L, T),
           NEW n \in L, NEW d \in Dirs, NEW c \in L, s[n][d] = c
    PROVE  /\ c \in T[n] /\ T[c] \subseteq T[n] /\ n \notin T[c] /\ c # n
           /\ Side(k, d, c, n)
<1>1. c \in T[c]
  BY DirFacts, SubtreeOf
<1>2. c \in T[n] /\ T[c] \subseteq T[n] /\ n \notin T[c]
  BY <1>1, SubtreeOf
<1>3. Side(k, d, c, n)
  BY <1>1 DEF Shape, Ordered
<1> QED BY <1>1, <1>2, <1>3

(* Two nodes below each other are the same node. *)
LEMMA Antisymmetric ==
    ASSUME RbAssumption, NEW k, NEW s, NEW L, NEW T, Shape(k, s, L, T),
           NEW m \in L, NEW n \in L, m \in T[n], n \in T[m]
    PROVE  m = n
<1> SUFFICES ASSUME m # n PROVE FALSE
  OBVIOUS
<1>1. PICK d \in Dirs : m \in T[s[n][d]]
  BY DEF Shape, Subtrees, Dirs
<1>2. s[n][d] \in L
  BY <1>1, SubtreeOf DEF Shape, Subtrees
<1>3. T[m] \subseteq T[s[n][d]]
  BY <1>1, <1>2 DEF Shape, Nested
<1> QED BY <1>3, SubtreeOf

(* Only one pointer of the tree, the one in btree->root included, leads to *)
(* a node.                                                                 *)
LEMMA OneParent ==
    ASSUME RbAssumption, NEW k, NEW s, NEW L, NEW T, Shape(k, s, L, T),
           NEW a, NEW e, NEW b, NEW f, Slot(L, a, e), Slot(L, b, f),
           s[a][e] = s[b][f], s[a][e] \in L
    PROVE  a = b /\ e = f
<1>0. L \subseteq Nodes /\ ROOT \notin L
  BY DEF Shape, RbAssumption
<1>1. ASSUME NEW n \in L, NEW d \in Dirs, s[n][d] = s[ROOT][RBT_LEFT], s[n][d] \in L
      PROVE  FALSE
  <2> DEFINE r == s[n][d]
  <2>1. T[r] = L
    BY <1>1 DEF Shape
  <2>2. n \in T[r]
    BY <2>1
  <2>3. n \notin T[r]
    BY <1>1, Child
  <2> QED BY <2>2, <2>3
<1>1a. \A x \in L, y \in Dirs : T[s[x][y]] \cap T[s[x][Other(y)]] = {}
  BY SubtreeOf
<1>2. ASSUME NEW n \in L, NEW m \in L, NEW d \in Dirs, NEW g \in Dirs, s[n][d] = s[m][g], s[n][d] \in L
      PROVE  n = m /\ d = g
  <2> DEFINE c == s[n][d]
  <2>1. c \in T[n] /\ c # n /\ c \in T[m] /\ c # m
    BY <1>2, Child
  <2>2. m \in T[n] /\ n \in T[m]
    BY <2>1, <1>2 DEF Shape, Parents
  <2>3. n = m
    BY <2>2, Antisymmetric
  <2>4. d = g
    <3>1. SUFFICES ASSUME d # g PROVE FALSE
      OBVIOUS
    <3>2. g = Other(d)
      BY <3>1, DirFacts
    <3>3. c \in T[c]
      BY <1>2, DirFacts, SubtreeOf
    <3>4. T[s[n][d]] \cap T[s[n][Other(d)]] = {}
      BY <1>1a
    <3> QED BY <3>2, <3>3, <3>4, <2>3, <1>2
  <2> QED BY <2>3, <2>4
<1> QED BY <1>0, <1>1, <1>2 DEF Slot

-----------------------------------------------------------------------------
(* What the pointer operations do to a search tree: rotation.              *)

(* s1 is s after c, the child of n on side d, has taken the place of n in  *)
(* the slot e of a.                                                        *)
Rotated(s, s1, a, e, n, d, c) ==
    /\ s1 \in Subs
    /\ s1[a][e] = c
    /\ s1[n][d] = s[c][Other(d)]
    /\ s1[c][Other(d)] = n
    /\ \A x \in Addr, f \in Dirs :
         <<x, f>> \notin {<<a, e>>, <<n, d>>, <<c, Other(d)>>} => s1[x][f] = s[x][f]

RotatedT(s, T, n, d, c) ==
    [T EXCEPT ![c] = T[n], ![n] = {n} \cup T[s[n][Other(d)]] \cup T[s[c][Other(d)]]]

(* A rotation keeps the tree a search tree with the same nodes. *)
LEMMA RotateShape ==
    ASSUME RbAssumption, NEW k, NEW s, NEW L, NEW T, Shape(k, s, L, T),
           NEW a, NEW e, Slot(L, a, e), NEW n \in L, s[a][e] = n,
           NEW d \in Dirs, NEW c \in L, s[n][d] = c,
           NEW s1, Rotated(s, s1, a, e, n, d, c)
    PROVE  Shape(k, s1, L, RotatedT(s, T, n, d, c))
<1> DEFINE o == Other(d)
           g == s[c][o]
           b == s[c][d]
           q == s[n][o]
           T1 == RotatedT(s, T, n, d, c)
<1>0. /\ L \subseteq Nodes /\ ROOT \notin L /\ NULL \notin L
      /\ s \in Subs /\ s1 \in Subs
      /\ \A x \in L : k[x] \in Int
      /\ a \in Addr /\ e \in Dirs /\ o \in Dirs /\ o # d /\ Dirs = {d, o} /\ Other(o) = d
      /\ L \subseteq Addr /\ ROOT \in Addr
  BY DirFacts DEF Shape, RbAssumption, Slot, Addr, Rotated
<1>1. /\ c # n /\ n \notin T[c] /\ c \in T[n] /\ T[c] \subseteq T[n]
      /\ Side(k, d, c, n)
  BY Child
<1>2. a # n /\ a # c
  <2>1. CASE a = ROOT
    BY <2>1, <1>0
  <2>2. CASE a \in L
    <3>1. n \in T[a] /\ n # a
      BY <1>0, <2>2, Child
    <3> QED BY <3>1, <1>1
  <2> QED BY <2>1, <2>2 DEF Slot
<1>3. /\ T[n] = {n} \cup T[c] \cup T[q] /\ T[c] = {c} \cup T[b] \cup T[g]
      /\ q \in L \cup {NULL} /\ b \in L \cup {NULL} /\ g \in L \cup {NULL}
      /\ n \notin T[q] /\ c \notin T[b] /\ c \notin T[g]
      /\ T[c] \cap T[q] = {} /\ T[b] \cap T[g] = {}
      /\ T[NULL] = {}
  <2>1. /\ T[n] = {n} \cup T[c] \cup T[q] /\ T[c] \cap T[q] = {}
    BY SubtreeOf
  <2>2. q \in L \cup {NULL} /\ n \notin T[q]
    BY <1>0, SubtreeOf
  <2>3. T[c] = {c} \cup T[b] \cup T[g] /\ T[b] \cap T[g] = {} /\ b \in L \cup {NULL} /\ c \notin T[b]
    BY SubtreeOf
  <2>4. g \in L \cup {NULL} /\ c \notin T[g]
    BY <1>0, SubtreeOf
  <2>5. T[NULL] = {}
    BY DEF Shape, Subtrees
  <2> QED BY <2>1, <2>2, <2>3, <2>4, <2>5
<1>4. /\ T1[c] = T[n] /\ T1[n] = {n} \cup T[q] \cup T[g]
      /\ \A x \in L \cup {NULL} : x # c /\ x # n => T1[x] = T[x]
      /\ T1 \in [L \cup {NULL} -> SUBSET L]
      /\ T1[NULL] = {}
  <2>1. T \in [L \cup {NULL} -> SUBSET L]
    BY DEF Shape, Subtrees
  <2>2. T[n] \subseteq L /\ T[q] \subseteq L /\ T[g] \subseteq L
    BY <2>1, <1>3
  <2> QED BY <2>1, <2>2, <1>0, <1>1, <1>3 DEF RotatedT
<1>5. /\ s1[n][d] = g /\ s1[n][o] = q /\ s1[c][d] = b /\ s1[c][o] = n
      /\ s1[a][e] = c
      /\ \A x \in Addr, f \in Dirs : x # n /\ x # c /\ ~(x = a /\ f = e) => s1[x][f] = s[x][f]
  <2>1. n \in Addr /\ c \in Addr
    BY <1>0
  <2>2. /\ <<n, o>> \notin {<<a, e>>, <<n, d>>, <<c, o>>}
        /\ <<c, d>> \notin {<<a, e>>, <<n, d>>, <<c, o>>}
    BY <1>0, <1>1, <1>2
  <2> QED BY <2>1, <2>2, <1>0 DEF Rotated
<1>6. T1[g] = T[g] /\ T1[q] = T[q] /\ T1[b] = T[b]
  <2>1. g # c /\ q # c /\ b # c
    BY <1>3, <1>0, Child, SubtreeOf
  <2>2. g # n /\ q # n /\ b # n
    <3>1. \A x \in L : x \in T[x]
      BY <1>0, SubtreeOf
    <3> QED BY <1>1, <1>3, <3>1
  <2> QED BY <2>1, <2>2, <1>3, <1>4
(* Nobody else points to n or c. *)
<1>7. ASSUME NEW x \in L, NEW f \in Dirs, x # n, x # c, ~(x = a /\ f = e)
      PROVE  s[x][f] # n /\ s[x][f] # c /\ s1[x][f] = s[x][f] /\ s[x][f] \in L \cup {NULL}
                /\ T1[s[x][f]] = T[s[x][f]]
  <2>1. Slot(L, x, f) /\ Slot(L, n, d)
    BY <1>0 DEF Slot
  <2>2. s[x][f] # n
    BY <2>1, <1>7, OneParent
  <2>3. s[x][f] # c
    BY <2>1, <1>7, OneParent
  <2>4. s1[x][f] = s[x][f] /\ s[x][f] \in L \cup {NULL}
    BY <1>0, <1>5, <1>7 DEF Shape
  <2> QED BY <2>2, <2>3, <2>4, <1>4
<1>8. \A x \in L, f \in Dirs : s1[x][f] \in L \cup {NULL}
  <2> TAKE x \in L, f \in Dirs
  <2>1. s[x][f] \in L \cup {NULL} /\ x \in Addr
    BY DEF Shape, Addr
  <2> QED BY <2>1, <1>0, <1>3, <1>5
<1>9. s1[ROOT][RBT_LEFT] \in L \cup {NULL} /\ T1[s1[ROOT][RBT_LEFT]] = L
  <2>1. CASE a = ROOT
    <3>1. e = RBT_LEFT
      BY <2>1, <1>0 DEF Slot
    <3> QED BY <2>1, <3>1, <1>4, <1>5 DEF Shape
  <2>2. CASE a \in L
    <3>1. s1[ROOT][RBT_LEFT] = s[ROOT][RBT_LEFT]
      BY <1>0, <1>5, <2>2, DirFacts
    <3>2. s[ROOT][RBT_LEFT] # n /\ s[ROOT][RBT_LEFT] # c
      <4>1. Slot(L, ROOT, RBT_LEFT) /\ Slot(L, n, d)
        BY DEF Slot
      <4>2. s[ROOT][RBT_LEFT] # n
        BY <4>1, <2>2, <1>0, OneParent
      <4>3. s[ROOT][RBT_LEFT] # c
        BY <4>1, <1>0, OneParent
      <4> QED BY <4>2, <4>3
    <3> QED BY <3>1, <3>2, <1>4 DEF Shape
  <2> QED BY <2>1, <2>2 DEF Slot
<1>10. \A x \in L : T1[x] = {x} \cup T1[s1[x][RBT_LEFT]] \cup T1[s1[x][RBT_RIGHT]]
  <2> TAKE x \in L
  <2>0. Dirs = {RBT_LEFT, RBT_RIGHT}
    BY DEF Dirs
  <2>1. CASE x = n
    <3>1. T1[n] = {n} \cup T1[s1[n][d]] \cup T1[s1[n][o]]
      BY <1>4, <1>5, <1>6
    <3> QED BY <2>0, <2>1, <3>1, <1>0
  <2>2. CASE x = c
    <3>1. T1[c] = {c} \cup T1[s1[c][d]] \cup T1[s1[c][o]]
      BY <1>3, <1>4, <1>5, <1>6
    <3> QED BY <2>0, <2>2, <3>1, <1>0
  <2>3. CASE x # n /\ x # c
    <3>1. \A f \in Dirs : T1[s1[x][f]] = T[s[x][f]]
      <4> TAKE f \in Dirs
      <4>1. CASE x = a /\ f = e
        BY <4>1, <1>4, <1>5
      <4>2. CASE ~(x = a /\ f = e)
        BY <4>2, <2>3, <1>7
      <4> QED BY <4>1, <4>2
    <3>2. T[x] = {x} \cup T[s[x][RBT_LEFT]] \cup T[s[x][RBT_RIGHT]]
      BY DEF Shape, Subtrees
    <3> QED BY <2>0, <2>3, <3>1, <3>2, <1>4
  <2> QED BY <2>1, <2>2, <2>3
<1>11. Subtrees(s1, L, T1)
  BY <1>4, <1>10 DEF Subtrees
<1>12. ASSUME NEW x \in L, NEW f \in Dirs, NEW m \in T1[s1[x][f]]
       PROVE  Side(k, f, m, x)
  <2>0. /\ \A y \in T[c] : Side(k, d, y, n) /\ y \in L
        /\ \A y \in T[q] : Side(k, o, y, n) /\ y \in L
        /\ \A y \in T[b] : Side(k, d, y, c) /\ y \in L
        /\ \A y \in T[g] : Side(k, o, y, c) /\ y \in L
    BY <1>0, <1>3 DEF Shape, Ordered, Subtrees
  <2>00. Side(k, o, n, c)
    BY <1>0, <1>1, SideFacts
  <2>1. CASE x = n /\ f = d
    BY <2>1, <2>0, <1>3, <1>5, <1>6, <1>12
  <2>2. CASE x = n /\ f = o
    BY <2>2, <2>0, <1>5, <1>6, <1>12
  <2>3. CASE x = c /\ f = d
    BY <2>3, <2>0, <1>5, <1>6, <1>12
  <2>4. CASE x = c /\ f = o
    <3>1. m \in {n} \cup T[q] \cup T[g]
      BY <2>4, <1>4, <1>5, <1>12
    <3>2. m \in T[q] => Side(k, o, m, c)
      <4>1. \A u, v, w \in L : Side(k, o, u, v) /\ Side(k, o, v, w) => Side(k, o, u, w)
        BY <1>0, SideFacts
      <4> QED BY <4>1, <2>0, <2>00
    <3> QED BY <3>1, <3>2, <2>0, <2>00, <2>4
  <2>5. CASE x # n /\ x # c
    <3>1. T1[s1[x][f]] = T[s[x][f]]
      <4>1. CASE x = a /\ f = e
        BY <4>1, <1>4, <1>5
      <4>2. CASE ~(x = a /\ f = e)
        BY <4>2, <2>5, <1>7
      <4> QED BY <4>1, <4>2
    <3> QED BY <3>1, <1>12 DEF Shape, Ordered
  <2> QED BY <2>1, <2>2, <2>3, <2>4, <2>5, <1>0
<1>13. Nested(L, T1)
  <2> SUFFICES ASSUME NEW y \in L, NEW x \in T1[y] PROVE T1[x] \subseteq T1[y]
    BY DEF Nested
  <2>0. /\ \A z \in L : \A m \in T[z] : T[m] \subseteq T[z]
        /\ x \in L /\ T1[n] \subseteq T[n]
    BY <1>1, <1>3, <1>4 DEF Shape, Nested
  <2>1. CASE y = c
    <3>1. x \in T[n]
      BY <2>1, <1>4
    <3>2. T[x] \subseteq T[n]
      BY <2>0, <3>1
    <3>3. T1[x] \subseteq T[n]
      BY <2>0, <3>2, <1>4
    <3> QED BY <2>1, <3>3, <1>4
  <2>2. CASE y = n
    <3>1. x \in {n} \cup T[q] \cup T[g]
      BY <2>2, <1>4
    <3>2. x # c
      BY <3>1, <1>1, <1>3
    <3>3. CASE x = n
      BY <3>3, <2>2
    <3>4. CASE x # n /\ x \in T[q]
      <4>1. q \in L
        BY <3>4, <1>3
      <4> QED BY <4>1, <3>4, <3>2, <2>0, <2>2, <1>4
    <3>5. CASE x # n /\ x \in T[g]
      <4>1. g \in L
        BY <3>5, <1>3
      <4> QED BY <4>1, <3>5, <3>2, <2>0, <2>2, <1>4
    <3> QED BY <3>1, <3>3, <3>4, <3>5
  <2>3. CASE y # n /\ y # c
    <3>1. T1[y] = T[y] /\ x \in T[y]
      BY <2>3, <1>4
    <3>2. CASE x = c
      <4>1. n \in T[y]
        BY <3>1, <3>2, <2>3 DEF Shape, Parents
      <4> QED BY <4>1, <3>1, <3>2, <2>0, <1>4
    <3>3. CASE x = n
      BY <3>1, <3>3, <2>0
    <3>4. CASE x # n /\ x # c
      BY <3>1, <3>4, <2>0, <1>4
    <3> QED BY <3>2, <3>3, <3>4
  <2> QED BY <2>1, <2>2, <2>3
<1>14. ASSUME NEW x \in L, NEW f \in Dirs, NEW m \in L,
              s1[x][f] \in T1[m], m # s1[x][f]
       PROVE  x \in T1[m]
  <2> DEFINE z == s1[x][f]
  <2>0. /\ \A y \in L, h \in Dirs, w \in L : s[y][h] \in T[w] /\ w # s[y][h] => y \in T[w]
        /\ \A w \in L : \A y \in T[w] : T[y] \subseteq T[w]
        /\ \A y \in L : y \in T[y]
        /\ z \in L
        /\ NULL \notin T1[m]
    <3>1. \A y \in L, h \in Dirs, w \in L : s[y][h] \in T[w] /\ w # s[y][h] => y \in T[w]
      BY DEF Shape, Parents
    <3>2. \A w \in L : \A y \in T[w] : T[y] \subseteq T[w]
      BY DEF Shape, Nested
    <3>3. \A y \in L : y \in T[y]
      BY <1>0, SubtreeOf
    <3> QED BY <3>1, <3>2, <3>3, <1>0, <1>4, <1>8, <1>14
  <2>1. CASE x = n
    <3>1. m = c => n \in T1[m]
      BY <1>4, <1>1, <2>0
    <3>2. m = n => n \in T1[m]
      BY <1>4
    <3>3. CASE m # c /\ m # n
      <4>1. T1[m] = T[m]
        BY <3>3, <1>4
      <4>2. CASE f = d
        <5>1. c \in T[m]
          BY <4>1, <4>2, <2>1, <1>0, <1>5, <2>0, <1>14
        <5> QED BY <5>1, <4>1, <3>3, <2>0, <2>1
      <4>3. CASE f = o
        BY <4>1, <4>3, <2>1, <1>0, <1>5, <2>0, <1>14
      <4> QED BY <4>2, <4>3, <1>0
    <3> QED BY <3>1, <3>2, <3>3, <2>1
  <2>2. CASE x = c /\ f = d
    <3>1. m = c => c \in T1[m]
      BY <1>4, <1>1, <2>0
    <3>2. m # n
      <4>1. b \in T[b] /\ b \in T[c] /\ b # n
        BY <2>0, <2>2, <1>5, <1>3, <1>1
      <4>2. b \notin T[q] /\ b \notin T[g]
        BY <4>1, <1>3
      <4> QED BY <4>1, <4>2, <1>4, <1>5, <1>14, <2>2
    <3>3. CASE m # c /\ m # n
      BY <3>3, <1>4, <1>5, <2>0, <2>2, <1>14
    <3> QED BY <3>1, <3>2, <3>3, <2>2
  <2>3. CASE x = c /\ f = o
    <3>1. z = n /\ m # n
      BY <2>3, <1>5, <1>14
    <3>2. m = c => c \in T1[m]
      BY <1>4, <1>1
    <3>3. CASE m # c
      BY <3>3, <3>1, <1>4, <1>1, <2>0, <2>3, <1>14
    <3> QED BY <3>2, <3>3, <2>3
  <2>4. CASE x = a /\ f = e
    <3>1. z = c /\ m # c
      BY <2>4, <1>5, <1>14
    <3>2. m # n
      BY <3>1, <1>4, <1>1, <1>3, <1>14
    <3>3. c \in T[m]
      BY <3>1, <3>2, <1>4, <1>14
    <3>4. n \in T[m]
      BY <3>3, <3>1, <2>0
    <3>5. a \in T[m]
      BY <3>4, <3>2, <2>0, <2>4
    <3> QED BY <3>5, <3>1, <3>2, <1>4, <2>4
  <2>5. CASE x # n /\ x # c /\ ~(x = a /\ f = e)
    <3>1. z # n /\ z # c /\ z = s[x][f] /\ T1[z] = T[z]
      BY <2>5, <1>7
    <3>2. CASE m = c
      <4>1. z \in T[n]
        BY <3>2, <1>4, <1>14
      <4> QED BY <4>1, <3>1, <3>2, <2>0, <1>4
    <3>3. CASE m = n
      <4>1. z \in T[q] \/ z \in T[g]
        BY <3>3, <3>1, <1>4, <1>14
      <4>2. Slot(L, x, f) /\ Slot(L, n, o) /\ Slot(L, c, o)
        BY <1>0 DEF Slot
      <4>3. z # q /\ z # g
        BY <4>2, <2>5, <3>1, <2>0, OneParent
      <4>4. z \in T[q] => q \in L /\ x \in T[q]
        BY <4>3, <3>1, <2>0, <1>3
      <4>5. z \in T[g] => g \in L /\ x \in T[g]
        BY <4>3, <3>1, <2>0, <1>3
      <4> QED BY <4>1, <4>4, <4>5, <3>3, <1>4
    <3>4. CASE m # c /\ m # n
      BY <3>4, <3>1, <1>4, <2>0, <1>14
    <3> QED BY <3>2, <3>3, <3>4
  <2> QED BY <2>1, <2>2, <2>3, <2>4, <2>5, <1>0
<1> HIDE DEF T1
<1>15. Ordered(k, s1, L, T1)
  BY <1>12 DEF Ordered
<1>16. Parents(s1, L, T1)
  BY <1>14 DEF Parents
<1>17. Shape(k, s1, L, T1)
  BY <1>0, <1>8, <1>9, <1>11, <1>13, <1>15, <1>16 DEF Shape
<1> QED BY <1>17 DEF T1

-----------------------------------------------------------------------------
(* Insertion of a leaf.                                                    *)

(* s1 is s with x, a node without children, in the free slot d of p. *)
Inserted(s, s1, p, d, x) ==
    /\ s1 \in Subs
    /\ s1[p][d] = x
    /\ \A f \in Dirs : s1[x][f] = NULL
    /\ \A y \in Addr, f \in Dirs : y # x /\ ~(y = p /\ f = d) => s1[y][f] = s[y][f]

InsertedT(T, L, p, x) ==
    [m \in L \cup {x, NULL} |->
        IF m = x THEN {x} ELSE IF p \in T[m] THEN T[m] \cup {x} ELSE T[m]]

(* Hanging a new leaf where the search for its key ended keeps the tree a  *)
(* search tree.                                                            *)
LEMMA InsertShape ==
    ASSUME RbAssumption, NEW k, NEW s, NEW L, NEW T, Shape(k, s, L, T),
           NEW p, NEW d, Slot(L, p, d), s[p][d] = NULL,
           NEW x \in Nodes, x \notin L, NEW k1, k1[x] \in Int, \A m \in L : k1[m] = k[m],
           p \in L => Side(k1, d, x, p),
           \A m \in L, f \in Dirs : p \in T[s[m][f]] => Side(k1, f, x, m),
           NEW s1, Inserted(s, s1, p, d, x)
    PROVE  Shape(k1, s1, L \cup {x}, InsertedT(T, L, p, x))
<1> DEFINE L1 == L \cup {x}
           T1 == InsertedT(T, L, p, x)
<1>0. /\ L \subseteq Nodes /\ ROOT \notin L /\ NULL \notin L /\ x # ROOT /\ x # NULL /\ x # p
      /\ s \in Subs /\ s1 \in Subs
      /\ L1 \subseteq Addr /\ ROOT \in Addr /\ p \in Addr /\ d \in Dirs
      /\ \A m \in L1 : k1[m] \in Int
  BY DEF Shape, RbAssumption, Slot, Addr, Inserted, Dirs
<1>1. /\ T \in [L \cup {NULL} -> SUBSET L] /\ T[NULL] = {}
      /\ \A n \in L, f \in Dirs : s[n][f] \in L \cup {NULL}
      /\ \A n \in L : n \in T[n]
      /\ s[ROOT][RBT_LEFT] \in L \cup {NULL}
      /\ T[s[ROOT][RBT_LEFT]] = L
      /\ \A n \in L : \A m \in T[n] : T[m] \subseteq T[n]
  BY DEF Shape, Subtrees, Nested
<1>2. /\ T1 \in [L1 \cup {NULL} -> SUBSET L1]
      /\ T1[x] = {x} /\ T1[NULL] = {}
      /\ \A m \in L : T1[m] = IF p \in T[m] THEN T[m] \cup {x} ELSE T[m]
  <2>1. L1 \cup {NULL} = L \cup {x, NULL}
    OBVIOUS
  <2> QED BY <1>0, <1>1, <2>1 DEF InsertedT
<1>3. /\ s1[p][d] = x
      /\ \A f \in Dirs : s1[x][f] = NULL
      /\ \A m \in L, f \in Dirs : ~(m = p /\ f = d) => s1[m][f] = s[m][f]
  BY <1>0 DEF Inserted
<1>4. ASSUME NEW n \in L, NEW f \in Dirs
      PROVE  T1[s1[n][f]] = IF (n = p /\ f = d) \/ p \in T[s[n][f]]
                            THEN T[s[n][f]] \cup {x} ELSE T[s[n][f]]
  <2>1. CASE n = p /\ f = d
    <3>1. T[s[n][f]] = {}
      BY <2>1, <1>1
    <3> QED BY <2>1, <3>1, <1>2, <1>3
  <2>2. CASE ~(n = p /\ f = d)
    <3>1. s1[n][f] = s[n][f] /\ s[n][f] \in L \cup {NULL}
      BY <2>2, <1>1, <1>3
    <3>2. CASE s[n][f] = NULL
      BY <2>2, <3>1, <3>2, <1>1, <1>2
    <3>3. CASE s[n][f] \in L
      BY <2>2, <3>1, <3>3, <1>2
    <3> QED BY <3>1, <3>2, <3>3
  <2> QED BY <2>1, <2>2
<1>5. s1[ROOT][RBT_LEFT] \in L1 \cup {NULL} /\ T1[s1[ROOT][RBT_LEFT]] = L1
  <2>1. CASE p = ROOT
    <3>1. d = RBT_LEFT
      BY <2>1, <1>0 DEF Slot
    <3>2. L = {}
      BY <2>1, <3>1, <1>1
    <3> QED BY <2>1, <3>1, <3>2, <1>2, <1>3
  <2>2. CASE p \in L
    <3>1. s1[ROOT][RBT_LEFT] = s[ROOT][RBT_LEFT]
      BY <2>2, <1>0 DEF Inserted, Dirs
    <3>2. s[ROOT][RBT_LEFT] \in L /\ p \in T[s[ROOT][RBT_LEFT]]
      BY <2>2, <1>1
    <3> QED BY <3>1, <3>2, <1>1, <1>2
  <2> QED BY <2>1, <2>2 DEF Slot
<1>6. \A n \in L1, f \in Dirs : s1[n][f] \in L1 \cup {NULL}
  BY <1>0, <1>1, <1>3
<1>7. \A n \in L1 : T1[n] = {n} \cup T1[s1[n][RBT_LEFT]] \cup T1[s1[n][RBT_RIGHT]]
  <2> TAKE n \in L1
  <2>0. RBT_LEFT \in Dirs /\ RBT_RIGHT \in Dirs
    BY DEF Dirs
  <2>1. CASE n = x
    BY <2>0, <2>1, <1>2, <1>3
  <2>2. CASE n \in L
    <3>1. T[n] = {n} \cup T[s[n][RBT_LEFT]] \cup T[s[n][RBT_RIGHT]]
      BY <2>2 DEF Shape, Subtrees
    <3>2. T1[n] = IF p \in T[n] THEN T[n] \cup {x} ELSE T[n]
      BY <2>2, <1>2
    <3>3. p \in T[n] <=> \/ p = n
                         \/ p \in T[s[n][RBT_LEFT]] \/ p \in T[s[n][RBT_RIGHT]]
      BY <3>1
    <3>4. p = n => d = RBT_LEFT \/ d = RBT_RIGHT
      BY <1>0 DEF Dirs
    <3>5. /\ T1[s1[n][RBT_LEFT]] = IF (n = p /\ RBT_LEFT = d) \/ p \in T[s[n][RBT_LEFT]]
                            THEN T[s[n][RBT_LEFT]] \cup {x} ELSE T[s[n][RBT_LEFT]]
          /\ T1[s1[n][RBT_RIGHT]] = IF (n = p /\ RBT_RIGHT = d) \/ p \in T[s[n][RBT_RIGHT]]
                            THEN T[s[n][RBT_RIGHT]] \cup {x} ELSE T[s[n][RBT_RIGHT]]
      BY <2>0, <2>2, <1>4
    <3> HIDE DEF T1
    <3> QED BY <3>1, <3>2, <3>3, <3>4, <3>5
  <2> QED BY <2>1, <2>2
<1>8. ASSUME NEW n \in L1, NEW f \in Dirs, NEW m \in T1[s1[n][f]]
      PROVE  Side(k1, f, m, n)
  <2>1. n # x
    BY <1>2, <1>3, <1>8
  <2>2. n \in L
    BY <2>1
  <2>3. CASE m = x
    <3>1. (n = p /\ f = d) \/ p \in T[s[n][f]]
      <4>1. x \notin T[s[n][f]]
        BY <2>2, <1>1
      <4> QED BY <4>1, <2>2, <2>3, <1>4, <1>8
    <3> QED BY <3>1, <2>2, <2>3
  <2>4. CASE m # x
    <3>1. m \in T[s[n][f]]
      <4>1. m \in T[s[n][f]] \cup {x}
        BY <2>2, <1>4, <1>8
      <4> QED BY <4>1, <2>4
    <3>2. Side(k, f, m, n) /\ m \in L
      BY <3>1, <2>2, <1>1 DEF Shape, Ordered
    <3> QED BY <3>2, <2>2 DEF Side
  <2> QED BY <2>3, <2>4
<1>9. ASSUME NEW n \in L1, NEW m \in T1[n] PROVE T1[m] \subseteq T1[n]
  <2>1. CASE n = x
    BY <2>1, <1>2, <1>9
  <2>2. CASE n \in L /\ m = x
    BY <2>2, <1>2, <1>9
  <2>3. CASE n \in L /\ m # x
    <3>1. m \in T[n] /\ m \in L /\ T[m] \subseteq T[n]
      BY <2>3, <1>1, <1>2, <1>9
    <3> QED BY <3>1, <2>3, <1>2
  <2> QED BY <2>1, <2>2, <2>3
<1>10. ASSUME NEW n \in L1, NEW f \in Dirs, NEW m \in L1, s1[n][f] \in T1[m], m # s1[n][f]
       PROVE  n \in T1[m]
  <2>0. NULL \notin T1[m]
    BY <1>0, <1>2
  <2>1. n \in L
    BY <2>0, <1>3, <1>10
  <2>2. CASE n = p /\ f = d
    <3>1. m # x /\ x \in T1[m]
      BY <2>2, <1>3, <1>10
    <3>2. m \in L /\ p \in T[m]
      <4>1. m \in L
        BY <3>1
      <4>2. x \notin T[m]
        BY <4>1, <1>1
      <4> QED BY <4>1, <4>2, <3>1, <1>2
    <3> QED BY <3>2, <2>2, <1>2
  <2>3. CASE ~(n = p /\ f = d)
    <3>1. s1[n][f] = s[n][f] /\ s[n][f] \in L
      BY <2>0, <2>1, <2>3, <1>1, <1>3, <1>10
    <3>2. m # x
      BY <3>1, <1>2, <1>10
    <3>3. m \in L /\ s[n][f] \in T[m] /\ m # s[n][f]
      BY <3>1, <3>2, <1>2, <1>10
    <3>4. n \in T[m]
      BY <3>3, <2>1 DEF Shape, Parents
    <3> QED BY <3>3, <3>4, <1>2
  <2> QED BY <2>2, <2>3
<1> HIDE DEF T1, L1
<1>11. /\ Subtrees(s1, L1, T1)
  BY <1>2, <1>7 DEF Subtrees
<1>12. Ordered(k1, s1, L1, T1)
  BY <1>8 DEF Ordered
<1>13. Nested(L1, T1)
  BY <1>9 DEF Nested
<1>14. Parents(s1, L1, T1)
  BY <1>10 DEF Parents
<1>15. L1 \subseteq Nodes
  BY <1>0 DEF L1
<1>16. Shape(k1, s1, L1, T1)
  BY <1>0, <1>5, <1>6, <1>11, <1>12, <1>13, <1>14, <1>15 DEF Shape
<1> QED BY <1>16 DEF L1, T1

-----------------------------------------------------------------------------
(* Removal and replacement of a node.                                      *)

(* s1 is s with the slot e of a led past n, to its child on side d. *)
Removed(s, s1, a, e, n, d) ==
    /\ s1 \in Subs
    /\ s1[a][e] = s[n][d]
    /\ \A y \in Addr, f \in Dirs : ~(y = a /\ f = e) => s1[y][f] = s[y][f]

RemovedT(T, L, n) == [m \in (L \ {n}) \cup {NULL} |-> T[m] \ {n}]

(* Taking out a node with at most one child, which takes its place, keeps  *)
(* the tree a search tree.                                                 *)
LEMMA RemoveShape ==
    ASSUME RbAssumption, NEW k, NEW s, NEW L, NEW T, Shape(k, s, L, T),
           NEW a, NEW e, Slot(L, a, e), NEW n \in L, s[a][e] = n,
           NEW d \in Dirs, s[n][Other(d)] = NULL,
           NEW s1, Removed(s, s1, a, e, n, d)
    PROVE  Shape(k, s1, L \ {n}, RemovedT(T, L, n))
<1> DEFINE L1 == L \ {n}
           T1 == RemovedT(T, L, n)
           c == s[n][d]
<1>0. /\ L \subseteq Nodes /\ ROOT \notin L /\ NULL \notin L
      /\ s \in Subs /\ s1 \in Subs
      /\ L \subseteq Addr /\ L1 \subseteq Addr /\ ROOT \in Addr /\ a \in Addr /\ e \in Dirs
      /\ \A m \in L1 : k[m] \in Int
  BY DEF Shape, RbAssumption, Slot, Addr, Removed, Dirs
<1>1. /\ T \in [L \cup {NULL} -> SUBSET L] /\ T[NULL] = {}
      /\ \A y \in L, f \in Dirs : s[y][f] \in L \cup {NULL}
      /\ \A y \in L : y \in T[y]
      /\ s[ROOT][RBT_LEFT] \in L \cup {NULL}
      /\ T[s[ROOT][RBT_LEFT]] = L
      /\ \A y \in L : \A m \in T[y] : T[m] \subseteq T[y]
  BY DEF Shape, Subtrees, Nested
<1>2. /\ T1 \in [L1 \cup {NULL} -> SUBSET L1]
      /\ T1[NULL] = {}
      /\ \A m \in L1 \cup {NULL} : T1[m] = T[m] \ {n}
  BY <1>0, <1>1 DEF RemovedT
<1>3. T[n] = {n} \cup T[c] /\ n \notin T[c] /\ c \in L \cup {NULL} /\ c # n
  <2>1. T[n] = {n} \cup T[c] \cup T[NULL] /\ n \notin T[c] /\ c \in L \cup {NULL}
    BY SubtreeOf
  <2> QED BY <2>1, <1>0, <1>1
<1>4. a # n
  <2>1. CASE a = ROOT
    BY <2>1, <1>0
  <2>2. CASE a \in L
    BY <2>2, <1>0, Child
  <2> QED BY <2>1, <2>2 DEF Slot
<1>5. ASSUME NEW y, NEW f, Slot(L, y, f)
      PROVE  /\ ~(y = a /\ f = e) => s1[y][f] = s[y][f] /\ s1[y][f] # n
             /\ y = a /\ f = e => s1[y][f] = c
             /\ y # n => s1[y][f] \in L1 \cup {NULL} /\ T1[s1[y][f]] = T[s[y][f]] \ {n}
  <2>1. CASE y = a /\ f = e
    <3>1. s1[y][f] = c /\ c \in L1 \cup {NULL}
      BY <2>1, <1>3 DEF Removed
    <3>2. T1[c] = T[c] \ {n}
      BY <3>1, <1>2
    <3>3. T1[c] = T[n] \ {n}
      BY <3>2, <1>3
    <3> QED BY <2>1, <3>1, <3>3
  <2>2. CASE ~(y = a /\ f = e)
    <3>1. y \in Addr /\ f \in Dirs /\ s[y][f] \in L \cup {NULL}
      BY <1>0, <1>1, <1>5 DEF Slot, Dirs
    <3>2. s1[y][f] = s[y][f]
      BY <2>2, <3>1 DEF Removed
    <3>3. s[y][f] # n
      BY <2>2, <1>5, OneParent
    <3> QED BY <2>2, <3>1, <3>2, <3>3, <1>2
  <2> QED BY <2>1, <2>2
<1>6. s1[ROOT][RBT_LEFT] \in L1 \cup {NULL} /\ T1[s1[ROOT][RBT_LEFT]] = L1
  BY <1>0, <1>1, <1>5 DEF Slot
<1>7. \A y \in L1, f \in Dirs : s1[y][f] \in L1 \cup {NULL}
  BY <1>5 DEF Slot
<1>8. \A y \in L1 : T1[y] = {y} \cup T1[s1[y][RBT_LEFT]] \cup T1[s1[y][RBT_RIGHT]]
  <2> TAKE y \in L1
  <2>1. Slot(L, y, RBT_LEFT) /\ Slot(L, y, RBT_RIGHT)
    BY DEF Slot, Dirs
  <2>2. T[y] = {y} \cup T[s[y][RBT_LEFT]] \cup T[s[y][RBT_RIGHT]]
    BY DEF Shape, Subtrees
  <2>3. T1[s1[y][RBT_LEFT]] = T[s[y][RBT_LEFT]] \ {n} /\ T1[s1[y][RBT_RIGHT]] = T[s[y][RBT_RIGHT]] \ {n}
    BY <2>1, <1>5
  <2>4. T1[y] = T[y] \ {n}
    BY <1>2
  <2> HIDE DEF T1
  <2> QED BY <2>2, <2>3, <2>4
<1>9. ASSUME NEW y \in L1, NEW f \in Dirs, NEW m \in T1[s1[y][f]]
      PROVE  Side(k, f, m, y)
  <2>1. m \in T[s[y][f]]
    BY <1>5, <1>9 DEF Slot
  <2> QED BY <2>1 DEF Shape, Ordered
<1>10. ASSUME NEW y \in L1, NEW m \in T1[y] PROVE T1[m] \subseteq T1[y]
  <2>1. m \in T[y] /\ m \in L1
    BY <1>2, <1>10
  <2>2. T[m] \subseteq T[y]
    BY <2>1, <1>1
  <2> QED BY <2>1, <2>2, <1>2
<1>11. ASSUME NEW y \in L1, NEW f \in Dirs, NEW m \in L1, s1[y][f] \in T1[m], m # s1[y][f]
       PROVE  y \in T1[m]
  <2>0. /\ \A z \in L, h \in Dirs, w \in L : s[z][h] \in T[w] /\ w # s[z][h] => z \in T[w]
    BY DEF Shape, Parents
  <2>1. s1[y][f] \in T[m]
    BY <1>2, <1>11
  <2>2. CASE y = a /\ f = e
    <3>1. c \in T[m] /\ m # c
      BY <2>1, <2>2, <1>5, <1>11 DEF Slot
    <3>2. n \in T[m]
      BY <2>0, <3>1
    <3>3. y \in T[m]
      BY <2>0, <2>2, <3>2
    <3> QED BY <3>3, <1>2
  <2>3. CASE ~(y = a /\ f = e)
    <3>1. s1[y][f] = s[y][f]
      BY <2>3, <1>5 DEF Slot
    <3> QED BY <3>1, <2>0, <2>1, <1>2, <1>11
  <2> QED BY <2>2, <2>3
<1> HIDE DEF T1, L1
<1>12. Subtrees(s1, L1, T1)
  BY <1>2, <1>8 DEF Subtrees
<1>13. Ordered(k, s1, L1, T1)
  BY <1>9 DEF Ordered
<1>14. Nested(L1, T1)
  BY <1>10 DEF Nested
<1>15. Parents(s1, L1, T1)
  BY <1>11 DEF Parents
<1>16. L1 \subseteq Nodes
  BY <1>0 DEF L1
<1>17. Shape(k, s1, L1, T1)
  BY <1>0, <1>6, <1>7, <1>12, <1>13, <1>14, <1>15, <1>16 DEF Shape
<1> QED BY <1>17 DEF L1, T1

(* s1 is s with x, a node outside the tree, in the place of n. *)
Replaced(s, s1, a, e, n, x) ==
    /\ s1 \in Subs
    /\ s1[a][e] = x
    /\ \A f \in Dirs : s1[x][f] = s[n][f]
    /\ \A y \in Addr, f \in Dirs : y # x /\ y # n /\ ~(y = a /\ f = e) => s1[y][f] = s[y][f]

Swapped(S, n, x) == IF n \in S THEN (S \ {n}) \cup {x} ELSE S

ReplacedT(T, L, n, x) ==
    [m \in (L \ {n}) \cup {x, NULL} |-> Swapped(T[IF m = x THEN n ELSE m], n, x)]

(* Putting another node, with a key between the same neighbours, in the    *)
(* place of one keeps the tree a search tree.                              *)
LEMMA ReplaceShape ==
    ASSUME RbAssumption, NEW k, NEW s, NEW L, NEW T, Shape(k, s, L, T),
           NEW a, NEW e, Slot(L, a, e), NEW n \in L, s[a][e] = n,
           NEW x \in Nodes, x \notin L, k[x] \in Int,
           \A f \in Dirs : \A m \in T[s[n][f]] : Side(k, f, m, x),
           \A m \in L, f \in Dirs : n \in T[s[m][f]] => Side(k, f, x, m),
           NEW s1, Replaced(s, s1, a, e, n, x)
    PROVE  Shape(k, s1, (L \ {n}) \cup {x}, ReplacedT(T, L, n, x))
<1> DEFINE L1 == (L \ {n}) \cup {x}
           T1 == ReplacedT(T, L, n, x)
<1>0. /\ L \subseteq Nodes /\ ROOT \notin L /\ NULL \notin L /\ x # NULL /\ x # ROOT /\ x # n
      /\ s \in Subs /\ s1 \in Subs
      /\ L \subseteq Addr /\ L1 \subseteq Addr /\ ROOT \in Addr /\ a \in Addr /\ e \in Dirs
      /\ \A m \in L1 : k[m] \in Int
      /\ RBT_LEFT \in Dirs /\ RBT_RIGHT \in Dirs
  BY DEF Shape, RbAssumption, Slot, Addr, Replaced, Dirs
<1>1. /\ T \in [L \cup {NULL} -> SUBSET L] /\ T[NULL] = {}
      /\ \A y \in L, f \in Dirs : s[y][f] \in L \cup {NULL}
      /\ \A y \in L : y \in T[y]
      /\ s[ROOT][RBT_LEFT] \in L \cup {NULL}
      /\ T[s[ROOT][RBT_LEFT]] = L
      /\ \A y \in L : \A m \in T[y] : T[m] \subseteq T[y]
  BY DEF Shape, Subtrees, Nested
<1>2. /\ T1 \in [L1 \cup {NULL} -> SUBSET L1]
      /\ T1[NULL] = {}
      /\ T1[x] = (T[n] \ {n}) \cup {x}
      /\ \A m \in (L \ {n}) \cup {NULL} : T1[m] = Swapped(T[m], n, x)
  <2>1. L1 \cup {NULL} = (L \ {n}) \cup {x, NULL}
    OBVIOUS
  <2>2. \A m \in L \cup {NULL} : Swapped(T[m], n, x) \in SUBSET L1
    BY <1>1 DEF Swapped
  <2>3. T1 \in [L1 \cup {NULL} -> SUBSET L1]
    BY <2>1, <2>2 DEF ReplacedT
  <2>4. \A m \in (L \ {n}) \cup {NULL} : T1[m] = Swapped(T[m], n, x)
    BY <2>1, <1>0 DEF ReplacedT
  <2>5. T1[x] = Swapped(T[n], n, x)
    BY <2>1 DEF ReplacedT
  <2> QED BY <2>3, <2>4, <2>5, <1>0, <1>1 DEF Swapped
<1>3. a # n /\ a # x
  <2>1. CASE a = ROOT
    BY <2>1, <1>0
  <2>2. CASE a \in L
    BY <2>2, <1>0, Child
  <2> QED BY <2>1, <2>2 DEF Slot
<1>4. \A f \in Dirs : n \notin T[s[n][f]]
  BY SubtreeOf
<1>5. ASSUME NEW y, NEW f, Slot(L, y, f), y # n
      PROVE  /\ ~(y = a /\ f = e) => s1[y][f] = s[y][f] /\ s1[y][f] # n
             /\ y = a /\ f = e => s1[y][f] = x
             /\ s1[y][f] \in L1 \cup {NULL} /\ T1[s1[y][f]] = Swapped(T[s[y][f]], n, x)
  <2>1. CASE y = a /\ f = e
    <3>1. s1[y][f] = x
      BY <2>1 DEF Replaced
    <3>2. Swapped(T[n], n, x) = (T[n] \ {n}) \cup {x}
      BY <1>1 DEF Swapped
    <3> QED BY <2>1, <3>1, <3>2, <1>2
  <2>2. CASE ~(y = a /\ f = e)
    <3>1. y \in Addr /\ f \in Dirs /\ s[y][f] \in L \cup {NULL} /\ y # x
      BY <1>0, <1>1, <1>5 DEF Slot
    <3>2. s1[y][f] = s[y][f]
      BY <2>2, <3>1, <1>5 DEF Replaced
    <3>3. s[y][f] # n
      BY <2>2, <1>5, OneParent
    <3> QED BY <2>2, <3>1, <3>2, <3>3, <1>2
  <2> QED BY <2>1, <2>2
<1>6. ASSUME NEW f \in Dirs
      PROVE  /\ s1[x][f] = s[n][f] /\ s1[x][f] \in L1 \cup {NULL}
             /\ T1[s1[x][f]] = T[s[n][f]]
  <2>1. s1[x][f] = s[n][f] /\ s[n][f] \in L \cup {NULL}
    BY <1>1 DEF Replaced
  <2>2. s[n][f] # n
    BY <1>1, <1>4
  <2>3. T1[s[n][f]] = Swapped(T[s[n][f]], n, x)
    BY <2>1, <2>2, <1>2
  <2> QED BY <2>1, <2>2, <2>3, <1>4 DEF Swapped
<1>7. s1[ROOT][RBT_LEFT] \in L1 \cup {NULL} /\ T1[s1[ROOT][RBT_LEFT]] = L1
  BY ZenonT(30), <1>0, <1>1, <1>5 DEF Slot, Swapped
<1>8. \A y \in L1, f \in Dirs : s1[y][f] \in L1 \cup {NULL}
  BY <1>5, <1>6 DEF Slot
<1>9. \A y \in L1 : T1[y] = {y} \cup T1[s1[y][RBT_LEFT]] \cup T1[s1[y][RBT_RIGHT]]
  <2> TAKE y \in L1
  <2>1. CASE y = x
    <3>1. T[n] = {n} \cup T[s[n][RBT_LEFT]] \cup T[s[n][RBT_RIGHT]]
      BY DEF Shape, Subtrees
    <3>2. n \notin T[s[n][RBT_LEFT]] /\ n \notin T[s[n][RBT_RIGHT]]
      BY <1>0, <1>4
    <3> QED BY <2>1, <3>1, <3>2, <1>0, <1>2, <1>6
  <2>2. CASE y # x
    <3>1. Slot(L, y, RBT_LEFT) /\ Slot(L, y, RBT_RIGHT) /\ y \in L /\ y # n
      BY <2>2 DEF Slot, Dirs
    <3>2. T[y] = {y} \cup T[s[y][RBT_LEFT]] \cup T[s[y][RBT_RIGHT]]
      BY <3>1 DEF Shape, Subtrees
    <3>3. T1[s1[y][RBT_LEFT]] = Swapped(T[s[y][RBT_LEFT]], n, x)
             /\ T1[s1[y][RBT_RIGHT]] = Swapped(T[s[y][RBT_RIGHT]], n, x)
      BY <3>1, <1>5
    <3>4. T1[y] = Swapped(T[y], n, x)
      BY <3>1, <1>2
    <3> HIDE DEF T1
    <3> QED BY <3>1, <3>2, <3>3, <3>4 DEF Swapped
  <2> QED BY <2>1, <2>2
<1>10. ASSUME NEW y \in L1, NEW f \in Dirs, NEW m \in T1[s1[y][f]]
       PROVE  Side(k, f, m, y)
  <2>1. CASE y = x
    BY <2>1, <1>6, <1>10
  <2>2. CASE y # x
    <3>1. m \in Swapped(T[s[y][f]], n, x)
      BY <2>2, <1>5, <1>10 DEF Slot
    <3>2. CASE m \in T[s[y][f]]
      BY <2>2, <3>2 DEF Shape, Ordered
    <3>3. CASE m = x /\ n \in T[s[y][f]]
      BY <2>2, <3>3
    <3> QED BY <3>1, <3>2, <3>3 DEF Swapped
  <2> QED BY <2>1, <2>2
<1>11. ASSUME NEW y \in L1, NEW m \in T1[y] PROVE T1[m] \subseteq T1[y]
  <2> DEFINE oy == IF y = x THEN n ELSE y
             om == IF m = x THEN n ELSE m
  <2>1. oy \in L /\ T1[y] = Swapped(T[oy], n, x)
    BY <1>1, <1>2 DEF Swapped
  <2>2. om \in T[oy] /\ m \in L1
    BY <2>1, <1>1, <1>2, <1>11 DEF Swapped
  <2>3. T1[m] = Swapped(T[om], n, x)
    BY <2>2, <1>1, <1>2 DEF Swapped
  <2>4. T[om] \subseteq T[oy]
    BY <2>1, <2>2, <1>1
  <2> QED BY <2>1, <2>3, <2>4 DEF Swapped
<1>12. ASSUME NEW y \in L1, NEW f \in Dirs, NEW m \in L1, s1[y][f] \in T1[m], m # s1[y][f]
       PROVE  y \in T1[m]
  <2> DEFINE oy == IF y = x THEN n ELSE y
             om == IF m = x THEN n ELSE m
             oc == IF s1[y][f] = x THEN n ELSE s1[y][f]
  <2>0. /\ \A z \in L, h \in Dirs, w \in L : s[z][h] \in T[w] /\ w # s[z][h] => z \in T[w]
    BY DEF Shape, Parents
  <2>1. oy \in L /\ om \in L /\ T1[m] = Swapped(T[om], n, x)
    BY <1>1, <1>2 DEF Swapped
  <2>2. s[oy][f] = oc
    <3>1. CASE y = x
      <4>1. s1[y][f] = s[n][f] /\ s[n][f] # x
        BY <3>1, <1>0, <1>1, <1>6
      <4> QED BY <3>1, <4>1
    <3>2. CASE y # x /\ ~(y = a /\ f = e)
      <4>1. s1[y][f] = s[y][f] /\ s[y][f] # x
        BY <3>2, <1>0, <1>1, <1>5 DEF Slot
      <4> QED BY <3>2, <4>1
    <3>3. CASE y # x /\ (y = a /\ f = e)
      BY <3>3, <1>5 DEF Slot
    <3> QED BY <3>1, <3>2, <3>3
  <2>3. oc \in T[om]
    BY <2>1, <1>12, <1>1, <1>0 DEF Swapped
  <2>4. om # oc
    <3>1. s1[y][f] # n
      BY <1>8, <1>0, <1>12, <1>2
    <3> QED BY <3>1, <1>12
  <2>5. oy \in T[om]
    BY <2>0, <2>1, <2>2, <2>3, <2>4
  <2> QED BY <2>1, <2>5 DEF Swapped
<1> HIDE DEF T1, L1
<1>13. Subtrees(s1, L1, T1)
  BY <1>2, <1>9 DEF Subtrees
<1>14. Ordered(k, s1, L1, T1)
  BY <1>10 DEF Ordered
<1>15. Nested(L1, T1)
  BY <1>11 DEF Nested
<1>16. Parents(s1, L1, T1)
  BY <1>12 DEF Parents
<1>17. L1 \subseteq Nodes
  BY <1>0 DEF L1
<1>18. Shape(k, s1, L1, T1)
  BY <1>0, <1>7, <1>8, <1>13, <1>14, <1>15, <1>16, <1>17 DEF Shape
<1> QED BY <1>18 DEF L1, T1

-----------------------------------------------------------------------------
(* Induction and recursion over trees.                                     *)

(* A set of naturals that is not empty has a least element. *)
LEMMA LeastNat ==
    ASSUME NEW S \in SUBSET Nat, S # {}
    PROVE  \E x \in S : \A y \in S : x <= y
<1>1. PICK x \in S : \A y \in S : ~(<<y, x>> \in OpToRel(<, Nat))
  BY NatLessThanWellFounded, WFMin
<1>2. ASSUME NEW y \in S PROVE x <= y
  <2>1. <<y, x>> \in Nat \X Nat /\ ~(<<y, x>> \in {ss \in Nat \X Nat : ss[1] < ss[2]})
    BY <1>1 DEF OpToRel
  <2> QED BY <2>1
<1> QED BY <1>2

(* Induction over the naturals, said of a set. *)
LEMMA NatInd ==
    ASSUME NEW P, 0 \in P, \A n \in Nat : n \in P => n + 1 \in P
    PROVE  \A n \in Nat : n \in P
<1> DEFINE S == Nat \ P
<1>1. SUFFICES ASSUME S # {} PROVE FALSE
  OBVIOUS
<1>2. S \in SUBSET Nat
  OBVIOUS
<1> HIDE DEF S
<1>3. PICK x \in S : \A y \in S : x <= y
  BY <1>1, <1>2, LeastNat
<1> USE DEF S
<1>4. x # 0 /\ x \in Nat
  OBVIOUS
<1>5. x - 1 \in Nat /\ x - 1 \in P
  BY <1>3, <1>4
<1>6. (x - 1) + 1 \in P
  BY <1>5
<1> QED BY <1>4, <1>6

(* Induction along a rank, said of a set. *)
LEMMA RankInd ==
    ASSUME NEW S, NEW rank \in [S -> Nat], NEW P,
           \A m \in S : (\A x \in S : rank[x] < rank[m] => x \in P) => m \in P
    PROVE  \A m \in S : m \in P
<1> DEFINE B == {m \in S : m \notin P}
           N == {rank[m] : m \in B}
<1>1. SUFFICES ASSUME B # {} PROVE FALSE
  OBVIOUS
<1>2. N \in SUBSET Nat /\ N # {}
  BY <1>1
<1> HIDE DEF N
<1>3. PICK r \in N : \A y \in N : r <= y
  BY <1>2, LeastNat
<1>4. PICK m \in B : rank[m] = r
  BY <1>3 DEF N
<1>5. \A x \in S : rank[x] < rank[m] => x \in P
  <2> TAKE x \in S
  <2>1. x \in B => rank[x] \in N
    BY DEF N
  <2>2. rank[x] \in Nat /\ rank[m] \in Nat
    OBVIOUS
  <2> QED BY <2>1, <2>2, <1>3, <1>4
<1> QED BY <1>4, <1>5

Recursive(f, S, V, E, e, a, b, G) ==
    /\ f \in [S -> V]
    /\ \A m \in S : f[m] = IF m \in E THEN e ELSE G[<<f[a[m]], f[b[m]], m>>]

(* A function defined by recursion on two smaller arguments exists when a  *)
(* rank with a bound decreases.                                            *)
LEMMA RecExists ==
    ASSUME NEW S, NEW V, NEW E, NEW e \in V, NEW a \in [S -> S], NEW b \in [S -> S],
           NEW G \in [V \X V \X S -> V], NEW R \in Nat, NEW rank \in [S -> 0 .. R],
           \A m \in S : m \notin E => rank[a[m]] < rank[m] /\ rank[b[m]] < rank[m]
    PROVE  \E f : Recursive(f, S, V, E, e, a, b, G)
<1> DEFINE D(f) == [m \in S |-> IF m \in E THEN e ELSE G[<<f[a[m]], f[b[m]], m>>]]
           Q(r) == \E f \in [S -> V] : \A m \in S : rank[m] < r => f[m] = D(f)[m]
           P == {r \in Nat : Q(r)}
<1>1. 0 \in P
  <2>1. [m \in S |-> e] \in [S -> V]
    OBVIOUS
  <2>2. \A m \in S : ~(rank[m] < 0)
    OBVIOUS
  <2> QED BY <2>1, <2>2
<1>2. ASSUME NEW r \in Nat, r \in P PROVE r + 1 \in P
  <2>1. PICK f \in [S -> V] : \A m \in S : rank[m] < r => f[m] = D(f)[m]
    BY <1>2
  <2> DEFINE g == D(f)
  <2>2. g \in [S -> V]
    OBVIOUS
  <2>3. ASSUME NEW m \in S, rank[m] < r + 1 PROVE g[m] = D(g)[m]
    <3>1. CASE m \in E
      BY <3>1
    <3>2. CASE m \notin E
      <4>1. rank[a[m]] < r /\ rank[b[m]] < r
        <5>1. a[m] \in S /\ b[m] \in S
          OBVIOUS
        <5>2. rank[a[m]] \in Int /\ rank[b[m]] \in Int /\ rank[m] \in Int
          BY <5>1
        <5> QED BY <2>3, <3>2, <5>2
      <4>2. g[a[m]] = f[a[m]] /\ g[b[m]] = f[b[m]]
        BY <2>1, <4>1
      <4>3. g[m] = G[<<f[a[m]], f[b[m]], m>>] /\ D(g)[m] = G[<<g[a[m]], g[b[m]], m>>]
        BY <3>2
      <4> HIDE DEF g
      <4> QED BY <4>2, <4>3
    <3> QED BY <3>1, <3>2
  <2>4. Q(r + 1)
    <3> HIDE DEF g, D
    <3> QED BY <2>2, <2>3
  <2> QED BY <2>4
<1> HIDE DEF P
<1>3. \A r \in Nat : r \in P
  BY <1>1, <1>2, NatInd
<1>4. R + 1 \in Nat
  OBVIOUS
<1>5. Q(R + 1)
  BY <1>3, <1>4 DEF P
<1>6. PICK f \in [S -> V] : \A m \in S : rank[m] < R + 1 => f[m] = D(f)[m]
  BY <1>5
<1>7. \A m \in S : rank[m] < R + 1
  OBVIOUS
<1>8. \A m \in S : f[m] = D(f)[m]
  BY <1>6, <1>7
<1>9. Recursive(f, S, V, E, e, a, b, G)
  BY <1>8 DEF Recursive
<1> QED BY <1>9

(* Nodes outside the tree may still point into it, and nowhere else. *)
Outside(s, L) == \A n \in Nodes \ L, d \in Dirs : s[n][d] \in L \cup {NULL}

(* The height is a rank that decreases along every pointer of a heap that  *)
(* holds a finite tree, so that what the model computes by recursion over  *)
(* nodes is well defined.                                                  *)
LEMMA Ranked ==
    ASSUME RbAssumption, NEW k, NEW s, NEW L, NEW T, Shape(k, s, L, T), Outside(s, L), IsFiniteSet(L)
    PROVE  \E R \in Nat : \E rank \in [Nodes \cup {NULL} -> 0 .. R] :
             \A m \in Nodes, d \in Dirs : s[m][d] \in Nodes \cup {NULL} /\ rank[s[m][d]] < rank[m]
<1> DEFINE R == Cardinality(L) + 1
           rank == [m \in Nodes \cup {NULL} |->
                       IF m = NULL THEN 0 ELSE IF m \in L THEN Cardinality(T[m]) ELSE R]
<1>0. L \subseteq Nodes /\ NULL \notin Nodes
  BY DEF Shape, RbAssumption
<1>1. Cardinality(L) \in Nat
  BY FS_CardinalityType
<1>2. ASSUME NEW m \in L
      PROVE  IsFiniteSet(T[m]) /\ Cardinality(T[m]) \in Nat /\ Cardinality(T[m]) <= Cardinality(L) /\ Cardinality(T[m]) > 0
  <2>1. T[m] \in SUBSET L /\ T[m] # {}
    BY DirFacts, SubtreeOf DEF Shape, Subtrees
  <2>2. IsFiniteSet(T[m]) /\ Cardinality(T[m]) <= Cardinality(L)
    BY <2>1, FS_Subset
  <2>3. Cardinality(T[m]) \in Nat
    BY <2>2, FS_CardinalityType
  <2>4. Cardinality(T[m]) # 0
    BY <2>1, <2>2, FS_EmptySet
  <2> QED BY <2>2, <2>3, <2>4
<1>3. R \in Nat /\ rank \in [Nodes \cup {NULL} -> 0 .. R]
  BY <1>1, <1>2
<1>4. ASSUME NEW m \in Nodes, NEW d \in Dirs
      PROVE  s[m][d] \in Nodes \cup {NULL} /\ rank[s[m][d]] < rank[m]
  <2>1. s[m][d] \in L \cup {NULL} /\ s[m][d] \in Nodes \cup {NULL}
    BY <1>0 DEF Shape, Outside
  <2>2. CASE m \in L
    <3>1. CASE s[m][d] = NULL
      BY <2>2, <3>1, <1>0, <1>1, <1>2
    <3>2. CASE s[m][d] \in L
      <4> DEFINE c == s[m][d]
      <4>1. T[c] \subseteq T[m] /\ m \notin T[c] /\ m \in T[m]
        BY <2>2, <3>2, Child, SubtreeOf
      <4>2. T[c] \in SUBSET T[m] /\ T[c] # T[m]
        BY <4>1
      <4>3. Cardinality(T[c]) <= Cardinality(T[m]) /\ Cardinality(T[c]) # Cardinality(T[m])
        BY <4>2, <1>2, <2>2, FS_Subset
      <4>4. Cardinality(T[c]) \in Nat /\ Cardinality(T[m]) \in Nat
        BY <1>2, <2>2, <3>2
      <4>5. Cardinality(T[c]) < Cardinality(T[m])
        BY <4>3, <4>4
      <4>6. rank[c] = Cardinality(T[c]) /\ rank[m] = Cardinality(T[m])
        BY <3>2, <2>2, <1>0
      <4> HIDE DEF rank
      <4> QED BY <4>5, <4>6, <2>1
    <3> QED BY <2>1, <3>1, <3>2
  <2>3. CASE m \notin L
    <3>1. rank[m] = R
      BY <2>3, <1>0
    <3>2. rank[s[m][d]] < R
      <4>1. CASE s[m][d] = NULL
        BY <4>1, <1>1
      <4>2. CASE s[m][d] \in L
        BY <4>2, <1>0, <1>1, <1>2
      <4> QED BY <2>1, <4>1, <4>2
    <3> HIDE DEF rank
    <3> QED BY <2>1, <3>1, <3>2
  <2> QED BY <2>2, <2>3
<1> HIDE DEF R, rank
<1> QED BY <1>3, <1>4

-----------------------------------------------------------------------------
(* Reading a tree in order.                                                *)

KeyOf(h) == [a \in Addr |-> h[a].key]
SubOf(h) == [a \in Addr |-> h[a].sub]
ColorOf(h) == [a \in Addr |-> h[a].color]

(* The heap holds a tree of the nodes L. *)
Tree(h, L, T) ==
    Shape(KeyOf(h), SubOf(h), L, T) /\ Outside(SubOf(h), L) /\ IsFiniteSet(L)

InOrderFcn ==
    CHOOSE walk : walk = [m \in Nodes \cup {NULL} |->
            IF m = NULL THEN <<>>
            ELSE walk[node[m].sub[RBT_LEFT]] \o <<m>>
                    \o walk[node[m].sub[RBT_RIGHT]]]

(* InOrder is what its recursive definition says. *)
LEMMA InOrderUnfolds ==
    ASSUME RbAssumption, NEW L, NEW T, Tree(node, L, T)
    PROVE  \A m \in Nodes \cup {NULL} :
             InOrder(m) = IF m = NULL THEN <<>>
                          ELSE InOrder(node[m].sub[RBT_LEFT]) \o <<m>>
                                  \o InOrder(node[m].sub[RBT_RIGHT])
<1> DEFINE S == Nodes \cup {NULL}
           V == Seq(S)
           s == SubOf(node)
           a == [m \in S |-> IF m = NULL THEN NULL ELSE s[m][RBT_LEFT]]
           b == [m \in S |-> IF m = NULL THEN NULL ELSE s[m][RBT_RIGHT]]
           G == [x \in V \X V \X S |-> x[1] \o <<x[3]>> \o x[2]]
<1>0. /\ NULL \notin Nodes /\ RBT_LEFT \in Dirs /\ RBT_RIGHT \in Dirs
      /\ \A m \in Nodes : s[m] = node[m].sub
  BY DEF RbAssumption, Dirs, SubOf, Addr
<1> HIDE DEF s
<1>1a. PICK R \in Nat : \E rank \in [S -> 0 .. R] :
         \A m \in Nodes, d \in Dirs : s[m][d] \in S /\ rank[s[m][d]] < rank[m]
  BY Ranked DEF Tree, s
<1>1. PICK rank \in [S -> 0 .. R] :
         \A m \in Nodes, d \in Dirs : s[m][d] \in S /\ rank[s[m][d]] < rank[m]
  BY <1>1a
<1>2. a \in [S -> S] /\ b \in [S -> S]
  BY <1>0, <1>1
<1>3. \A m \in S : m \notin {NULL} => rank[a[m]] < rank[m] /\ rank[b[m]] < rank[m]
  BY <1>0, <1>1
<1>4. G \in [V \X V \X S -> V] /\ <<>> \in V
  OBVIOUS
<1> DEFINE E == {NULL}
           nil == <<>>
<1>5a. nil \in V /\ (\A m \in S : m \notin E => rank[a[m]] < rank[m] /\ rank[b[m]] < rank[m])
  BY <1>3, <1>4
<1> HIDE DEF a, b, G, S, V, E, nil
<1>5b. \E f : Recursive(f, S, V, E, nil, a, b, G)
  BY <1>1, <1>2, <1>4, <1>5a, RecExists
<1>5. PICK f \in [S -> V] :
        \A m \in S : f[m] = IF m \in E THEN nil ELSE G[<<f[a[m]], f[b[m]], m>>]
  BY <1>5b DEF Recursive
<1> USE DEF E, nil, V
<1>6. ASSUME NEW m \in S
      PROVE  f[m] = IF m = NULL THEN <<>>
                    ELSE f[node[m].sub[RBT_LEFT]] \o <<m>> \o f[node[m].sub[RBT_RIGHT]]
  <2>1. CASE m = NULL
    BY <2>1, <1>5
  <2>2. CASE m # NULL
    <3>1. f[m] = G[<<f[a[m]], f[b[m]], m>>]
      BY <2>2, <1>5
    <3>2. f[a[m]] \in V /\ f[b[m]] \in V
      BY <1>2
    <3>3. G[<<f[a[m]], f[b[m]], m>>] = f[a[m]] \o <<m>> \o f[b[m]]
      BY <3>2 DEF G
    <3>4. a[m] = node[m].sub[RBT_LEFT] /\ b[m] = node[m].sub[RBT_RIGHT]
      BY <2>2, <1>0 DEF a, b, S
    <3> QED BY <2>2, <3>1, <3>3, <3>4
  <2> QED BY <2>1, <2>2
<1>7. f = [m \in S |-> IF m = NULL THEN <<>>
                    ELSE f[node[m].sub[RBT_LEFT]] \o <<m>> \o f[node[m].sub[RBT_RIGHT]]]
  BY <1>6
<1>8. InOrderFcn = [m \in S |-> IF m = NULL THEN <<>>
            ELSE InOrderFcn[node[m].sub[RBT_LEFT]] \o <<m>>
                    \o InOrderFcn[node[m].sub[RBT_RIGHT]]]
  BY <1>7 DEF InOrderFcn, S
<1>9. \A m : InOrder(m) = InOrderFcn[m]
  BY DEF InOrder, InOrderFcn
<1> HIDE DEF InOrderFcn
<1>10. \A m \in S : InOrderFcn[m] = IF m = NULL THEN <<>>
            ELSE InOrderFcn[node[m].sub[RBT_LEFT]] \o <<m>>
                    \o InOrderFcn[node[m].sub[RBT_RIGHT]]
  BY <1>8
<1> QED BY <1>9, <1>10 DEF S

(* A sequence of the nodes of a set, each once, in the order of the keys. *)
Sorted(k, q, X) ==
    /\ q \in Seq(X)
    /\ X = {q[i] : i \in 1 .. Len(q)}
    /\ \A i, j \in 1 .. Len(q) : i < j => k[q[i]] < k[q[j]]

(* Two sorted sequences with a node between them in key order make a       *)
(* sorted sequence.                                                        *)
LEMMA SortedJoin ==
    ASSUME NEW k, NEW A, NEW B, NEW m, NEW q, NEW r, Sorted(k, q, A), Sorted(k, r, B),
           \A x \in A \cup B \cup {m} : k[x] \in Int,
           \A x \in A : k[x] < k[m], \A x \in B : k[m] < k[x]
    PROVE  Sorted(k, q \o <<m>> \o r, {m} \cup A \cup B)
<1> DEFINE X == {m} \cup A \cup B
           z == q \o <<m>> \o r
<1>1. /\ q \in Seq(X) /\ r \in Seq(X) /\ <<m>> \in Seq(X)
      /\ \A i \in 1 .. Len(q) : q[i] \in A
      /\ \A i \in 1 .. Len(r) : r[i] \in B
      /\ Len(q) \in Nat /\ Len(r) \in Nat
      /\ A = {q[i] : i \in 1 .. Len(q)} /\ B = {r[i] : i \in 1 .. Len(r)}
      /\ \A i, j \in 1 .. Len(q) : i < j => k[q[i]] < k[q[j]]
      /\ \A i, j \in 1 .. Len(r) : i < j => k[r[i]] < k[r[j]]
  BY DEF Sorted
<1>2. z \in Seq(X) /\ Len(z) = Len(q) + 1 + Len(r)
  BY <1>1
<1>3. \A i \in 1 .. Len(z) : z[i] = IF i <= Len(q) THEN q[i]
                                   ELSE IF i = Len(q) + 1 THEN m ELSE r[i - Len(q) - 1]
  BY <1>1
<1> HIDE DEF z
<1>4. ASSUME NEW i \in 1 .. Len(z), NEW j \in 1 .. Len(z), i < j PROVE k[z[i]] < k[z[j]]
  <2>0. i \in Nat /\ j \in Nat /\ i <= Len(q) + 1 + Len(r) /\ j <= Len(q) + 1 + Len(r) /\ i >= 1 /\ j >= 1
    BY <1>1, <1>2
  <2>1. CASE j <= Len(q)
    BY SMTT(30), <2>0, <2>1, <1>1, <1>3, <1>4
  <2>2. CASE j = Len(q) + 1
    BY SMTT(30), <2>0, <2>2, <1>1, <1>3, <1>4
  <2>3. CASE j > Len(q) + 1
    <3> DEFINE jj == j - Len(q) - 1
    <3>1. jj \in 1 .. Len(r) /\ z[j] = r[jj] /\ r[jj] \in B
      BY <2>0, <2>3, <1>1, <1>3
    <3>2. CASE i <= Len(q)
      <4>1. z[i] = q[i] /\ q[i] \in A
        BY <3>2, <2>0, <1>1, <1>3
      <4>2. k[q[i]] < k[m] /\ k[m] < k[r[jj]] /\ k[q[i]] \in Int /\ k[m] \in Int /\ k[r[jj]] \in Int
        BY <4>1, <3>1
      <4> QED BY <4>1, <4>2, <3>1
    <3>3. CASE i = Len(q) + 1
      BY SMTT(30), <3>1, <3>3, <2>0, <1>1, <1>3
    <3>4. CASE i > Len(q) + 1
      <4> DEFINE ii == i - Len(q) - 1
      <4>1. ii \in 1 .. Len(r) /\ z[i] = r[ii] /\ ii < jj
        BY <3>4, <2>0, <1>1, <1>3, <1>4
      <4> HIDE DEF ii, jj
      <4> QED BY <4>1, <3>1, <1>1
    <3> QED BY <2>0, <1>1, <3>2, <3>3, <3>4
  <2> QED BY <2>0, <1>1, <2>1, <2>2, <2>3
<1>5. X = {z[i] : i \in 1 .. Len(z)}
  <2>1. \A i \in 1 .. Len(z) : z[i] \in X
    BY <1>2
  <2>2. ASSUME NEW x \in X PROVE \E i \in 1 .. Len(z) : z[i] = x
    <3>1. CASE x = m
      <4>1. Len(q) + 1 \in 1 .. Len(z) /\ z[Len(q) + 1] = m
        BY <1>1, <1>2, <1>3
      <4> QED BY <3>1, <4>1
    <3>2. CASE x \in A
      <4>1. PICK i \in 1 .. Len(q) : q[i] = x
        BY <3>2, <1>1
      <4>2. i \in 1 .. Len(z) /\ z[i] = x
        BY <4>1, <1>1, <1>2, <1>3
      <4> QED BY <4>2
    <3>3. CASE x \in B
      <4>1. PICK i \in 1 .. Len(r) : r[i] = x
        BY <3>3, <1>1
      <4> DEFINE j == i + Len(q) + 1
      <4>2. j \in 1 .. Len(z) /\ z[j] = r[j - Len(q) - 1] /\ j - Len(q) - 1 = i
        BY <1>1, <1>2, <1>3
      <4> QED BY <4>1, <4>2
    <3> QED BY <3>1, <3>2, <3>3
  <2> QED BY <2>1, <2>2
<1> QED BY <1>2, <1>4, <1>5 DEF z, Sorted

(* Read in order, a subtree gives each of its nodes once, by increasing    *)
(* key.                                                                    *)
LEMMA InOrderSorted ==
    ASSUME RbAssumption, NEW L, NEW T, Tree(node, L, T), NEW n \in L \cup {NULL}
    PROVE  Sorted(KeyOf(node), InOrder(n), T[n])
<1> DEFINE S == L \cup {NULL}
           s == SubOf(node)
           k == KeyOf(node)
           P == {m \in S : Sorted(k, InOrder(m), T[m])}
<1>0. /\ NULL \notin Nodes /\ NULL \notin L /\ RBT_LEFT \in Dirs /\ RBT_RIGHT \in Dirs
      /\ L \subseteq Nodes
      /\ \A m \in Nodes : s[m] = node[m].sub
      /\ Shape(k, s, L, T)
  BY DEF RbAssumption, Dirs, SubOf, Addr, Tree, Shape
<1> HIDE DEF s, k
<1>1a. PICK R \in Nat : \E rank \in [Nodes \cup {NULL} -> 0 .. R] :
         \A m \in Nodes, d \in Dirs : s[m][d] \in Nodes \cup {NULL} /\ rank[s[m][d]] < rank[m]
  BY Ranked DEF Tree, s
<1>1. PICK rank0 \in [Nodes \cup {NULL} -> 0 .. R] :
         \A m \in Nodes, d \in Dirs : s[m][d] \in Nodes \cup {NULL} /\ rank0[s[m][d]] < rank0[m]
  BY <1>1a
<1> DEFINE rank == [m \in S |-> rank0[m]]
<1>2. rank \in [S -> Nat]
  BY <1>0
<1>3. ASSUME NEW m \in S, \A x \in S : rank[x] < rank[m] => x \in P
      PROVE  m \in P
  <2>1. CASE m = NULL
    <3>1. InOrder(NULL) = <<>>
      BY InOrderUnfolds
    <3>2. T[NULL] = {}
      BY <1>0 DEF Shape, Subtrees
    <3>3. Sorted(k, <<>>, {})
      BY DEF Sorted
    <3> QED BY <2>1, <3>1, <3>2, <3>3
  <2>2. CASE m \in L
    <3> DEFINE l == s[m][RBT_LEFT]
               r == s[m][RBT_RIGHT]
    <3>1. /\ l \in S /\ r \in S /\ T[m] = {m} \cup T[l] \cup T[r]
          /\ T[l] \subseteq L /\ T[r] \subseteq L
      BY <2>2, <1>0 DEF Shape, Subtrees
    <3>2. rank[l] < rank[m] /\ rank[r] < rank[m]
      BY <3>1, <2>2, <1>0, <1>1
    <3>3. Sorted(k, InOrder(l), T[l]) /\ Sorted(k, InOrder(r), T[r])
      BY <3>1, <3>2, <1>3
    <3>4. InOrder(m) = InOrder(l) \o <<m>> \o InOrder(r)
      BY <2>2, <1>0, InOrderUnfolds
    <3>5. \A x \in T[l] \cup T[r] \cup {m} : k[x] \in Int
      BY <3>1, <2>2, <1>0 DEF Shape
    <3>6. (\A x \in T[l] : k[x] < k[m]) /\ (\A x \in T[r] : k[m] < k[x])
      <4>1. \A x \in T[l] : Side(k, RBT_LEFT, x, m)
        BY <2>2, <1>0 DEF Shape, Ordered
      <4>2. \A x \in T[r] : Side(k, RBT_RIGHT, x, m)
        BY <2>2, <1>0 DEF Shape, Ordered
      <4> QED BY <4>1, <4>2, <3>5 DEF Side, RBT_LEFT, RBT_RIGHT
    <3> DEFINE il == InOrder(l)
               ir == InOrder(r)
    <3>7. Sorted(k, il, T[l]) /\ Sorted(k, ir, T[r]) /\ InOrder(m) = il \o <<m>> \o ir
      BY <3>3, <3>4
    <3> HIDE DEF il, ir, l, r
    <3>8. Sorted(k, il \o <<m>> \o ir, {m} \cup T[l] \cup T[r])
      BY <3>5, <3>6, <3>7, SortedJoin
    <3> QED BY <3>1, <3>7, <3>8
  <2> QED BY <2>1, <2>2
<1> HIDE DEF P, S, rank
<1>4. \A m \in S : m \in P
  BY <1>2, <1>3, RankInd
<1> QED BY <1>4 DEF P, S, k

-----------------------------------------------------------------------------
(* The loops that go down the tree.                                        *)

SpineFcn ==
    CHOOSE left : left = [m \in Nodes \cup {NULL} |->
            IF m = NULL THEN <<>>
            ELSE <<Hop(m, RBT_LEFT)>> \o left[node[m].sub[RBT_LEFT]]]

(* Spine is what its recursive definition says. *)
LEMMA SpineUnfolds ==
    ASSUME RbAssumption, NEW L, NEW T, Tree(node, L, T)
    PROVE  \A m \in Nodes \cup {NULL} :
             Spine(m) = IF m = NULL THEN <<>>
                        ELSE <<Hop(m, RBT_LEFT)>> \o Spine(node[m].sub[RBT_LEFT])
<1> DEFINE S == Nodes \cup {NULL}
           V == Seq([nd : S, dir : Dirs])
           s == SubOf(node)
           a == [m \in S |-> IF m = NULL THEN NULL ELSE s[m][RBT_LEFT]]
           G == [x \in V \X V \X S |-> <<Hop(x[3], RBT_LEFT)>> \o x[1]]
           E == {NULL}
           nil == <<>>
<1>0. /\ NULL \notin Nodes /\ RBT_LEFT \in Dirs
      /\ \A m \in Nodes : s[m] = node[m].sub
  BY DEF RbAssumption, Dirs, SubOf, Addr
<1> HIDE DEF s
<1>1a. PICK R \in Nat : \E rank \in [S -> 0 .. R] :
         \A m \in Nodes, d \in Dirs : s[m][d] \in S /\ rank[s[m][d]] < rank[m]
  BY Ranked DEF Tree, s
<1>1. PICK rank \in [S -> 0 .. R] :
         \A m \in Nodes, d \in Dirs : s[m][d] \in S /\ rank[s[m][d]] < rank[m]
  BY <1>1a
<1>2. a \in [S -> S]
  BY <1>0, <1>1
<1>3. \A m \in S : m \notin E => rank[a[m]] < rank[m] /\ rank[a[m]] < rank[m]
  BY <1>0, <1>1
<1>4. G \in [V \X V \X S -> V] /\ nil \in V
  <2>1. \A m \in S : <<Hop(m, RBT_LEFT)>> \in V
    BY <1>0 DEF Hop
  <2>2. \A x \in V \X V \X S : <<Hop(x[3], RBT_LEFT)>> \o x[1] \in V
    BY <2>1
  <2>3. nil \in V
    OBVIOUS
  <2>4. G \in [V \X V \X S -> V]
    <3> HIDE DEF V, S
    <3> QED BY <2>2
  <2> QED BY <2>3, <2>4
<1> HIDE DEF a, G, S, V, E, nil
<1>5b. \E f : Recursive(f, S, V, E, nil, a, a, G)
  BY <1>1, <1>2, <1>3, <1>4, RecExists
<1>5. PICK f \in [S -> V] :
        \A m \in S : f[m] = IF m \in E THEN nil ELSE G[<<f[a[m]], f[a[m]], m>>]
  BY <1>5b DEF Recursive
<1>6. ASSUME NEW m \in S
      PROVE  f[m] = IF m = NULL THEN <<>>
                    ELSE <<Hop(m, RBT_LEFT)>> \o f[node[m].sub[RBT_LEFT]]
  <2>1. CASE m = NULL
    BY <2>1, <1>5 DEF E, nil
  <2>2. CASE m # NULL
    <3>1. f[m] = G[<<f[a[m]], f[a[m]], m>>]
      BY <2>2, <1>5 DEF E
    <3>2. f[a[m]] \in V
      BY <1>2
    <3>3. G[<<f[a[m]], f[a[m]], m>>] = <<Hop(m, RBT_LEFT)>> \o f[a[m]]
      BY <3>2 DEF G
    <3>4. a[m] = node[m].sub[RBT_LEFT]
      BY <2>2, <1>0 DEF a, S
    <3> QED BY <2>2, <3>1, <3>3, <3>4
  <2> QED BY <2>1, <2>2
<1>7. f = [m \in S |-> IF m = NULL THEN <<>>
                    ELSE <<Hop(m, RBT_LEFT)>> \o f[node[m].sub[RBT_LEFT]]]
  BY <1>6
<1>8. SpineFcn = [m \in S |-> IF m = NULL THEN <<>>
            ELSE <<Hop(m, RBT_LEFT)>> \o SpineFcn[node[m].sub[RBT_LEFT]]]
  BY <1>7 DEF SpineFcn, S
<1>9. \A m : Spine(m) = SpineFcn[m]
  BY DEF Spine, SpineFcn
<1> HIDE DEF SpineFcn
<1>10. \A m \in S : SpineFcn[m] = IF m = NULL THEN <<>>
            ELSE <<Hop(m, RBT_LEFT)>> \o SpineFcn[node[m].sub[RBT_LEFT]]
  BY <1>8
<1> QED BY <1>9, <1>10 DEF S

SideOf(h, kk, n) == IF kk > h[n].key THEN RBT_RIGHT ELSE RBT_LEFT

WalkFcn(kk) ==
    CHOOSE down : down = [n \in Nodes \cup {NULL} |->
            IF n = NULL \/ node[n].key = kk THEN <<>>
            ELSE <<Hop(n, IF kk > node[n].key THEN RBT_RIGHT ELSE RBT_LEFT)>>
                    \o down[node[n].sub[IF kk > node[n].key THEN RBT_RIGHT ELSE RBT_LEFT]]]

(* Walk, the search loop, is what its recursive definition says. *)
LEMMA WalkUnfolds ==
    ASSUME RbAssumption, NEW L, NEW T, Tree(node, L, T), NEW kk
    PROVE  /\ Walk(kk) = WalkFcn(kk)[Root]
           /\ \A n \in Nodes \cup {NULL} :
                 WalkFcn(kk)[n] =
                    IF n = NULL \/ node[n].key = kk THEN <<>>
                    ELSE <<Hop(n, SideOf(node, kk, n))>> \o WalkFcn(kk)[node[n].sub[SideOf(node, kk, n)]]
<1> DEFINE S == Nodes \cup {NULL}
           V == Seq([nd : S, dir : Dirs])
           s == SubOf(node)
           a == [m \in S |-> IF m = NULL THEN NULL ELSE s[m][SideOf(node, kk, m)]]
           G == [x \in V \X V \X S |-> <<Hop(x[3], SideOf(node, kk, x[3]))>> \o x[1]]
           E == {n \in S : n = NULL \/ node[n].key = kk}
           nil == <<>>
<1>0. /\ NULL \notin Nodes /\ \A m : SideOf(node, kk, m) \in Dirs
      /\ \A m \in Nodes : s[m] = node[m].sub
  BY DEF RbAssumption, Dirs, SubOf, Addr, SideOf
<1> HIDE DEF s
<1>1a. PICK R \in Nat : \E rank \in [S -> 0 .. R] :
         \A m \in Nodes, d \in Dirs : s[m][d] \in S /\ rank[s[m][d]] < rank[m]
  BY Ranked DEF Tree, s
<1>1. PICK rank \in [S -> 0 .. R] :
         \A m \in Nodes, d \in Dirs : s[m][d] \in S /\ rank[s[m][d]] < rank[m]
  BY <1>1a
<1>2. a \in [S -> S]
  BY <1>0, <1>1
<1>3. \A m \in S : m \notin E => rank[a[m]] < rank[m] /\ rank[a[m]] < rank[m]
  BY <1>0, <1>1
<1>4. G \in [V \X V \X S -> V] /\ nil \in V
  <2>1. \A m \in S : <<Hop(m, SideOf(node, kk, m))>> \in V
    BY <1>0 DEF Hop
  <2>2. \A x \in V \X V \X S : <<Hop(x[3], SideOf(node, kk, x[3]))>> \o x[1] \in V
    BY <2>1
  <2>3. nil \in V
    OBVIOUS
  <2>4. G \in [V \X V \X S -> V]
    <3> HIDE DEF V, S
    <3> QED BY <2>2
  <2> QED BY <2>3, <2>4
<1> HIDE DEF a, G, S, V, E, nil
<1>5b. \E f : Recursive(f, S, V, E, nil, a, a, G)
  BY <1>1, <1>2, <1>3, <1>4, RecExists
<1>5. PICK f \in [S -> V] :
        \A m \in S : f[m] = IF m \in E THEN nil ELSE G[<<f[a[m]], f[a[m]], m>>]
  BY <1>5b DEF Recursive
<1>6. ASSUME NEW m \in S
      PROVE  f[m] = IF m = NULL \/ node[m].key = kk THEN <<>>
                    ELSE <<Hop(m, SideOf(node, kk, m))>> \o f[node[m].sub[SideOf(node, kk, m)]]
  <2>1. CASE m = NULL \/ node[m].key = kk
    BY <2>1, <1>5 DEF E, nil
  <2>2. CASE ~(m = NULL \/ node[m].key = kk)
    <3>1. f[m] = G[<<f[a[m]], f[a[m]], m>>]
      BY <2>2, <1>5 DEF E
    <3>2. f[a[m]] \in V
      BY <1>2
    <3>3. G[<<f[a[m]], f[a[m]], m>>] = <<Hop(m, SideOf(node, kk, m))>> \o f[a[m]]
      BY <3>2 DEF G
    <3>4. a[m] = node[m].sub[SideOf(node, kk, m)]
      BY <2>2, <1>0 DEF a, S
    <3> QED BY <2>2, <3>1, <3>3, <3>4
  <2> QED BY <2>1, <2>2
<1>7. f = [m \in S |-> IF m = NULL \/ node[m].key = kk THEN <<>>
                    ELSE <<Hop(m, SideOf(node, kk, m))>> \o f[node[m].sub[SideOf(node, kk, m)]]]
  BY <1>6
<1>8. WalkFcn(kk) = [m \in S |-> IF m = NULL \/ node[m].key = kk THEN <<>>
            ELSE <<Hop(m, SideOf(node, kk, m))>> \o WalkFcn(kk)[node[m].sub[SideOf(node, kk, m)]]]
  BY <1>7 DEF WalkFcn, S, SideOf
<1>9. Walk(kk) = WalkFcn(kk)[Root]
  BY DEF Walk, WalkFcn
<1> HIDE DEF WalkFcn
<1>10. \A m \in S : WalkFcn(kk)[m] = IF m = NULL \/ node[m].key = kk THEN <<>>
            ELSE <<Hop(m, SideOf(node, kk, m))>> \o WalkFcn(kk)[node[m].sub[SideOf(node, kk, m)]]
  BY <1>8
<1> QED BY <1>9, <1>10 DEF S

Hops(L) == [nd : L, dir : Dirs]

(* The hops w lead from node m to z. *)
Chain(s, L, m, w, z) ==
    /\ w \in Seq(Hops(L))
    /\ IF w = <<>> THEN z = m
       ELSE w[1].nd = m /\ s[w[Len(w)].nd][w[Len(w)].dir] = z
    /\ \A i \in 1 .. Len(w) - 1 : s[w[i].nd][w[i].dir] = w[i + 1].nd

(* A sequence with an element put in front. *)
LEMMA ConsIs ==
    ASSUME NEW X, NEW h \in X, NEW w \in Seq(X)
    PROVE  /\ <<h>> \o w \in Seq(X) /\ Len(<<h>> \o w) = Len(w) + 1 /\ <<h>> \o w # <<>>
           /\ (<<h>> \o w)[1] = h
           /\ \A i \in 1 .. Len(w) : (<<h>> \o w)[i + 1] = w[i]
           /\ Len(w) \in Nat
OBVIOUS

(* A chain of hops with the hop to its start put in front. *)
LEMMA ChainCons ==
    ASSUME NEW s, NEW L, NEW m \in L, NEW d \in Dirs, NEW w, NEW z, Chain(s, L, s[m][d], w, z)
    PROVE  Chain(s, L, m, <<Hop(m, d)>> \o w, z)
<1> DEFINE h == Hop(m, d)
           v == <<h>> \o w
<1>0. h \in Hops(L) /\ w \in Seq(Hops(L)) /\ h.nd = m /\ h.dir = d
  BY DEF Hop, Hops, Chain
<1> HIDE DEF h
<1>1. /\ v \in Seq(Hops(L)) /\ Len(v) = Len(w) + 1 /\ v # <<>> /\ v[1] = h
      /\ \A i \in 1 .. Len(w) : v[i + 1] = w[i]
      /\ Len(w) \in Nat
  BY <1>0, ConsIs
<1> HIDE DEF v
<1>2. CASE w = <<>>
  <2>1. Len(v) = 1 /\ s[m][d] = z
    BY <1>1, <1>2 DEF Chain
  <2>2. \A i \in 1 .. Len(v) - 1 : FALSE
    BY <2>1
  <2> QED BY <1>0, <1>1, <2>1, <2>2 DEF Chain, v, h
<1>3. CASE w # <<>>
  <2>1. Len(w) > 0 /\ w[1].nd = s[m][d]
    BY <1>0, <1>3 DEF Chain
  <2>2. v[Len(v)] = w[Len(w)]
    BY <2>1, <1>1
  <2>3. ASSUME NEW i \in 1 .. Len(v) - 1 PROVE s[v[i].nd][v[i].dir] = v[i + 1].nd
    <3>1. CASE i = 1
      <4>1. v[i] = h /\ v[i + 1] = w[1]
        BY <3>1, <2>1, <1>1
      <4> QED BY <4>1, <2>1, <1>0
    <3>2. CASE i # 1
      <4> DEFINE j == i - 1
      <4>1. j \in 1 .. Len(w) - 1 /\ j + 1 = i /\ j \in 1 .. Len(w) /\ j + 1 \in 1 .. Len(w)
        BY <3>2, <1>1
      <4>2. v[j + 1] = w[j] /\ v[(j + 1) + 1] = w[j + 1]
        <5> HIDE DEF j
        <5> QED BY <4>1, <1>1
      <4>3. s[w[j].nd][w[j].dir] = w[j + 1].nd
        BY <4>1 DEF Chain
      <4> QED BY <4>1, <4>2, <4>3
    <3> QED BY <3>1, <3>2
  <2>4. s[w[Len(w)].nd][w[Len(w)].dir] = z
    BY <1>3 DEF Chain
  <2> QED BY <1>0, <1>1, <2>2, <2>3, <2>4 DEF Chain, v, h
<1> QED BY <1>2, <1>3

(* The spine of m: down the left children to the least node below m. *)
LeftSpine(k, s, L, T, m, w) ==
    /\ w # <<>>
    /\ Chain(s, L, m, w, NULL)
    /\ \A i \in 1 .. Len(w) : w[i].dir = RBT_LEFT /\ w[i].nd \in T[m]
    /\ \A y \in T[m] : y = w[Len(w)].nd \/ k[w[Len(w)].nd] < k[y]

(* Spine follows left pointers to the node with the smallest key of a      *)
(* subtree.                                                                *)
LEMMA SpineIs ==
    ASSUME RbAssumption, NEW L, NEW T, Tree(node, L, T), NEW n \in L
    PROVE  LeftSpine(KeyOf(node), SubOf(node), L, T, n, Spine(n))
<1> DEFINE s == SubOf(node)
           k == KeyOf(node)
           P == {m \in L : LeftSpine(k, s, L, T, m, Spine(m))}
<1>0. /\ NULL \notin Nodes /\ NULL \notin L /\ RBT_LEFT \in Dirs /\ RBT_RIGHT \in Dirs
      /\ L \subseteq Nodes
      /\ \A m \in Nodes : s[m] = node[m].sub
      /\ Shape(k, s, L, T)
  BY DEF RbAssumption, Dirs, SubOf, Addr, Tree, Shape
<1> HIDE DEF s, k
<1>1a. PICK R \in Nat : \E rank \in [Nodes \cup {NULL} -> 0 .. R] :
         \A m \in Nodes, d \in Dirs : s[m][d] \in Nodes \cup {NULL} /\ rank[s[m][d]] < rank[m]
  BY Ranked DEF Tree, s
<1>1. PICK rank0 \in [Nodes \cup {NULL} -> 0 .. R] :
         \A m \in Nodes, d \in Dirs : s[m][d] \in Nodes \cup {NULL} /\ rank0[s[m][d]] < rank0[m]
  BY <1>1a
<1> DEFINE rank == [m \in L |-> rank0[m]]
<1>2. rank \in [L -> Nat]
  BY <1>0
<1>3. ASSUME NEW m \in L, \A x \in L : rank[x] < rank[m] => x \in P
      PROVE  m \in P
  <2> DEFINE l == s[m][RBT_LEFT]
             r == s[m][RBT_RIGHT]
             h == Hop(m, RBT_LEFT)
  <2>1. Spine(m) = <<h>> \o Spine(l)
    BY <1>0, SpineUnfolds
  <2>2. /\ T[m] = {m} \cup T[l] \cup T[r] /\ l \in L \cup {NULL} /\ T[NULL] = {}
        /\ \A y \in T[r] : k[m] < k[y]
        /\ \A y \in T[l] : k[y] < k[m]
        /\ \A y \in T[m] : k[y] \in Int /\ y \in L
    <3>1. T[m] = {m} \cup T[l] \cup T[r] /\ l \in L \cup {NULL} /\ T[NULL] = {} /\ T[m] \subseteq L
      BY <1>0 DEF Shape, Subtrees
    <3>2. \A y \in T[r] : Side(k, RBT_RIGHT, y, m)
      BY <1>0 DEF Shape, Ordered
    <3>3. \A y \in T[l] : Side(k, RBT_LEFT, y, m)
      BY <1>0 DEF Shape, Ordered
    <3>4. \A y \in L : k[y] \in Int
      BY <1>0 DEF Shape
    <3> QED BY <3>1, <3>2, <3>3, <3>4 DEF Side, RBT_LEFT, RBT_RIGHT
  <2>3. h \in Hops(L) /\ h.nd = m /\ h.dir = RBT_LEFT
    BY <1>0 DEF Hop, Hops
  <2>4. CASE l = NULL
    <3>1. Spine(m) = <<h>>
      <4>1. Spine(NULL) = <<>>
        BY SpineUnfolds
      <4> QED BY <2>1, <2>4, <4>1
    <3>2. LeftSpine(k, s, L, T, m, <<h>>)
      <4>1. Chain(s, L, m, <<h>>, NULL)
        BY <2>3, <2>4 DEF Chain
      <4>2. \A y \in T[m] : y = m \/ k[m] < k[y]
        BY <2>2, <2>4
      <4> HIDE DEF h
      <4> QED BY <4>1, <4>2, <2>2, <2>3 DEF LeftSpine
    <3> QED BY <3>1, <3>2
  <2>5. CASE l \in L
    <3> DEFINE w == Spine(l)
               v == <<h>> \o w
    <3>1. rank[l] < rank[m]
      BY <2>5, <1>0, <1>1
    <3>2. LeftSpine(k, s, L, T, l, w)
      BY <2>5, <3>1, <1>3
    <3> HIDE DEF w
    <3>3. Chain(s, L, m, v, NULL)
      BY <3>2, <1>0, ChainCons DEF LeftSpine
    <3>4. w \in Seq(Hops(L)) /\ w # <<>>
      BY <3>2 DEF LeftSpine, Chain
    <3> HIDE DEF h
    <3>5. /\ Len(v) = Len(w) + 1 /\ v # <<>> /\ v[1] = h
          /\ \A i \in 1 .. Len(w) : v[i + 1] = w[i]
          /\ Len(w) \in Nat /\ Len(w) > 0
      BY <2>3, <3>4, ConsIs
    <3> HIDE DEF v
    <3>6. v[Len(v)] = w[Len(w)]
      BY <3>5
    <3>7. ASSUME NEW i \in 1 .. Len(v) PROVE v[i].dir = RBT_LEFT /\ v[i].nd \in T[m]
      <4>1. CASE i = 1
        BY <4>1, <3>5, <2>3, <2>2
      <4>2. CASE i # 1
        <5>1. i - 1 \in 1 .. Len(w) /\ v[(i - 1) + 1] = w[i - 1] /\ (i - 1) + 1 = i
          BY <4>2, <3>5
        <5>2. w[i - 1].dir = RBT_LEFT /\ w[i - 1].nd \in T[l]
          BY <5>1, <3>2 DEF LeftSpine
        <5> QED BY <5>1, <5>2, <2>2
      <4> QED BY <4>1, <4>2
    <3>8. ASSUME NEW y \in T[m] PROVE y = w[Len(w)].nd \/ k[w[Len(w)].nd] < k[y]
      <4> DEFINE q == w[Len(w)].nd
      <4>0. q \in T[l] /\ k[q] < k[m] /\ k[q] \in Int /\ k[m] \in Int /\ k[y] \in Int
        <5>1. Len(w) \in 1 .. Len(w)
          BY <3>5
        <5>2. q \in T[l]
          BY <5>1, <3>2 DEF LeftSpine
        <5> HIDE DEF q
        <5> QED BY <5>2, <2>2, <3>8
      <4>1. CASE y \in T[l]
        BY <4>1, <3>2 DEF LeftSpine
      <4>2. CASE y = m
        BY <4>0, <4>2
      <4>3. CASE y \in T[r]
        <5>1. k[m] < k[y]
          BY <4>3, <2>2
        <5> HIDE DEF q
        <5>2. k[q] < k[y]
          BY <5>1, <4>0
        <5> QED BY <5>2 DEF q
      <4> QED BY <4>1, <4>2, <4>3, <2>2
    <3>9. LeftSpine(k, s, L, T, m, v)
      BY <3>3, <3>5, <3>6, <3>7, <3>8 DEF LeftSpine
    <3>10. Spine(m) = v
      BY <2>1 DEF v, w
    <3> QED BY <3>9, <3>10
  <2> QED BY <2>2, <2>4, <2>5
<1> HIDE DEF P, rank
<1>4. \A m \in L : m \in P
  BY <1>2, <1>3, RankInd
<1> QED BY <1>4 DEF P, k, s

(* The walk from m in search of key kk ends at z. *)
Search(k, s, L, T, kk, m, w, z) ==
    /\ Chain(s, L, m, w, z)
    /\ \A i \in 1 .. Len(w) : IF w[i].dir = RBT_LEFT THEN kk < k[w[i].nd] ELSE kk > k[w[i].nd]
    /\ z \in T[m] \cup {NULL}
    /\ IF z = NULL THEN \A y \in T[m] : k[y] # kk ELSE k[z] = kk

(* The search for a key takes the turns the keys it meets ask for, to the  *)
(* key's node or to NULL.                                                  *)
LEMMA WalkIs ==
    ASSUME RbAssumption, NEW L, NEW T, Tree(node, L, T), NEW kk \in Int, NEW n \in L \cup {NULL}
    PROVE  \E z : Search(KeyOf(node), SubOf(node), L, T, kk, n, WalkFcn(kk)[n], z)
<1> DEFINE s == SubOf(node)
           k == KeyOf(node)
           S == L \cup {NULL}
           f == WalkFcn(kk)
           P == {m \in S : \E z : Search(k, s, L, T, kk, m, f[m], z)}
<1>0. /\ NULL \notin Nodes /\ NULL \notin L /\ RBT_LEFT \in Dirs /\ RBT_RIGHT \in Dirs
      /\ L \subseteq Nodes
      /\ \A m \in Nodes : s[m] = node[m].sub /\ k[m] = node[m].key
      /\ Shape(k, s, L, T)
  BY DEF RbAssumption, Dirs, SubOf, KeyOf, Addr, Tree, Shape
<1> HIDE DEF s, k
<1>1a. PICK R \in Nat : \E rank \in [Nodes \cup {NULL} -> 0 .. R] :
         \A m \in Nodes, d \in Dirs : s[m][d] \in Nodes \cup {NULL} /\ rank[s[m][d]] < rank[m]
  BY Ranked DEF Tree, s
<1>1. PICK rank0 \in [Nodes \cup {NULL} -> 0 .. R] :
         \A m \in Nodes, d \in Dirs : s[m][d] \in Nodes \cup {NULL} /\ rank0[s[m][d]] < rank0[m]
  BY <1>1a
<1> DEFINE rank == [m \in S |-> rank0[m]]
<1>2. rank \in [S -> Nat]
  BY <1>0
<1>3. \A m \in S : f[m] = IF m = NULL \/ node[m].key = kk THEN <<>>
            ELSE <<Hop(m, SideOf(node, kk, m))>> \o f[node[m].sub[SideOf(node, kk, m)]]
  BY <1>0, WalkUnfolds
<1> HIDE DEF f
<1>4. ASSUME NEW m \in S, \A x \in S : rank[x] < rank[m] => x \in P
      PROVE  m \in P
  <2>1. CASE m = NULL
    <3>1. f[m] = <<>>
      BY <2>1, <1>3
    <3>2. Search(k, s, L, T, kk, m, <<>>, NULL)
      BY <2>1, <1>0 DEF Search, Chain, Shape, Subtrees
    <3> QED BY <3>1, <3>2
  <2>2. CASE m \in L /\ k[m] = kk
    <3>1. f[m] = <<>>
      BY <2>2, <1>0, <1>3
    <3>2. m \in T[m]
      BY <2>2, <1>0 DEF Shape, Subtrees
    <3>3. Search(k, s, L, T, kk, m, <<>>, m)
      BY <2>2, <3>2, <1>0 DEF Search, Chain
    <3> QED BY <3>1, <3>3
  <2>3. CASE m \in L /\ k[m] # kk
    <3> DEFINE d == SideOf(node, kk, m)
               c == s[m][d]
               h == Hop(m, d)
               w == f[c]
               v == <<h>> \o w
    <3>0. d \in Dirs /\ k[m] \in Int /\ (IF d = RBT_LEFT THEN kk < k[m] ELSE kk > k[m])
      <4>1. k[m] \in Int /\ node[m].key = k[m]
        BY <2>3, <1>0 DEF Shape
      <4> QED BY <4>1, <2>3 DEF SideOf, Dirs, RBT_LEFT, RBT_RIGHT
    <3> HIDE DEF d
    <3>1. f[m] = v
      BY <2>3, <1>0, <1>3 DEF d
    <3>2. c \in S /\ rank[c] < rank[m]
      BY <2>3, <3>0, <1>0, <1>1 DEF Shape
    <3>3. PICK z : Search(k, s, L, T, kk, c, w, z)
      BY <3>2, <1>4
    <3>4. h \in Hops(L) /\ h.nd = m /\ h.dir = d
      BY <2>3, <3>0 DEF Hop, Hops
    <3>5. Chain(s, L, m, v, z)
      BY <2>3, <3>0, <3>3, ChainCons DEF Search
    <3> HIDE DEF h, w
    <3>6. w \in Seq(Hops(L))
      BY <3>3 DEF Search, Chain
    <3>7. /\ Len(v) = Len(w) + 1 /\ v[1] = h
          /\ \A i \in 1 .. Len(w) : v[i + 1] = w[i]
          /\ Len(w) \in Nat
      BY <3>4, <3>6, ConsIs
    <3> HIDE DEF v
    <3>8. ASSUME NEW i \in 1 .. Len(v)
          PROVE  IF v[i].dir = RBT_LEFT THEN kk < k[v[i].nd] ELSE kk > k[v[i].nd]
      <4>1. CASE i = 1
        BY <4>1, <3>7, <3>4, <3>0
      <4>2. CASE i # 1
        <5>1. i - 1 \in 1 .. Len(w) /\ v[(i - 1) + 1] = w[i - 1] /\ (i - 1) + 1 = i
          BY <4>2, <3>7
        <5>2. IF w[i - 1].dir = RBT_LEFT THEN kk < k[w[i - 1].nd] ELSE kk > k[w[i - 1].nd]
          BY <5>1, <3>3 DEF Search
        <5> QED BY <5>1, <5>2
      <4> QED BY <4>1, <4>2
    <3>9. T[m] = {m} \cup T[c] \cup T[s[m][Other(d)]] /\ T[m] \subseteq L
      BY <2>3, <3>0, <1>0, SubtreeOf
    <3>10. \A y \in T[s[m][Other(d)]] : k[y] # kk
      <4>1. \A y \in T[s[m][Other(d)]] : Side(k, Other(d), y, m)
        BY <2>3, <3>0, <1>0, DirFacts DEF Shape, Ordered
      <4>2. \A y \in T[m] : k[y] \in Int
        BY <3>9, <1>0 DEF Shape
      <4>3. d = RBT_LEFT => Other(d) # RBT_LEFT
        BY DEF Other, RBT_LEFT
      <4>4. d # RBT_LEFT => Other(d) = RBT_LEFT
        BY <3>0 DEF Other, RBT_LEFT, RBT_RIGHT, Dirs
      <4>5. ASSUME NEW y \in T[s[m][Other(d)]] PROVE k[y] # kk
        <5>1. Side(k, Other(d), y, m) /\ k[y] \in Int
          BY <4>1, <4>2, <3>9
        <5> QED BY <5>1, <4>3, <4>4, <3>0 DEF Side
      <4> QED BY <4>5
    <3>11. Search(k, s, L, T, kk, m, v, z)
      <4>1. z \in T[m] \cup {NULL}
        BY <3>3, <3>9 DEF Search
      <4>2. IF z = NULL THEN \A y \in T[m] : k[y] # kk ELSE k[z] = kk
        BY <3>3, <3>9, <3>10, <2>3 DEF Search
      <4> QED BY <3>5, <3>8, <4>1, <4>2 DEF Search
    <3> QED BY <3>1, <3>11
  <2> QED BY <2>1, <2>2, <2>3
<1> HIDE DEF P, rank, S
<1>5. \A m \in S : m \in P
  BY <1>2, <1>4, RankInd
<1> QED BY <1>5 DEF P, k, s, f, S

-----------------------------------------------------------------------------
(* Recorded paths.                                                         *)

(* The hops of p lead from btree->root down the tree. *)
GoodPath(s, L, p) ==
    /\ p \in Seq(Hops(L \cup {ROOT})) /\ p # <<>>
    /\ p[1] = Hop(ROOT, RBT_LEFT)
    /\ \A i \in 2 .. Len(p) : p[i].nd \in L
    /\ \A i \in 1 .. Len(p) - 1 : s[p[i].nd][p[i].dir] = p[i + 1].nd

(* A sequence over a set is one over a larger set. *)
LEMMA SeqWider ==
    ASSUME NEW A, NEW B, A \subseteq B, NEW w \in Seq(A)
    PROVE  w \in Seq(B)
<1>1. w = [i \in 1 .. Len(w) |-> w[i]] /\ Len(w) \in Nat
  OBVIOUS
<1>2. w \in [1 .. Len(w) -> B]
  BY <1>1
<1> QED BY <1>1, <1>2

(* Each entry of a recorded path is a pointer of the tree, the first the   *)
(* root pointer.                                                           *)
LEMMA PathSlot ==
    ASSUME RbAssumption, NEW s, NEW L, NEW p, GoodPath(s, L, p), NEW i \in 1 .. Len(p)
    PROVE  /\ Slot(L, p[i].nd, p[i].dir)
           /\ i = 1 => p[i].nd = ROOT
           /\ i > 1 => p[i].nd \in L
           /\ Len(p) \in Nat /\ Len(p) > 0
           /\ p[i] = Hop(p[i].nd, p[i].dir)
           /\ p[i].dir \in Dirs
<1>1. p \in Seq(Hops(L \cup {ROOT})) /\ p # <<>>
  BY DEF GoodPath
<1>2. Len(p) \in Nat /\ Len(p) > 0
  BY <1>1
<1>3. p[i] \in Hops(L \cup {ROOT})
  BY <1>1
<1>4. p[i] = Hop(p[i].nd, p[i].dir) /\ p[i].dir \in Dirs
  BY <1>3 DEF Hops, Hop
<1>5. CASE i = 1
  <2>1. p[i].nd = ROOT /\ p[i].dir = RBT_LEFT
    BY <1>5 DEF GoodPath, Hop
  <2> QED BY <2>1, <1>2, <1>4, <1>5 DEF Slot
<1>6. CASE i > 1
  <2>1. i \in 2 .. Len(p)
    BY <1>2, <1>6
  <2>2. p[i].nd \in L
    BY <2>1 DEF GoodPath
  <2> QED BY <2>2, <1>2, <1>4, <1>6 DEF Slot
<1> QED BY <1>2, <1>5, <1>6

(* Each node of a path is below all pointers before it. *)
LEMMA PathBelow ==
    ASSUME RbAssumption, NEW k, NEW s, NEW L, NEW T, Shape(k, s, L, T), NEW p, GoodPath(s, L, p)
    PROVE  \A j \in 1 .. Len(p) : \A i \in 1 .. j - 1 :
             p[j].nd \in T[s[p[i].nd][p[i].dir]] /\ s[p[i].nd][p[i].dir] \in L
<1> DEFINE Q(j) == \A i \in 1 .. j - 1 :
                     p[j].nd \in T[s[p[i].nd][p[i].dir]] /\ s[p[i].nd][p[i].dir] \in L
           P == {j \in Nat : j \in 1 .. Len(p) => Q(j)}
<1>0. Len(p) \in Nat
  BY DEF GoodPath
<1>1. 0 \in P
  OBVIOUS
<1>2. ASSUME NEW j \in Nat, j \in P PROVE j + 1 \in P
  <2> SUFFICES ASSUME j + 1 \in 1 .. Len(p), NEW i \in 1 .. (j + 1) - 1
               PROVE  p[j + 1].nd \in T[s[p[i].nd][p[i].dir]] /\ s[p[i].nd][p[i].dir] \in L
    OBVIOUS
  <2>1. j \in 1 .. Len(p) - 1 /\ j \in 1 .. Len(p) /\ j + 1 > 1
    BY <1>0
  <2>2. s[p[j].nd][p[j].dir] = p[j + 1].nd /\ p[j + 1].nd \in L
    BY <2>1, PathSlot DEF GoodPath
  <2>3. p[j + 1].nd \in T[p[j + 1].nd]
    <3>1. \A x \in L : x \in T[x]
      BY SMTT(30) DEF Shape, Subtrees
    <3> QED BY <2>2, <3>1
  <2>4. CASE i = j
    BY <2>2, <2>3, <2>4
  <2>5. CASE i # j
    <3>1. i \in 1 .. j - 1 /\ j > 1
      BY <2>5
    <3> DEFINE X == s[p[i].nd][p[i].dir]
    <3>2. p[j].nd \in T[X] /\ X \in L
      BY <3>1, <2>1, <1>2
    <3>3. p[j].nd \in L /\ p[j].dir \in Dirs
      BY <3>1, <2>1, PathSlot
    <3>4. T[p[j].nd] \subseteq T[X]
      BY <3>2, <3>3 DEF Shape, Nested
    <3>5. p[j + 1].nd \in T[p[j].nd]
      BY <3>3, <2>2, Child
    <3> QED BY <3>2, <3>4, <3>5
  <2> QED BY <2>4, <2>5
<1> HIDE DEF P
<1>3. \A j \in Nat : j \in P
  BY <1>1, <1>2, NatInd
<1> QED BY <1>3, <1>0 DEF P

(* A path meets no node twice. *)
LEMMA PathDistinct ==
    ASSUME RbAssumption, NEW k, NEW s, NEW L, NEW T, Shape(k, s, L, T), NEW p, GoodPath(s, L, p),
           NEW i \in 1 .. Len(p), NEW j \in 1 .. Len(p), i < j
    PROVE  p[i].nd # p[j].nd
<1>0. Len(p) \in Nat /\ i \in 1 .. j - 1 /\ j > 1
  BY DEF GoodPath
<1>1. p[j].nd \in L
  BY <1>0, PathSlot
<1>2. CASE i = 1
  BY <1>1, <1>2, PathSlot DEF Shape, RbAssumption
<1>3. CASE i > 1
  <2>1. p[i].nd \in L /\ p[i].dir \in Dirs
    BY <1>3, PathSlot
  <2>2. p[j].nd \in T[s[p[i].nd][p[i].dir]]
    BY <1>0, PathBelow
  <2> QED BY <2>1, <2>2, SubtreeOf
<1> QED BY <1>0, <1>2, <1>3

(* The ancestors of a node on a path are on the path before it, with the   *)
(* direction taken there.                                                  *)
LEMMA PathAncestors ==
    ASSUME RbAssumption, NEW k, NEW s, NEW L, NEW T, Shape(k, s, L, T), NEW p, GoodPath(s, L, p)
    PROVE  \A j \in 1 .. Len(p) : \A m \in L, f \in Dirs :
             p[j].nd \in T[s[m][f]] => \E i \in 1 .. j - 1 : p[i].nd = m /\ p[i].dir = f
<1> DEFINE Q(j) == \A m \in L, f \in Dirs :
             p[j].nd \in T[s[m][f]] => \E i \in 1 .. j - 1 : p[i].nd = m /\ p[i].dir = f
           P == {j \in Nat : j \in 1 .. Len(p) => Q(j)}
<1>0. Len(p) \in Nat /\ ROOT \notin L /\ L \subseteq Nodes /\ NULL \notin L
  BY DEF GoodPath, Shape, RbAssumption
<1>1. 0 \in P
  OBVIOUS
<1>2. ASSUME NEW j \in Nat, j \in P PROVE j + 1 \in P
  <2> SUFFICES ASSUME j + 1 \in 1 .. Len(p), NEW m \in L, NEW f \in Dirs,
                      p[j + 1].nd \in T[s[m][f]]
               PROVE  \E i \in 1 .. (j + 1) - 1 : p[i].nd = m /\ p[i].dir = f
    OBVIOUS
  <2> DEFINE X == s[m][f]
             c == p[j + 1].nd
  <2>1. X \in L /\ c \in L
    BY SubtreeOf DEF Shape, Subtrees
  <2>2. j # 0
    <3> SUFFICES ASSUME j = 0 PROVE FALSE
      OBVIOUS
    <3>1. p[1].nd = ROOT /\ j + 1 = 1
      BY PathSlot
    <3> QED BY <3>1, <2>1, <1>0
  <2>3. j \in 1 .. Len(p) - 1 /\ j \in 1 .. Len(p)
    BY <2>2, <1>0
  <2>4. s[p[j].nd][p[j].dir] = c
    BY <2>3 DEF GoodPath
  <2>5. Slot(L, p[j].nd, p[j].dir) /\ Slot(L, m, f)
    BY <2>3, PathSlot DEF Slot
  <2>6. CASE X = c
    <3>1. p[j].nd = m /\ p[j].dir = f
      BY <2>1, <2>4, <2>5, <2>6, OneParent
    <3>2. j \in 1 .. (j + 1) - 1
      BY <2>3
    <3> QED BY <3>1, <3>2
  <2>7. CASE X # c /\ p[j].nd \in L
    <3>1. p[j].dir \in Dirs
      BY <2>3, PathSlot
    <3>2. p[j].nd \in T[X]
      BY <2>1, <2>4, <2>7, <3>1 DEF Shape, Parents
    <3>3. PICK i \in 1 .. j - 1 : p[i].nd = m /\ p[i].dir = f
      BY <3>2, <2>3, <1>2
    <3>4. i \in 1 .. (j + 1) - 1
      OBVIOUS
    <3> QED BY <3>3, <3>4
  <2>8. CASE X # c /\ p[j].nd = ROOT
    <3>1. s[ROOT][RBT_LEFT] = c
      BY <2>4, <2>5, <2>8, <1>0 DEF Slot
    <3>2. T[c] = L
      BY <3>1 DEF Shape
    <3>3. X = c
      BY <3>2, <2>1, Antisymmetric
    <3> QED BY <3>3, <2>8
  <2> QED BY <2>5, <2>6, <2>7, <2>8 DEF Slot
<1> HIDE DEF P
<1>3. \A j \in Nat : j \in P
  BY <1>1, <1>2, NatInd
<1> QED BY <1>3, <1>0 DEF P

(* What the search for a key finds, and the path to it. *)
Found(h, L, kk, p, z) ==
    /\ GoodPath(SubOf(h), L, p)
    /\ h[p[Len(p)].nd].sub[p[Len(p)].dir] = z
    /\ z \in L \cup {NULL}
    /\ IF z = NULL THEN \A y \in L : h[y].key # kk ELSE h[z].key = kk
    /\ \A i \in 2 .. Len(p) : IF p[i].dir = RBT_LEFT THEN kk < h[p[i].nd].key ELSE kk > h[p[i].nd].key

(* PathTo leads from the root to the key's node if there is one, else to   *)
(* the empty place where a node with the key belongs.                      *)
LEMMA PathToIs ==
    ASSUME RbAssumption, NEW L, NEW T, Tree(node, L, T), NEW kk \in Int
    PROVE  /\ Found(node, L, kk, PathTo(kk), HXrbtree_find(kk))
           /\ Last(PathTo(kk)) = PathTo(kk)[Len(PathTo(kk))]
           /\ Walk(kk) \in Seq(Hops(L))
           /\ Len(PathTo(kk)) = Len(Walk(kk)) + 1
           /\ \A i \in 1 .. Len(Walk(kk)) : PathTo(kk)[i + 1] = Walk(kk)[i]
<1> DEFINE s == SubOf(node)
           k == KeyOf(node)
           w == Walk(kk)
           h == Hop(ROOT, RBT_LEFT)
           p == <<h>> \o w
<1>0. /\ NULL \notin Nodes /\ NULL \notin L /\ ROOT \notin L /\ RBT_LEFT \in Dirs
      /\ L \subseteq Nodes
      /\ \A m \in Addr : s[m] = node[m].sub /\ k[m] = node[m].key
      /\ Shape(k, s, L, T) /\ ROOT \in Addr /\ L \subseteq Addr
  BY DEF RbAssumption, Dirs, SubOf, KeyOf, Addr, Tree, Shape
<1>1. Root = s[ROOT][RBT_LEFT] /\ Root \in L \cup {NULL} /\ T[Root] = L
  BY <1>0 DEF Shape, Root
<1>2. PICK z : Search(k, s, L, T, kk, Root, w, z)
  BY <1>1, WalkIs, WalkUnfolds
<1>3. PathTo(kk) = p
  BY DEF PathTo
<1> HIDE DEF s, k, w
<1>4. /\ w \in Seq(Hops(L)) /\ w \in Seq(Hops(L \cup {ROOT})) /\ h \in Hops(L \cup {ROOT})
      /\ h.nd = ROOT /\ h.dir = RBT_LEFT
      /\ \A i \in 1 .. Len(w) : w[i].nd \in L
  <2>1. w \in Seq(Hops(L))
    BY <1>2 DEF Search, Chain
  <2>2. Hops(L) \subseteq Hops(L \cup {ROOT})
    BY DEF Hops
  <2>3. w \in Seq(Hops(L \cup {ROOT}))
    BY <2>1, <2>2, SeqWider
  <2>4. \A i \in 1 .. Len(w) : w[i].nd \in L
    <3>1. \A i \in 1 .. Len(w) : w[i] \in Hops(L)
      BY <2>1
    <3> QED BY <3>1 DEF Hops
  <2> QED BY <2>1, <2>3, <2>4, <1>0 DEF Hops, Hop
<1> HIDE DEF h
<1>5. /\ p \in Seq(Hops(L \cup {ROOT})) /\ Len(p) = Len(w) + 1 /\ p # <<>>
      /\ p[1] = h
      /\ \A i \in 1 .. Len(w) : p[i + 1] = w[i]
      /\ Len(w) \in Nat
  BY <1>4, ConsIs
<1> HIDE DEF p
<1>6. ASSUME NEW i \in 2 .. Len(p)
      PROVE  i - 1 \in 1 .. Len(w) /\ p[i] = w[i - 1] /\ p[i].nd \in L
  <2>1. i - 1 \in 1 .. Len(w) /\ (i - 1) + 1 = i
    BY <1>5
  <2>2. p[(i - 1) + 1] = w[i - 1]
    BY <2>1, <1>5
  <2> QED BY <2>1, <2>2, <1>4
<1>7. ASSUME NEW i \in 1 .. Len(p) - 1
      PROVE  s[p[i].nd][p[i].dir] = p[i + 1].nd
  <2>0. i + 1 \in 2 .. Len(p) /\ p[i + 1] = w[i] /\ i \in 1 .. Len(w) /\ w # <<>>
    BY <1>4, <1>5
  <2>1. CASE i = 1
    <3>1. w[1].nd = Root
      BY <2>0, <1>2 DEF Search, Chain
    <3> QED BY <2>0, <2>1, <3>1, <1>1, <1>4, <1>5
  <2>2. CASE i # 1
    <3>1. i \in 2 .. Len(p) /\ i - 1 \in 1 .. Len(w) - 1 /\ (i - 1) + 1 = i
      BY <2>2, <1>5
    <3>2. s[w[i - 1].nd][w[i - 1].dir] = w[(i - 1) + 1].nd
      BY <3>1, <1>2 DEF Search, Chain
    <3> QED BY <3>1, <3>2, <2>0, <1>6
  <2> QED BY <2>1, <2>2
<1>8. GoodPath(s, L, p)
  <2>1. p[1] = Hop(ROOT, RBT_LEFT)
    BY <1>5 DEF h
  <2> QED BY <2>1, <1>5, <1>6, <1>7 DEF GoodPath
<1>9. p[Len(p)].nd \in Addr /\ s[p[Len(p)].nd][p[Len(p)].dir] = z
  <2>1. CASE w = <<>>
    <3>1. Len(p) = 1 /\ z = Root
      BY <2>1, <1>2, <1>5 DEF Search, Chain
    <3> QED BY <3>1, <1>0, <1>1, <1>4, <1>5
  <2>2. CASE w # <<>>
    <3>1. Len(w) > 0 /\ Len(p) \in 2 .. Len(p) /\ Len(p) - 1 = Len(w)
      BY <2>2, <1>4, <1>5
    <3>2. s[w[Len(w)].nd][w[Len(w)].dir] = z
      BY <2>2, <1>2 DEF Search, Chain
    <3>3. p[Len(p)] = w[Len(w)] /\ p[Len(p)].nd \in L
      BY <3>1, <1>6
    <3> QED BY <3>2, <3>3, <1>0
  <2> QED BY <2>1, <2>2
<1>10. Last(p) = p[Len(p)]
  BY DEF Last
<1>11. HXrbtree_find(kk) = z /\ node[p[Len(p)].nd].sub[p[Len(p)].dir] = z
  BY <1>0, <1>3, <1>9, <1>10 DEF HXrbtree_find, Below
<1>12. ASSUME NEW i \in 2 .. Len(p)
       PROVE  IF p[i].dir = RBT_LEFT THEN kk < node[p[i].nd].key ELSE kk > node[p[i].nd].key
  <2>1. IF w[i - 1].dir = RBT_LEFT THEN kk < k[w[i - 1].nd] ELSE kk > k[w[i - 1].nd]
    BY <1>2, <1>6 DEF Search
  <2> QED BY <2>1, <1>0, <1>6
<1>13. /\ z \in L \cup {NULL}
       /\ IF z = NULL THEN \A y \in L : node[y].key # kk ELSE node[z].key = kk
  BY <1>0, <1>1, <1>2 DEF Search
<1>14. Found(node, L, kk, p, z)
  BY <1>8, <1>11, <1>12, <1>13 DEF Found, s
<1> QED BY <1>3, <1>4, <1>5, <1>10, <1>11, <1>14 DEF w

-----------------------------------------------------------------------------
(* The heap after single assignments and rotations.                        *)

Node == [key : Keys \cup {NULL}, data : Data, color : {"RED", "BLACK"},
         sub : [Dirs -> Nodes \cup {NULL}]]

Heap == [Addr -> Node]

(* The entries are those of h. *)
SameEntries(h, h1) == \A a \in Addr : h1[a].key = h[a].key /\ h1[a].data = h[a].data

SameColors(h, h1) == \A a \in Addr : h1[a].color = h[a].color

(* h1 is h but for one pointer. *)
Linked(h, h1, n, d, m) ==
    /\ h1 \in Heap /\ SameEntries(h, h1) /\ SameColors(h, h1)
    /\ h1[n].sub[d] = m
    /\ \A a \in Addr, f \in Dirs : ~(a = n /\ f = d) => h1[a].sub[f] = h[a].sub[f]

(* h1 is h but for one color. *)
Painted(h, h1, n, c) ==
    /\ h1 \in Heap /\ SameEntries(h, h1)
    /\ \A a \in Addr : h1[a].sub = h[a].sub
    /\ h1[n].color = c
    /\ \A a \in Addr : a # n => h1[a].color = h[a].color

(* Assigning a child pointer changes that pointer alone. *)
LEMMA LinkIs ==
    ASSUME NEW h \in Heap, NEW n \in Addr, NEW d \in Dirs, NEW m \in Nodes \cup {NULL}
    PROVE  Linked(h, Link(h, n, d, m), n, d, m)
<1> DEFINE h1 == Link(h, n, d, m)
           nn == [h[n] EXCEPT !.sub[d] = m]
<1>1. h1 = [h EXCEPT ![n] = nn]
  BY DEF Link
<1>2. /\ h[n] \in Node /\ nn \in Node /\ nn.key = h[n].key /\ nn.data = h[n].data
      /\ nn.color = h[n].color /\ nn.sub = [h[n].sub EXCEPT ![d] = m]
  BY DEF Heap, Node
<1>3. h1[n] = nn /\ \A a \in Addr : a # n => h1[a] = h[a]
  BY <1>1 DEF Heap
<1>4. h1 \in Heap
  BY <1>1, <1>2 DEF Heap
<1>5. nn.sub[d] = m /\ \A f \in Dirs : f # d => nn.sub[f] = h[n].sub[f]
  BY <1>2 DEF Node
<1> HIDE DEF nn, h1
<1>6. Linked(h, h1, n, d, m)
  BY <1>2, <1>3, <1>4, <1>5 DEF SameEntries, SameColors, Linked
<1> QED BY <1>6 DEF h1

(* Assigning a color changes that color alone. *)
LEMMA PaintIs ==
    ASSUME NEW h \in Heap, NEW n \in Addr, NEW c \in {"RED", "BLACK"}
    PROVE  Painted(h, Paint(h, n, c), n, c)
<1> DEFINE h1 == Paint(h, n, c)
           nn == [h[n] EXCEPT !.color = c]
<1>1. h1 = [h EXCEPT ![n] = nn]
  BY DEF Paint
<1>2. /\ h[n] \in Node /\ nn \in Node /\ nn.key = h[n].key /\ nn.data = h[n].data
      /\ nn.color = c /\ nn.sub = h[n].sub
  BY DEF Heap, Node
<1>3. h1[n] = nn /\ \A a \in Addr : a # n => h1[a] = h[a]
  BY <1>1 DEF Heap
<1>4. h1 \in Heap
  BY <1>1, <1>2 DEF Heap
<1> HIDE DEF nn, h1
<1>5. Painted(h, h1, n, c)
  BY <1>2, <1>3, <1>4 DEF SameEntries, Painted
<1> QED BY <1>5 DEF h1

(* The pointers of a heap, as a function of the address. *)
LEMMA HeapSubs ==
    ASSUME NEW h \in Heap
    PROVE  /\ SubOf(h) \in Subs
           /\ \A a \in Addr : SubOf(h)[a] = h[a].sub /\ KeyOf(h)[a] = h[a].key
           /\ \A a \in Addr, d \in Dirs : h[a].sub[d] \in Nodes \cup {NULL}
BY DEF Heap, Node, SubOf, KeyOf, Subs

(* h1 is h but for a rotation at n. *)
Turned(h, h1, a, e, n, d, c) ==
    /\ h1 \in Heap /\ SameEntries(h, h1) /\ SameColors(h, h1)
    /\ Rotated(SubOf(h), SubOf(h1), a, e, n, d, c)

(* A rotation assigns the three pointers it should and nothing else. *)
LEMMA RotateIs ==
    ASSUME NEW h \in Heap, NEW a \in Addr, NEW e \in Dirs, NEW n \in Nodes, NEW d \in Dirs,
           NEW c \in Nodes, h[n].sub[d] = c, a # n, a # c, c # n
    PROVE  Turned(h, Rotate(h, Hop(a, e), n, d), a, e, n, d, c)
<1> DEFINE o == Other(d)
           g == h[c].sub[o]
           h1 == Link(h, n, d, g)
           h2 == Link(h1, c, o, n)
           h3 == Link(h2, a, e, c)
<1>0. Rotate(h, Hop(a, e), n, d) = h3
  BY DEF Rotate, Hop
<1>1. o \in Dirs /\ n \in Addr /\ c \in Addr /\ o # d
  BY DirFacts DEF Addr
<1>2. g \in Nodes \cup {NULL}
  BY <1>1, HeapSubs
<1> HIDE DEF o, g
<1>3. Linked(h, h1, n, d, g)
  BY <1>1, <1>2, LinkIs
<1> HIDE DEF h1
<1>3a. h1 \in Heap
  BY <1>3 DEF Linked
<1>4. Linked(h1, h2, c, o, n)
  BY <1>1, <1>3a, LinkIs
<1> HIDE DEF h2
<1>4a. h2 \in Heap
  BY <1>4 DEF Linked
<1>5. Linked(h2, h3, a, e, c)
  BY <1>1, <1>4a, LinkIs
<1> HIDE DEF h3
<1>6. SameEntries(h, h3) /\ SameColors(h, h3) /\ h3 \in Heap
  BY <1>3, <1>4, <1>5 DEF SameEntries, SameColors, Linked
<1>7. h3[a].sub[e] = c /\ h3[n].sub[d] = g /\ h3[c].sub[o] = n
  BY <1>1, <1>3, <1>4, <1>5 DEF Linked
<1>8. ASSUME NEW x \in Addr, NEW f \in Dirs, <<x, f>> \notin {<<a, e>>, <<n, d>>, <<c, o>>}
      PROVE  h3[x].sub[f] = h[x].sub[f]
  BY <1>3, <1>4, <1>5, <1>8 DEF Linked
<1>9. /\ SubOf(h3) \in Subs /\ \A x \in Addr : SubOf(h3)[x] = h3[x].sub
      /\ \A x \in Addr : SubOf(h)[x] = h[x].sub
  BY <1>6, HeapSubs
<1>10. Rotated(SubOf(h), SubOf(h3), a, e, n, d, c)
  BY <1>1, <1>7, <1>8, <1>9 DEF Rotated, g, o
<1> QED BY <1>0, <1>6, <1>10 DEF Turned

(* A search tree with the nodes of L, balanced or not. *)
TreeOn(h, L) == \E T : Tree(h, L, T)

(* What leaves pointers and keys alone leaves the tree alone. *)
LEMMA SameTree ==
    ASSUME NEW h \in Heap, NEW h1 \in Heap, NEW L, NEW T, Tree(h, L, T),
           SameEntries(h, h1), \A a \in Addr : h1[a].sub = h[a].sub
    PROVE  Tree(h1, L, T)
<1>1. KeyOf(h1) = KeyOf(h) /\ SubOf(h1) = SubOf(h)
  BY DEF KeyOf, SubOf, SameEntries
<1> QED BY <1>1 DEF Tree

(* Rotate, applied at a pointer of the tree, keeps it a search tree with   *)
(* the same nodes.                                                         *)
LEMMA RotateTree ==
    ASSUME RbAssumption, NEW h \in Heap, NEW L, NEW T, Tree(h, L, T),
           NEW a, NEW e, Slot(L, a, e), NEW n \in L, h[a].sub[e] = n,
           NEW d \in Dirs, NEW c \in L, h[n].sub[d] = c
    PROVE  /\ Turned(h, Rotate(h, Hop(a, e), n, d), a, e, n, d, c)
           /\ Tree(Rotate(h, Hop(a, e), n, d), L, RotatedT(SubOf(h), T, n, d, c))
           /\ a # n /\ a # c /\ c # n
<1> DEFINE s == SubOf(h)
           h1 == Rotate(h, Hop(a, e), n, d)
<1>0. /\ L \subseteq Nodes /\ ROOT \notin L /\ L \subseteq Addr /\ a \in Addr /\ e \in Dirs
      /\ Shape(KeyOf(h), s, L, T) /\ Outside(s, L) /\ IsFiniteSet(L)
      /\ \A x \in Addr : s[x] = h[x].sub
  BY HeapSubs DEF RbAssumption, Addr, Tree, Shape, Slot, Dirs
<1>1. s[a][e] = n /\ s[n][d] = c
  BY <1>0
<1>2. c # n /\ n \notin T[c]
  BY <1>0, <1>1, Child
<1>3. a # n /\ a # c
  <2>1. CASE a = ROOT
    BY <2>1, <1>0
  <2>2. CASE a \in L
    <3>1. n \in T[a] /\ n # a
      BY <1>0, <1>1, <2>2, Child
    <3> QED BY <3>1, <1>2
  <2> QED BY <2>1, <2>2 DEF Slot
<1>3a. Turned(h, h1, a, e, n, d, c)
  BY <1>0, <1>2, <1>3, RotateIs
<1> HIDE DEF h1
<1>4. h1 \in Heap /\ SameEntries(h, h1) /\ Rotated(s, SubOf(h1), a, e, n, d, c)
  BY <1>3a DEF Turned
<1>5. KeyOf(h1) = KeyOf(h)
  BY <1>4 DEF KeyOf, SameEntries
<1>6. Shape(KeyOf(h), SubOf(h1), L, RotatedT(s, T, n, d, c))
  BY <1>0, <1>1, <1>4, RotateShape
<1>7. Outside(SubOf(h1), L)
  <2> SUFFICES ASSUME NEW x \in Nodes \ L, NEW f \in Dirs
               PROVE  SubOf(h1)[x][f] \in L \cup {NULL}
    BY DEF Outside
  <2>1. x \in Addr /\ x # a /\ x # n /\ x # c
    BY DEF Addr, Slot, RbAssumption
  <2>2. SubOf(h1)[x][f] = s[x][f]
    BY <2>1, <1>4 DEF Rotated
  <2> QED BY <2>2, <1>0 DEF Outside
<1> QED BY <1>0, <1>2, <1>3, <1>3a, <1>5, <1>6, <1>7 DEF h1, Tree

-----------------------------------------------------------------------------
(* Black heights and colors.                                               *)

(* What a node adds to the black nodes on the way, and a missing one.      *)
Wt(h, n) == IF h[n].color = "BLACK" THEN 1 ELSE 0
Gap(S, n, d) == IF <<n, d>> \in S THEN 1 ELSE 0

(* B[n] is the number of black nodes on every way from n down; a pointer   *)
(* in S leads to one less.                                                 *)
Balanced(h, L, B, S) ==
    /\ B \in [L \cup {NULL} -> Nat] /\ B[NULL] = 0
    /\ \A n \in L, d \in Dirs : B[n] = B[h[n].sub[d]] + Wt(h, n) + Gap(S, n, d)

(* No red node has a red child, but for parents in N and children in C.    *)
RedFree(h, L, N, C) ==
    \A n \in L, d \in Dirs :
        IsRed(h, n) /\ IsRed(h, h[n].sub[d]) => n \in N \/ h[n].sub[d] \in C

(* The pointers after a rotation, in terms of the heaps. *)
TurnedTo(h, h1, L, a, e, n, d, c) ==
    /\ h1[a].sub[e] = c /\ h1[n].sub[d] = h[c].sub[Other(d)] /\ h1[c].sub[Other(d)] = n
    /\ h1[n].sub[Other(d)] = h[n].sub[Other(d)] /\ h1[c].sub[d] = h[c].sub[d]
    /\ \A x \in L, f \in Dirs : x # n /\ x # c /\ ~(x = a /\ f = e) =>
          h1[x].sub[f] = h[x].sub[f] /\ h[x].sub[f] # n /\ h[x].sub[f] # c
    /\ h[c].sub[d] \notin {n, c} /\ h[c].sub[Other(d)] \notin {n, c}
    /\ h[n].sub[Other(d)] \notin {n, c}
    /\ a # n /\ a # c /\ c # n

(* The children of every node after a rotation. *)
LEMMA TurnedSubs ==
    ASSUME RbAssumption, NEW h \in Heap, NEW h1 \in Heap, NEW L, NEW T, Tree(h, L, T),
           NEW a, NEW e, Slot(L, a, e), NEW n \in L, h[a].sub[e] = n,
           NEW d \in Dirs, NEW c \in L, h[n].sub[d] = c, Rotated(SubOf(h), SubOf(h1), a, e, n, d, c)
    PROVE  TurnedTo(h, h1, L, a, e, n, d, c)
<1> DEFINE s == SubOf(h)
           s1 == SubOf(h1)
           o == Other(d)
<1>0. /\ L \subseteq Nodes /\ ROOT \notin L /\ L \subseteq Addr /\ a \in Addr /\ e \in Dirs
      /\ Shape(KeyOf(h), s, L, T)
      /\ \A x \in Addr : s[x] = h[x].sub /\ s1[x] = h1[x].sub
      /\ o \in Dirs /\ o # d
  BY HeapSubs, DirFacts DEF RbAssumption, Addr, Tree, Shape, Slot, Dirs
<1>1. a # n /\ a # c /\ c # n
  BY RotateTree
<1>2. s[a][e] = n /\ s[n][d] = c
  BY <1>0
<1>3. \A x \in L, f \in Dirs : s[x][f] = n => x = a /\ f = e
  BY <1>0, <1>2, OneParent DEF Slot
<1>4. \A x \in L, f \in Dirs : s[x][f] = c => x = n /\ f = d
  <2> SUFFICES ASSUME NEW x \in L, NEW f \in Dirs, s[x][f] = c PROVE x = n /\ f = d
    OBVIOUS
  <2>1. Slot(L, x, f) /\ Slot(L, n, d)
    BY DEF Slot
  <2>2. s[x][f] = s[n][d] /\ s[x][f] \in L
    BY <1>2
  <2> HIDE DEF s
  <2> QED BY <2>1, <2>2, <1>0, OneParent
<1> HIDE DEF s, s1, o
<1>5. /\ s1[a][e] = c /\ s1[n][d] = s[c][o] /\ s1[c][o] = n
      /\ s1[n][o] = s[n][o] /\ s1[c][d] = s[c][d]
  BY <1>0, <1>1 DEF Rotated, o, s, s1
<1>6. \A x \in L, f \in Dirs : x # n /\ x # c /\ ~(x = a /\ f = e) =>
        s1[x][f] = s[x][f] /\ s[x][f] # n /\ s[x][f] # c
  <2> SUFFICES ASSUME NEW x \in L, NEW f \in Dirs, x # n, x # c, ~(x = a /\ f = e)
               PROVE  s1[x][f] = s[x][f] /\ s[x][f] # n /\ s[x][f] # c
    OBVIOUS
  <2>1. s1[x][f] = s[x][f]
    BY <1>0 DEF Rotated, s, s1
  <2> QED BY <2>1, <1>3, <1>4
<1>7. s[c][d] \notin {n, c} /\ s[c][o] \notin {n, c} /\ s[n][o] \notin {n, c}
  BY <1>0, <1>1, <1>3, <1>4
<1> QED BY <1>0, <1>1, <1>5, <1>6, <1>7 DEF o, TurnedTo

(* A rotation at n with the red child c, which takes the color of n and    *)
(* leaves it red, keeps the balance; so does one with a gap beside c.      *)
LEMMA TurnBalance ==
    ASSUME RbAssumption, NEW h \in Heap, NEW h1 \in Heap, NEW L, NEW T, Tree(h, L, T),
           NEW a, NEW e, Slot(L, a, e), NEW n \in L, h[a].sub[e] = n,
           NEW d \in Dirs, NEW c \in L, h[n].sub[d] = c, Rotated(SubOf(h), SubOf(h1), a, e, n, d, c),
           NEW B, NEW S, Balanced(h, L, B, S),
           <<n, d>> \notin S, <<c, d>> \notin S, <<c, Other(d)>> \notin S,
           h[c].color = "RED", h1[c].color = h[n].color, h1[n].color = "RED",
           \A x \in L : x # n /\ x # c => h1[x].color = h[x].color
    PROVE  /\ Balanced(h1, L, [B EXCEPT ![c] = B[n], ![n] = B[c]], S)
           /\ B[c] = B[h[c].sub[d]] /\ B[c] = B[h[c].sub[Other(d)]]
<1> DEFINE o == Other(d)
           B1 == [B EXCEPT ![c] = B[n], ![n] = B[c]]
<1>0. NULL \notin L /\ o \in Dirs /\ o # d /\ Dirs = {d, o}
      /\ \A x \in L, f \in Dirs : h[x].sub[f] \in L \cup {NULL}
  <2>1. L \subseteq Addr
    BY DEF Tree, Shape, Addr
  <2>2. \A x \in L, f \in Dirs : SubOf(h)[x][f] \in L \cup {NULL}
    BY DEF Tree, Shape
  <2> QED BY <2>1, <2>2, DirFacts, HeapSubs DEF RbAssumption, Tree, Shape
<1>1. /\ h1[a].sub[e] = c /\ h1[n].sub[d] = h[c].sub[o] /\ h1[c].sub[o] = n
      /\ h1[n].sub[o] = h[n].sub[o] /\ h1[c].sub[d] = h[c].sub[d]
      /\ h[c].sub[d] \notin {n, c} /\ h[c].sub[o] \notin {n, c}
      /\ h[n].sub[o] \notin {n, c}
      /\ a # n /\ a # c /\ c # n
  BY SMTT(30), TurnedSubs DEF TurnedTo
<1>2. \A x \in L, f \in Dirs : x # n /\ x # c /\ ~(x = a /\ f = e) =>
        h1[x].sub[f] = h[x].sub[f] /\ h[x].sub[f] # n /\ h[x].sub[f] # c
  BY TurnedSubs DEF TurnedTo
<1>3. /\ B1 \in [L \cup {NULL} -> Nat] /\ B1[NULL] = 0 /\ B1[c] = B[n] /\ B1[n] = B[c]
      /\ \A x \in L \cup {NULL} : x # n /\ x # c => B1[x] = B[x]
      /\ \A x \in L \cup {NULL} : B[x] \in Nat
  BY <1>0, <1>1 DEF Balanced
<1> HIDE DEF B1, o
<1>4. /\ \A x \in L : Wt(h, x) \in Nat
      /\ Wt(h, c) = 0 /\ Wt(h1, n) = 0 /\ Wt(h1, c) = Wt(h, n)
      /\ \A x \in L : x # n /\ x # c => Wt(h1, x) = Wt(h, x)
      /\ Gap(S, n, d) = 0 /\ Gap(S, c, d) = 0 /\ Gap(S, c, o) = 0
      /\ \A x \in L, f \in Dirs : Gap(S, x, f) \in Nat
  BY DEF Wt, Gap, o
<1>5. /\ B[c] = B[h[c].sub[d]] /\ B[c] = B[h[c].sub[o]]
      /\ B[n] = B[c] + Wt(h, n)
      /\ B[n] = B[h[n].sub[o]] + Wt(h, n) + Gap(S, n, o)
  <2>1. /\ B[c] = B[h[c].sub[d]] + Wt(h, c) + Gap(S, c, d)
        /\ B[c] = B[h[c].sub[o]] + Wt(h, c) + Gap(S, c, o)
        /\ B[n] = B[h[n].sub[d]] + Wt(h, n) + Gap(S, n, d)
        /\ B[n] = B[h[n].sub[o]] + Wt(h, n) + Gap(S, n, o)
    BY <1>0 DEF Balanced
  <2> QED BY <2>1, <1>0, <1>3, <1>4
<1>6. \A x \in L, f \in Dirs : B1[x] = B1[h1[x].sub[f]] + Wt(h1, x) + Gap(S, x, f)
  <2> SUFFICES ASSUME NEW x \in L, NEW f \in Dirs
               PROVE  B1[x] = B1[h1[x].sub[f]] + Wt(h1, x) + Gap(S, x, f)
    OBVIOUS
  <2>1. CASE x = n /\ f = d
    <3>1. B1[h1[n].sub[d]] = B[h[c].sub[o]]
      BY <1>0, <1>1, <1>3
    <3> QED BY <2>1, <3>1, <1>0, <1>3, <1>4, <1>5
  <2>2. CASE x = n /\ f = o
    <3>1. B1[h1[n].sub[o]] = B[h[n].sub[o]] /\ B[h[n].sub[o]] \in Nat
      BY <1>0, <1>1, <1>3
    <3> QED BY SMTT(30), <2>2, <3>1, <1>0, <1>3, <1>4, <1>5
  <2>3. CASE x = c /\ f = d
    <3>1. B1[h1[c].sub[d]] = B[h[c].sub[d]]
      BY <1>0, <1>1, <1>3
    <3> QED BY <2>3, <3>1, <1>0, <1>3, <1>4, <1>5
  <2>4. CASE x = c /\ f = o
    <3>1. B1[h1[c].sub[o]] = B[c]
      BY <1>0, <1>1, <1>3
    <3> QED BY <2>4, <3>1, <1>0, <1>3, <1>4, <1>5
  <2>5. CASE x = a /\ f = e
    <3>1. B1[h1[x].sub[f]] = B[h[x].sub[f]]
      BY <2>5, <1>1, <1>3
    <3>2. B1[x] = B[x] /\ Wt(h1, x) = Wt(h, x)
      BY <2>5, <1>1, <1>3, <1>4
    <3> QED BY <3>1, <3>2 DEF Balanced
  <2>6. CASE x # n /\ x # c /\ ~(x = a /\ f = e)
    <3>1. B1[h1[x].sub[f]] = B[h[x].sub[f]]
      BY <2>6, <1>0, <1>2, <1>3
    <3>2. B1[x] = B[x] /\ Wt(h1, x) = Wt(h, x)
      BY <2>6, <1>1, <1>3, <1>4
    <3> QED BY <3>1, <3>2 DEF Balanced
  <2> QED BY <1>0, <2>1, <2>2, <2>3, <2>4, <2>5, <2>6
<1>7. Balanced(h1, L, B1, S)
  BY <1>3, <1>6 DEF Balanced
<1> QED BY <1>5, <1>7 DEF B1, o

(* A rotation, whatever it does to colors, keeps the tree a search tree. *)
LEMMA TurnTree ==
    ASSUME RbAssumption, NEW h \in Heap, NEW h1 \in Heap, NEW L, NEW T, Tree(h, L, T),
           NEW a, NEW e, Slot(L, a, e), NEW n \in L, h[a].sub[e] = n,
           NEW d \in Dirs, NEW c \in L, h[n].sub[d] = c,
           SameEntries(h, h1), Rotated(SubOf(h), SubOf(h1), a, e, n, d, c)
    PROVE  Tree(h1, L, RotatedT(SubOf(h), T, n, d, c))
<1> DEFINE h2 == Rotate(h, Hop(a, e), n, d)
           s2 == SubOf(h2)
           s1 == SubOf(h1)
           T1 == RotatedT(SubOf(h), T, n, d, c)
<1>0. Turned(h, h2, a, e, n, d, c) /\ Tree(h2, L, T1)
  BY RotateTree
<1> HIDE DEF h2, T1
<1>1. s1 = s2
  <2>1. /\ Rotated(SubOf(h), s2, a, e, n, d, c)
    BY <1>0 DEF Turned
  <2>2. s1 \in Subs /\ s2 \in Subs
    BY <2>1 DEF Rotated
  <2>3. \A x \in Addr, f \in Dirs : s1[x][f] = s2[x][f]
    BY <2>1 DEF Rotated
  <2> HIDE DEF s1, s2
  <2> QED BY <2>2, <2>3 DEF Subs
<1>2. KeyOf(h1) = KeyOf(h2)
  BY <1>0 DEF KeyOf, Turned, SameEntries
<1> HIDE DEF s1, s2
<1>3. Shape(KeyOf(h2), s1, L, T1) /\ Outside(s1, L) /\ IsFiniteSet(L)
  BY <1>0, <1>1 DEF Tree, s2
<1> QED BY <1>2, <1>3 DEF Tree, s1, T1

(* A rotation at n with the red child c, which takes the color of n and    *)
(* leaves it red.                                                          *)
Swung(h, h1, L, a, e, n, d, c) ==
    /\ h1 \in Heap /\ SameEntries(h, h1)
    /\ Rotated(SubOf(h), SubOf(h1), a, e, n, d, c)
    /\ h1[c].color = h[n].color /\ h1[n].color = "RED"
    /\ \A x \in L : x # n /\ x # c => h1[x].color = h[x].color

SwungB(B, n, c) == [B EXCEPT ![c] = B[n], ![n] = B[c]]

(* Some tree of the nodes L, balanced by B but for S. *)
TreeWith(h, L, B, S) == (\E T : Tree(h, L, T)) /\ Balanced(h, L, B, S)

(* A rotation of a red child over its parent, the two exchanging colors,   *)
(* keeps the black heights.                                                *)
LEMMA SwingIs ==
    ASSUME RbAssumption, NEW h \in Heap, NEW h1, NEW L, NEW T, Tree(h, L, T),
           NEW a, NEW e, Slot(L, a, e), NEW n \in L, h[a].sub[e] = n,
           NEW d \in Dirs, NEW c \in L, h[n].sub[d] = c, h[c].color = "RED",
           NEW B, NEW S, Balanced(h, L, B, S),
           <<n, d>> \notin S, <<c, d>> \notin S, <<c, Other(d)>> \notin S,
           Swung(h, h1, L, a, e, n, d, c)
    PROVE  TreeWith(h1, L, SwungB(B, n, c), S)
<1>1. h1 \in Heap /\ Tree(h1, L, RotatedT(SubOf(h), T, n, d, c))
  BY TurnTree DEF Swung
<1>2. Balanced(h1, L, SwungB(B, n, c), S)
  BY <1>1, TurnBalance DEF Swung, SwungB
<1> QED BY <1>1, <1>2 DEF TreeWith

(* Pointers of the heap lead into the tree. *)
LEMMA TreeSubs ==
    ASSUME RbAssumption, NEW h \in Heap, NEW L, NEW T, Tree(h, L, T)
    PROVE  /\ L \subseteq Nodes /\ L \subseteq Addr /\ NULL \notin L /\ ROOT \notin L /\ ROOT \in Addr
           /\ \A x \in L, f \in Dirs : h[x].sub[f] \in L \cup {NULL}
           /\ h[ROOT].sub[RBT_LEFT] \in L \cup {NULL}
           /\ \A a, e : Slot(L, a, e) => h[a].sub[e] \in L \cup {NULL} /\ a \in Addr /\ e \in Dirs
           /\ \A x \in Addr : h[x].color \in {"RED", "BLACK"}
           /\ \A a, e, b, f : Slot(L, a, e) /\ Slot(L, b, f) /\ h[a].sub[e] = h[b].sub[f]
                              /\ h[a].sub[e] # NULL => a = b /\ e = f
<1>1. L \subseteq Nodes /\ L \subseteq Addr /\ NULL \notin L /\ ROOT \notin L /\ ROOT \in Addr
  BY DEF Tree, Shape, Addr, RbAssumption
<1>2. \A x \in Addr : SubOf(h)[x] = h[x].sub
  BY HeapSubs
<1>3. /\ \A x \in L, f \in Dirs : h[x].sub[f] \in L \cup {NULL}
      /\ h[ROOT].sub[RBT_LEFT] \in L \cup {NULL}
  BY <1>1, <1>2 DEF Tree, Shape
<1>4. \A a, e : Slot(L, a, e) => h[a].sub[e] \in L \cup {NULL} /\ a \in Addr /\ e \in Dirs
  BY <1>1, <1>3 DEF Slot, Dirs
<1>5. \A x \in Addr : h[x].color \in {"RED", "BLACK"}
  BY DEF Heap, Node
<1>6. ASSUME NEW a, NEW e, NEW b, NEW f, Slot(L, a, e), Slot(L, b, f), h[a].sub[e] = h[b].sub[f],
             h[a].sub[e] # NULL
      PROVE  a = b /\ e = f
  <2>1. SubOf(h)[a][e] = SubOf(h)[b][f] /\ SubOf(h)[a][e] \in L
    BY <1>6, <1>2, <1>4
  <2> QED BY <2>1, <1>6, OneParent DEF Tree
<1> QED BY <1>1, <1>3, <1>4, <1>5, <1>6

(* A node's child is another node, and not the parent of its parent. *)
LEMMA TreeChild ==
    ASSUME RbAssumption, NEW h \in Heap, NEW L, NEW T, Tree(h, L, T),
           NEW a, NEW e, Slot(L, a, e), NEW n \in L, h[a].sub[e] = n
    PROVE  /\ a # n
           /\ \A d \in Dirs : h[n].sub[d] # n /\ h[n].sub[d] # a
           /\ \A d \in Dirs : h[n].sub[d] # NULL => h[n].sub[d] \in L
           /\ \A d, f \in Dirs : h[n].sub[d] = h[n].sub[f] /\ h[n].sub[d] # NULL => d = f
<1>1. /\ L \subseteq Addr /\ ROOT \notin L /\ NULL \notin L
      /\ \A x \in L, f \in Dirs : h[x].sub[f] \in L \cup {NULL}
      /\ a \in Addr /\ e \in Dirs
  BY TreeSubs DEF Slot, Dirs
<1>2. \A x \in Addr : SubOf(h)[x] = h[x].sub
  BY HeapSubs
<1>3. Shape(KeyOf(h), SubOf(h), L, T)
  BY DEF Tree
<1>4. SubOf(h)[a][e] = n
  BY <1>1, <1>2
<1>5. a # n
  BY <1>1, <1>3, <1>4, Child DEF Slot
<1>6. ASSUME NEW d \in Dirs
      PROVE  h[n].sub[d] # n /\ h[n].sub[d] # a
  <2>1. SubOf(h)[n][d] = h[n].sub[d] /\ h[n].sub[d] \in L \cup {NULL}
    BY <1>1, <1>2
  <2>2. h[n].sub[d] # n
    BY <2>1, <1>1, <1>3, Child
  <2>3. ASSUME h[n].sub[d] = a PROVE FALSE
    <3>0. a # NULL
      BY <1>1 DEF Slot, RbAssumption
    <3>1. a \in L /\ a = SubOf(h)[n][d]
      BY <2>1, <2>3, <3>0
    <3>2. n \notin T[a]
      BY <1>3, <3>1, Child
    <3>3. n \in T[a]
      BY <1>1, <1>3, <1>4, <3>1, Child
    <3> QED BY <3>2, <3>3
  <2> QED BY <2>2, <2>3
<1>7. ASSUME NEW d \in Dirs, NEW f \in Dirs, h[n].sub[d] = h[n].sub[f], h[n].sub[d] # NULL
      PROVE  d = f
  <2>1. Slot(L, n, d) /\ Slot(L, n, f)
    BY DEF Slot
  <2> QED BY <2>1, <1>7, TreeSubs
<1> QED BY <1>1, <1>5, <1>6, <1>7

(* The two orders in which the code rotates and paints. *)
LEMMA PaintThenRotate ==
    ASSUME RbAssumption, NEW h \in Heap, NEW L, NEW T, Tree(h, L, T),
           NEW a, NEW e, Slot(L, a, e), NEW n \in L, h[a].sub[e] = n,
           NEW d \in Dirs, NEW c \in L, h[n].sub[d] = c, h[n].color = "BLACK"
    PROVE  Swung(h, Rotate(Paint(Paint(h, c, "BLACK"), n, "RED"), Hop(a, e), n, d), L, a, e, n, d, c)
<1> DEFINE h1 == Paint(h, c, "BLACK")
           h2 == Paint(h1, n, "RED")
           h3 == Rotate(h2, Hop(a, e), n, d)
<1>0. L \subseteq Addr /\ L \subseteq Nodes /\ a \in Addr /\ e \in Dirs
  BY TreeSubs DEF Slot, Dirs
<1>1. a # n /\ c # n /\ a # c
  BY TreeChild
<1>2. Painted(h, h1, c, "BLACK")
  BY <1>0, PaintIs
<1> HIDE DEF h1
<1>3. Painted(h1, h2, n, "RED")
  <2>1. h1 \in Heap
    BY <1>2 DEF Painted
  <2> QED BY <1>0, <2>1, PaintIs
<1> HIDE DEF h2
<1>4. h2 \in Heap /\ h2[n].sub[d] = c
  BY <1>0, <1>2, <1>3 DEF Painted
<1>5. Turned(h2, h3, a, e, n, d, c)
  BY <1>0, <1>1, <1>4, RotateIs
<1> HIDE DEF h3
<1>6. SubOf(h2) = SubOf(h) /\ SameEntries(h, h2)
  BY <1>2, <1>3 DEF SubOf, Painted, SameEntries
<1>7. h3 \in Heap /\ SameEntries(h, h3) /\ Rotated(SubOf(h), SubOf(h3), a, e, n, d, c)
  BY <1>5, <1>6 DEF Turned, SameEntries
<1>8. \A x \in Addr : h3[x].color = h2[x].color
  BY <1>5 DEF Turned, SameColors
<1>9. h2[c].color = "BLACK" /\ h2[n].color = "RED" /\ \A x \in Addr : x # n /\ x # c => h2[x].color = h[x].color
  BY <1>0, <1>1, <1>2, <1>3 DEF Painted
<1>10. Swung(h, h3, L, a, e, n, d, c)
  BY <1>0, <1>7, <1>8, <1>9 DEF Swung
<1> QED BY <1>10 DEF h1, h2, h3

(* Rotating over a black node and painting the two is such an exchange. *)
LEMMA RotateThenPaint ==
    ASSUME RbAssumption, NEW h \in Heap, NEW L, NEW T, Tree(h, L, T),
           NEW a, NEW e, Slot(L, a, e), NEW n \in L, h[a].sub[e] = n,
           NEW d \in Dirs, NEW c \in L, h[n].sub[d] = c, h[n].color = "BLACK"
    PROVE  Swung(h, Paint(Paint(Rotate(h, Hop(a, e), n, d), n, "RED"), c, "BLACK"), L, a, e, n, d, c)
<1> DEFINE h1 == Rotate(h, Hop(a, e), n, d)
           h2 == Paint(h1, n, "RED")
           h3 == Paint(h2, c, "BLACK")
<1>0. L \subseteq Addr /\ L \subseteq Nodes /\ a \in Addr /\ e \in Dirs
  BY TreeSubs DEF Slot, Dirs
<1>1. a # n /\ c # n /\ a # c
  BY TreeChild
<1>2. Turned(h, h1, a, e, n, d, c)
  BY <1>0, <1>1, RotateIs
<1> HIDE DEF h1
<1>3. Painted(h1, h2, n, "RED")
  <2>1. h1 \in Heap
    BY <1>2 DEF Turned
  <2> QED BY <1>0, <2>1, PaintIs
<1> HIDE DEF h2
<1>4. Painted(h2, h3, c, "BLACK")
  <2>1. h2 \in Heap
    BY <1>3 DEF Painted
  <2> QED BY <1>0, <2>1, PaintIs
<1> HIDE DEF h3
<1>5. SubOf(h3) = SubOf(h1)
  BY <1>3, <1>4 DEF SubOf, Painted
<1>6. h3 \in Heap /\ SameEntries(h, h3)
  BY <1>2, <1>3, <1>4 DEF Painted, Turned, SameEntries
<1>7. \A x \in Addr : h1[x].color = h[x].color
  BY <1>2 DEF Turned, SameColors
<1>8. h3[c].color = "BLACK" /\ h3[n].color = "RED" /\ \A x \in Addr : x # n /\ x # c => h3[x].color = h1[x].color
  BY <1>0, <1>1, <1>3, <1>4 DEF Painted
<1>9. Swung(h, h3, L, a, e, n, d, c)
  BY <1>0, <1>2, <1>5, <1>6, <1>7, <1>8 DEF Swung, Turned
<1> QED BY <1>9 DEF h1, h2, h3

(* So is rotating one red node over another. *)
LEMMA RotateReds ==
    ASSUME RbAssumption, NEW h \in Heap, NEW L, NEW T, Tree(h, L, T),
           NEW a, NEW e, Slot(L, a, e), NEW n \in L, h[a].sub[e] = n,
           NEW d \in Dirs, NEW c \in L, h[n].sub[d] = c, h[n].color = "RED", h[c].color = "RED"
    PROVE  Swung(h, Rotate(h, Hop(a, e), n, d), L, a, e, n, d, c)
<1> DEFINE h1 == Rotate(h, Hop(a, e), n, d)
<1>0. L \subseteq Addr /\ L \subseteq Nodes /\ a \in Addr /\ e \in Dirs
  BY TreeSubs DEF Slot, Dirs
<1>1. a # n /\ c # n /\ a # c
  BY TreeChild
<1>2. Turned(h, h1, a, e, n, d, c)
  BY <1>0, <1>1, RotateIs
<1> HIDE DEF h1
<1>3. Swung(h, h1, L, a, e, n, d, c)
  BY <1>0, <1>2 DEF Swung, Turned, SameColors
<1> QED BY <1>3 DEF h1

-----------------------------------------------------------------------------
(* HXrbtree_amov.                                                          *)

(* The node a path ends above. *)
End(h, p) == h[p[Len(p)].nd].sub[p[Len(p)].dir]

(* The front of a path is a path. *)
LEMMA PathFront ==
    ASSUME NEW s, NEW L, NEW p, GoodPath(s, L, p), NEW i \in 1 .. Len(p)
    PROVE  /\ GoodPath(s, L, SubSeq(p, 1, i)) /\ Len(SubSeq(p, 1, i)) = i
           /\ \A j \in 1 .. i : SubSeq(p, 1, i)[j] = p[j]
<1> DEFINE q == SubSeq(p, 1, i)
           H == Hops(L \cup {ROOT})
<1>0. p \in Seq(H) /\ Len(p) \in Nat /\ p # <<>>
  BY DEF GoodPath
<1> HIDE DEF H
<1>1. q \in Seq(H) /\ Len(q) = i /\ \A j \in 1 .. i : q[j] = p[j]
  <2>1. i \in 1 .. Len(p) /\ 1 \in 1 .. Len(p) + 1
    BY <1>0
  <2>2. \A j \in 1 .. Len(p) : p[j] \in H
    BY <1>0
  <2>3. Len(q) = i /\ \A j \in 1 .. i : q[j] = p[j]
    BY <1>0, <2>1
  <2> QED BY <1>0, <2>1, <2>2, <2>3
<1> HIDE DEF q
<1>2. q # <<>> /\ q[1] = Hop(ROOT, RBT_LEFT)
  BY <1>0, <1>1 DEF GoodPath
<1>3. \A j \in 2 .. Len(q) : q[j].nd \in L
  BY <1>0, <1>1 DEF GoodPath
<1>4. \A j \in 1 .. Len(q) - 1 : s[q[j].nd][q[j].dir] = q[j + 1].nd
  <2> SUFFICES ASSUME NEW j \in 1 .. Len(q) - 1
               PROVE  s[q[j].nd][q[j].dir] = q[j + 1].nd
    OBVIOUS
  <2>1. j \in 1 .. i /\ j + 1 \in 1 .. i /\ j \in 1 .. Len(p) - 1
    BY <1>0, <1>1
  <2>2. q[j] = p[j] /\ q[j + 1] = p[j + 1]
    BY <1>1, <2>1
  <2> QED BY <2>1, <2>2 DEF GoodPath
<1> QED BY <1>1, <1>2, <1>3, <1>4 DEF GoodPath, q, H

(* The hops of a path and the heap. *)
LEMMA PathHeap ==
    ASSUME RbAssumption, NEW h \in Heap, NEW L, NEW T, Tree(h, L, T), NEW p, GoodPath(SubOf(h), L, p)
    PROVE  /\ Len(p) \in Nat /\ Len(p) >= 1
           /\ Last(p) = p[Len(p)]
           /\ End(h, p) \in L \cup {NULL}
           /\ \A i \in 1 .. Len(p) : Slot(L, p[i].nd, p[i].dir) /\ p[i] = Hop(p[i].nd, p[i].dir)
                                     /\ p[i].dir \in Dirs
           /\ p[1] = Hop(ROOT, RBT_LEFT)
           /\ \A i \in 2 .. Len(p) : p[i].nd \in L
           /\ \A i \in 1 .. Len(p) - 1 : h[p[i].nd].sub[p[i].dir] = p[i + 1].nd
           /\ \A i \in 1 .. Len(p) : p[i].nd = ROOT => i = 1
<1>1. Len(p) \in Nat /\ Len(p) >= 1
  BY DEF GoodPath
<1>2. Last(p) = p[Len(p)]
  BY <1>1 DEF Last
<1>3. \A i \in 1 .. Len(p) : /\ Slot(L, p[i].nd, p[i].dir) /\ p[i] = Hop(p[i].nd, p[i].dir)
                             /\ p[i].dir \in Dirs /\ (i > 1 => p[i].nd \in L)
  BY PathSlot
<1>4. p[1] = Hop(ROOT, RBT_LEFT) /\ \A i \in 2 .. Len(p) : p[i].nd \in L
  BY DEF GoodPath
<1>5. \A i \in 1 .. Len(p) - 1 : h[p[i].nd].sub[p[i].dir] = p[i + 1].nd
  <2> SUFFICES ASSUME NEW i \in 1 .. Len(p) - 1
               PROVE  h[p[i].nd].sub[p[i].dir] = p[i + 1].nd
    OBVIOUS
  <2>1. i \in 1 .. Len(p)
    BY <1>1
  <2>2. p[i].nd \in Addr
    BY <2>1, <1>3, TreeSubs
  <2>3. SubOf(h)[p[i].nd] = h[p[i].nd].sub
    BY <2>2, HeapSubs
  <2> QED BY <2>3 DEF GoodPath
<1>6. End(h, p) \in L \cup {NULL}
  BY <1>1, <1>3, TreeSubs DEF End
<1>7. \A i \in 1 .. Len(p) : p[i].nd = ROOT => i = 1
  <2>1. ROOT \notin L
    BY TreeSubs
  <2> QED BY <1>1, <1>3, <2>1
<1> QED BY <1>1, <1>2, <1>3, <1>4, <1>5, <1>6, <1>7

(* What PathHeap says of the hops of a path. *)
LEMMA PathHops ==
    ASSUME RbAssumption, NEW h \in Heap, NEW L, NEW T, Tree(h, L, T), NEW p, GoodPath(SubOf(h), L, p)
    PROVE  \A i \in 1 .. Len(p) - 1 : h[p[i].nd].sub[p[i].dir] = p[i + 1].nd
  BY PathHeap

(* While HXrbtree_amov rebalances: only the node at the end of the path    *)
(* may be red below a red one.                                             *)
Adding(h, L, T, B, p) ==
    /\ h \in Heap
    /\ Tree(h, L, T)
    /\ Balanced(h, L, B, {})
    /\ GoodPath(SubOf(h), L, p)
    /\ End(h, p) \in L /\ IsRed(h, End(h, p))
    /\ RedFree(h, L, {}, {End(h, p)})
    /\ IsRed(h, h[ROOT].sub[RBT_LEFT]) => Len(p) = 1

(* The nodes amov looks at: the end x of the path, its parent q, and g     *)
(* above q on side d.                                                      *)
Family(h, L, p, q, g, d, x) ==
    /\ q \in L /\ g \in L /\ x \in L /\ d \in Dirs /\ Other(d) \in Dirs /\ Other(d) # d
    /\ h[g].sub[d] = q /\ p[Len(p)].dir \in Dirs /\ h[q].sub[p[Len(p)].dir] = x
    /\ q # g /\ q # x /\ g # x
    /\ h[q].color = "RED" /\ h[x].color = "RED" /\ h[g].color = "BLACK"
    /\ Slot(L, p[Len(p) - 2].nd, p[Len(p) - 2].dir)
    /\ h[p[Len(p) - 2].nd].sub[p[Len(p) - 2].dir] = g
    /\ p[Len(p) - 2] = Hop(p[Len(p) - 2].nd, p[Len(p) - 2].dir)
    /\ \A n \in L, f \in Dirs : h[n].sub[f] = q => n = g /\ f = d
    /\ \A n \in L, f \in Dirs : h[n].sub[f] = x => n = q /\ f = p[Len(p)].dir
    /\ \A n \in L, f \in Dirs : h[n].sub[f] = g => n = p[Len(p) - 2].nd /\ f = p[Len(p) - 2].dir
    /\ h[g].sub[Other(d)] \notin {q, g, x}
    /\ \A f \in Dirs : h[q].sub[f] \notin {q, g} /\ h[x].sub[f] \notin {q, g, x}
    /\ x = End(h, p)

(* In HXrbtree_amov, a red parent has a black parent itself, and both are  *)
(* in the path where the code looks for them.                              *)
LEMMA Relatives ==
    ASSUME RbAssumption, NEW h, NEW L, NEW T, NEW B, NEW p, Adding(h, L, T, B, p), Len(p) >= 3,
           IsRed(h, p[Len(p)].nd)
    PROVE  Family(h, L, p, p[Len(p)].nd, p[Len(p) - 1].nd, p[Len(p) - 1].dir, End(h, p))
<1> DEFINE q == p[Len(p)].nd
           g == p[Len(p) - 1].nd
           d == p[Len(p) - 1].dir
           x == End(h, p)
<1>0. h \in Heap /\ Tree(h, L, T) /\ GoodPath(SubOf(h), L, p)
  BY DEF Adding
<1>1. Len(p) \in Nat /\ Len(p) \in 1 .. Len(p) /\ Len(p) - 1 \in 1 .. Len(p) /\ Len(p) - 2 \in 1 .. Len(p)
      /\ Len(p) - 1 \in 1 .. Len(p) - 1 /\ Len(p) - 2 \in 1 .. Len(p) - 1
      /\ Len(p) \in 2 .. Len(p) /\ Len(p) - 1 \in 2 .. Len(p)
      /\ (Len(p) - 1) + 1 = Len(p) /\ (Len(p) - 2) + 1 = Len(p) - 1
  BY <1>0, PathHeap
<1>2. q \in L /\ g \in L /\ d \in Dirs /\ p[Len(p)].dir \in Dirs /\ Slot(L, p[Len(p) - 2].nd, p[Len(p) - 2].dir)
      /\ p[Len(p) - 2] = Hop(p[Len(p) - 2].nd, p[Len(p) - 2].dir)
  <2>1. /\ \A i \in 1 .. Len(p) : Slot(L, p[i].nd, p[i].dir) /\ p[i] = Hop(p[i].nd, p[i].dir)
                                    /\ p[i].dir \in Dirs
        /\ \A i \in 2 .. Len(p) : p[i].nd \in L
    BY <1>0, PathHeap
  <2> QED BY <1>1, <2>1
<1>3. h[g].sub[d] = q /\ h[p[Len(p) - 2].nd].sub[p[Len(p) - 2].dir] = g
  <2>1. \A i \in 1 .. Len(p) - 1 : h[p[i].nd].sub[p[i].dir] = p[i + 1].nd
    BY <1>0, PathHeap
  <2>2. h[p[Len(p) - 1].nd].sub[p[Len(p) - 1].dir] = p[(Len(p) - 1) + 1].nd
    BY <2>1, <1>1
  <2>3. h[p[Len(p) - 2].nd].sub[p[Len(p) - 2].dir] = p[(Len(p) - 2) + 1].nd
    BY <2>1, <1>1
  <2> QED BY <1>1, <2>2, <2>3
<1> HIDE DEF x
<1>4. x \in L /\ h[q].sub[p[Len(p)].dir] = x
  BY DEF Adding, End, x
<1> HIDE DEF q, g, d
<1>5. Other(d) \in Dirs /\ Other(d) # d
  BY <1>2, DirFacts
<1>6. /\ \A n \in L, f \in Dirs : h[n].sub[f] = q => n = g /\ f = d
      /\ \A n \in L, f \in Dirs : h[n].sub[f] = x => n = q /\ f = p[Len(p)].dir
      /\ \A n \in L, f \in Dirs : h[n].sub[f] = g => n = p[Len(p) - 2].nd /\ f = p[Len(p) - 2].dir
  <2>1. NULL \notin L
    BY <1>0, TreeSubs
  <2>2. \A a, e, b, f : Slot(L, a, e) /\ Slot(L, b, f) /\ h[a].sub[e] = h[b].sub[f]
                              /\ h[a].sub[e] # NULL => a = b /\ e = f
    BY <1>0, TreeSubs
  <2>3. \A n \in L, f \in Dirs : Slot(L, n, f)
    BY DEF Slot
  <2> QED BY <1>2, <1>3, <1>4, <2>1, <2>2, <2>3
<1>7. /\ q # g /\ \A f \in Dirs : h[q].sub[f] \notin {q, g}
  <2>1. Slot(L, g, d)
    BY <1>2 DEF Slot
  <2> QED BY <2>1, <1>0, <1>2, <1>3, TreeChild
<1>8. x # q /\ x # g
  BY <1>2, <1>4, <1>7
<1>9. \A f \in Dirs : h[x].sub[f] \notin {q, g, x}
  <2>1. Slot(L, q, p[Len(p)].dir)
    BY <1>2 DEF Slot
  <2>2. \A f \in Dirs : h[x].sub[f] # x /\ h[x].sub[f] # q
    BY <2>1, <1>0, <1>4, TreeChild
  <2>3. ASSUME NEW f \in Dirs, h[x].sub[f] = g PROVE FALSE
    <3> DEFINE T1 == T[x]
               s == SubOf(h)
    <3>1. Shape(KeyOf(h), s, L, T)
      BY <1>0 DEF Tree
    <3>2. s[x][f] = g /\ s[g][d] = q /\ s[q][p[Len(p)].dir] = x
      <4>1. L \subseteq Addr
        BY <1>0, TreeSubs
      <4> QED BY <4>1, <1>0, <1>2, <1>3, <1>4, <2>3, HeapSubs
    <3> HIDE DEF s
    <3>3. g \in T[x] /\ g # x
      BY <3>1, <3>2, <1>2, <1>4, <2>3, Child
    <3>4. q \in T[g] /\ T[q] \subseteq T[g]
      BY <3>1, <3>2, <1>2, Child
    <3>5. x \in T[q]
      BY <3>1, <3>2, <1>2, <1>4, Child
    <3>6. x = g
      BY <3>1, <3>3, <3>4, <3>5, <1>2, <1>4, Antisymmetric
    <3> QED BY <3>3, <3>6
  <2> QED BY <2>2, <2>3
<1>10. h[g].sub[Other(d)] \notin {q, g, x}
  <2>1. h[g].sub[Other(d)] # g
    BY <1>0, <1>2, <1>3, <1>5, TreeChild
  <2> QED BY <2>1, <1>2, <1>5, <1>6, <1>7
<1>11. h[q].color = "RED" /\ h[x].color = "RED" /\ h[g].color = "BLACK"
  <2>1. h[q].color = "RED" /\ h[x].color = "RED"
    BY DEF Adding, IsRed, x, q
  <2>2. NULL \notin L /\ h[g].color \in {"RED", "BLACK"}
    BY <1>0, <1>2, TreeSubs
  <2>3. ~IsRed(h, g)
    BY <1>2, <1>3, <1>8, <2>1, <2>2 DEF Adding, RedFree, IsRed, x
  <2> QED BY <1>2, <2>1, <2>2, <2>3 DEF IsRed
<1> QED BY <1>2, <1>3, <1>4, <1>5, <1>6, <1>7, <1>8, <1>9, <1>10, <1>11 DEF Family, q, g, d, x

RecolorB(B, q, u) == [B EXCEPT ![q] = B[q] + 1, ![u] = B[u] + 1]

Recolored(h, h1, q, u, g) ==
    /\ h1 \in Heap /\ SameEntries(h, h1)
    /\ \A a \in Addr : h1[a].sub = h[a].sub
    /\ h1[q].color = "BLACK" /\ h1[u].color = "BLACK" /\ h1[g].color = "RED"
    /\ \A a \in Addr : a \notin {q, u, g} => h1[a].color = h[a].color

(* The three assignments of the red uncle case. *)
LEMMA PaintThree ==
    ASSUME NEW h \in Heap, NEW q \in Addr, NEW u \in Addr, NEW g \in Addr, q # g, u # g
    PROVE  Recolored(h, Paint(Paint(Paint(h, q, "BLACK"), u, "BLACK"), g, "RED"), q, u, g)
<1> DEFINE ha == Paint(h, q, "BLACK")
           hb == Paint(ha, u, "BLACK")
           h1 == Paint(hb, g, "RED")
<1>1. Painted(h, ha, q, "BLACK")
  BY PaintIs
<1> HIDE DEF ha
<1>1a. ha \in Heap
  BY <1>1 DEF Painted
<1>2. Painted(ha, hb, u, "BLACK")
  BY <1>1a, PaintIs
<1> HIDE DEF hb
<1>2a. hb \in Heap
  BY <1>2 DEF Painted
<1>4. Painted(hb, h1, g, "RED")
  BY <1>2a, PaintIs
<1> HIDE DEF h1
<1>5. h1 \in Heap /\ SameEntries(h, h1) /\ \A a \in Addr : h1[a].sub = h[a].sub
  BY <1>1, <1>2, <1>4 DEF Painted, SameEntries
<1>6. /\ h1[q].color = "BLACK" /\ h1[u].color = "BLACK" /\ h1[g].color = "RED"
      /\ \A a \in Addr : a \notin {q, u, g} => h1[a].color = h[a].color
  BY <1>1, <1>2, <1>4 DEF Painted
<1>7. Recolored(h, h1, q, u, g)
  BY <1>5, <1>6 DEF Recolored
<1> QED BY <1>7 DEF ha, hb, h1

(* The red uncle case of HXrbtree_amov leaves the tree as the loop expects *)
(* it, two levels up.                                                      *)
LEMMA RecolorIs ==
    ASSUME RbAssumption, NEW h, NEW L, NEW T, NEW B, NEW p, Adding(h, L, T, B, p), Len(p) >= 3,
           NEW q, NEW g, NEW d, NEW x, Family(h, L, p, q, g, d, x),
           NEW u, h[g].sub[Other(d)] = u, IsRed(h, u),
           NEW h1, Recolored(h, h1, q, u, g)
    PROVE  Adding(h1, L, T, RecolorB(B, q, u), SubSeq(p, 1, Len(p) - 2))
<1> DEFINE o == Other(d)
           p1 == SubSeq(p, 1, Len(p) - 2)
           B1 == RecolorB(B, q, u)
<1>0. h \in Heap /\ Tree(h, L, T) /\ GoodPath(SubOf(h), L, p) /\ Balanced(h, L, B, {})
      /\ RedFree(h, L, {}, {End(h, p)}) /\ (IsRed(h, h[ROOT].sub[RBT_LEFT]) => Len(p) = 1)
  BY DEF Adding
<1>1. /\ q \in L /\ g \in L /\ x \in L /\ d \in Dirs /\ o \in Dirs /\ o # d
      /\ h[g].sub[d] = q /\ q # g /\ q # x /\ g # x
      /\ h[q].color = "RED" /\ h[x].color = "RED" /\ h[g].color = "BLACK"
      /\ Slot(L, p[Len(p) - 2].nd, p[Len(p) - 2].dir)
      /\ h[p[Len(p) - 2].nd].sub[p[Len(p) - 2].dir] = g
      /\ \A n \in L, f \in Dirs : h[n].sub[f] = q => n = g /\ f = d
      /\ \A n \in L, f \in Dirs : h[n].sub[f] = x => n = q
      /\ u \notin {q, g, x} /\ x = End(h, p)
  BY DEF Family
<1> HIDE DEF o
<1>2. /\ L \subseteq Addr /\ NULL \notin L /\ ROOT \in Addr /\ Dirs = {d, o}
      /\ \A n \in L, f \in Dirs : h[n].sub[f] \in L \cup {NULL}
      /\ h[ROOT].sub[RBT_LEFT] \in L \cup {NULL}
      /\ \A n \in Addr : h[n].color \in {"RED", "BLACK"}
  BY <1>0, <1>1, TreeSubs, DirFacts DEF o
<1>3. u \in L /\ h[u].color = "RED" /\ h[g].sub[o] = u
  <2>1. h[g].sub[o] = u
    BY DEF o
  <2> QED BY <2>1, <1>1, <1>2 DEF IsRed
<1>4. \A n \in L, f \in Dirs : h[n].sub[f] = u => n = g /\ f = o
  <2>1. \A a, e, b, f : Slot(L, a, e) /\ Slot(L, b, f) /\ h[a].sub[e] = h[b].sub[f]
                              /\ h[a].sub[e] # NULL => a = b /\ e = f
    BY <1>0, TreeSubs
  <2>2. \A n \in L, f \in Dirs : Slot(L, n, f)
    BY DEF Slot
  <2> QED BY <2>1, <2>2, <1>1, <1>2, <1>3
<1>5. /\ h1 \in Heap /\ SameEntries(h, h1)
      /\ \A a \in Addr : h1[a].sub = h[a].sub
      /\ h1[q].color = "BLACK" /\ h1[u].color = "BLACK" /\ h1[g].color = "RED"
      /\ \A a \in Addr : a \notin {q, u, g} => h1[a].color = h[a].color
  BY DEF Recolored
<1>6. Tree(h1, L, T)
  BY <1>0, <1>5, SameTree
<1>7. Balanced(h1, L, B1, {})
  <2>1. /\ B1 \in [L \cup {NULL} -> Nat] /\ B1[NULL] = 0
        /\ B1[q] = B[q] + 1 /\ B1[u] = B[u] + 1
        /\ \A n \in L \cup {NULL} : n # q /\ n # u => B1[n] = B[n]
        /\ \A n \in L \cup {NULL} : B[n] \in Nat
    <3>1. B \in [L \cup {NULL} -> Nat] /\ B[NULL] = 0
      BY <1>0 DEF Balanced
    <3>2. q # NULL /\ u # NULL /\ q # u
      BY <1>1, <1>2, <1>3
    <3>3. q \in L \cup {NULL} /\ u \in L \cup {NULL} /\ B[q] + 1 \in Nat /\ B[u] + 1 \in Nat
      BY <3>1, <1>1, <1>3
    <3> QED BY <3>1, <3>2, <3>3 DEF RecolorB
  <2> HIDE DEF B1
  <2>2. /\ Wt(h, q) = 0 /\ Wt(h, u) = 0 /\ Wt(h, g) = 1 /\ Wt(h1, q) = 1 /\ Wt(h1, u) = 1 /\ Wt(h1, g) = 0
        /\ \A n \in L : n \notin {q, u, g} => Wt(h1, n) = Wt(h, n)
        /\ \A n \in L : Wt(h, n) \in Nat
        /\ \A n, f : Gap({}, n, f) = 0
    BY <1>1, <1>2, <1>3, <1>5 DEF Wt, Gap
  <2>3. \A n \in L, f \in Dirs : B[n] = B[h[n].sub[f]] + Wt(h, n) + Gap({}, n, f)
    BY <1>0 DEF Balanced
  <2>4. \A n \in L, f \in Dirs : B1[n] = B1[h1[n].sub[f]] + Wt(h1, n) + Gap({}, n, f)
    <3> SUFFICES ASSUME NEW n \in L, NEW f \in Dirs
                 PROVE  B1[n] = B1[h1[n].sub[f]] + Wt(h1, n) + Gap({}, n, f)
      OBVIOUS
    <3>0. h1[n].sub[f] = h[n].sub[f] /\ B[h[n].sub[f]] \in Nat
      BY <1>2, <1>5, <2>1
    <3>1. CASE n = g
      BY SMTT(30), <3>0, <3>1, <1>1, <1>2, <1>3, <2>1, <2>2, <2>3
    <3>2. CASE n # g
      <4>1. B1[h[n].sub[f]] = B[h[n].sub[f]]
        BY SMTT(30), <3>2, <1>1, <1>2, <1>4, <2>1
      <4>2. B[n] = B[h[n].sub[f]] + Wt(h, n) + Gap({}, n, f)
        BY <2>3
      <4>3. CASE n = q \/ n = u
        BY <3>0, <4>1, <4>2, <4>3, <2>1, <2>2
      <4>4. CASE n # q /\ n # u
        BY <3>0, <3>2, <4>1, <4>2, <4>4, <2>1, <2>2
      <4> QED BY <4>3, <4>4
    <3> QED BY <3>1, <3>2
  <2> QED BY <2>1, <2>4 DEF Balanced
<1>8. Len(p) \in Nat /\ Len(p) - 2 \in 1 .. Len(p) /\ Len(p) # 1
  BY <1>0, PathHeap
<1>9. GoodPath(SubOf(h), L, p1) /\ Len(p1) = Len(p) - 2 /\ p1[Len(p1)] = p[Len(p) - 2]
  BY <1>0, <1>8, PathFront
<1> HIDE DEF p1
<1>10. GoodPath(SubOf(h1), L, p1)
  <2>1. SubOf(h1) = SubOf(h)
    BY <1>5 DEF SubOf
  <2> QED BY <2>1, <1>9
<1>11. End(h1, p1) = g
  <2>1. p[Len(p) - 2].nd \in Addr
    BY <1>1, <1>2 DEF Slot
  <2> QED BY ZenonT(30), <2>1, <1>1, <1>5, <1>9 DEF End
<1>12. RedFree(h1, L, {}, {g})
  <2> SUFFICES ASSUME NEW n \in L, NEW f \in Dirs, IsRed(h1, n), IsRed(h1, h1[n].sub[f]), h1[n].sub[f] # g
               PROVE  FALSE
    BY DEF RedFree
  <2>1. h1[n].sub[f] = h[n].sub[f] /\ h[n].sub[f] \in L
    BY <1>2, <1>5 DEF IsRed
  <2>2. n \notin {q, u} /\ h[n].sub[f] \notin {q, u}
    BY <2>1, <1>5 DEF IsRed
  <2>3. n # g
    BY <2>2, <1>1, <1>2, <1>3
  <2>4. IsRed(h, n) /\ IsRed(h, h[n].sub[f])
    BY <2>1, <2>2, <2>3, <1>2, <1>5 DEF IsRed
  <2>5. h[n].sub[f] = x
    BY <2>4, <1>0, <1>1 DEF RedFree
  <2> QED BY <2>5, <2>2, <1>1
<1>13. IsRed(h1, h1[ROOT].sub[RBT_LEFT]) => Len(p1) = 1
  <2> SUFFICES ASSUME IsRed(h1, h1[ROOT].sub[RBT_LEFT]) PROVE Len(p1) = 1
    OBVIOUS
  <2> DEFINE r == h[ROOT].sub[RBT_LEFT]
  <2>1. h1[ROOT].sub[RBT_LEFT] = r /\ r \in L
    BY <1>2, <1>5 DEF IsRed
  <2>2. CASE r = g
    <3>1. Slot(L, ROOT, RBT_LEFT) /\ r # NULL
      BY <2>1, <1>2 DEF Slot
    <3>2. p[Len(p) - 2].nd = ROOT
      BY <3>1, <2>2, <1>0, <1>1, TreeSubs
    <3>3. Len(p) - 2 = 1
      BY <3>2, <1>0, <1>8, PathHeap
    <3> QED BY <3>3, <1>9
  <2>3. CASE r # g
    <3>1. IsRed(h, r)
      BY <2>1, <2>3, <1>2, <1>5 DEF IsRed
    <3>2. Len(p) = 1
      BY <3>1, <1>0
    <3>3. Len(p) # 1
      BY <1>8
    <3> QED BY <3>2, <3>3
  <2> QED BY <2>2, <2>3
<1>14. Adding(h1, L, T, B1, p1)
  BY <1>1, <1>5, <1>6, <1>7, <1>10, <1>11, <1>12, <1>13, <1>2 DEF Adding, IsRed
<1> QED BY <1>14 DEF p1, B1

(* h1 is a red-black tree of the entries of h, but perhaps for its root.   *)
Rebalanced(h, h1, L) ==
    /\ h1 \in Heap /\ SameEntries(h, h1)
    /\ \E T1 : Tree(h1, L, T1)
    /\ \E B1 : Balanced(h1, L, B1, {})
    /\ RedFree(h1, L, {}, {})

(* Case 5 of HXrbtree_amov: t is red above a red child on its outer side.  *)
LEMMA AddTurn ==
    ASSUME RbAssumption, NEW h \in Heap, NEW L, NEW T, Tree(h, L, T), NEW B, Balanced(h, L, B, {}),
           NEW a, NEW e, Slot(L, a, e), NEW g \in L, h[a].sub[e] = g,
           NEW d \in Dirs, NEW t \in L, h[g].sub[d] = t,
           h[t].color = "RED", h[g].color = "BLACK", RedFree(h, L, {t}, {}),
           ~IsRed(h, h[t].sub[Other(d)]), ~IsRed(h, h[g].sub[Other(d)]),
           NEW h1, Swung(h, h1, L, a, e, g, d, t)
    PROVE  Rebalanced(h, h1, L)
<1> DEFINE o == Other(d)
<1>0. h1 \in Heap /\ SameEntries(h, h1) /\ Rotated(SubOf(h), SubOf(h1), a, e, g, d, t)
      /\ h1[t].color = "BLACK" /\ h1[g].color = "RED"
      /\ \A x \in L : x # g /\ x # t => h1[x].color = h[x].color
  BY DEF Swung
<1>1. (\E T1 : Tree(h1, L, T1)) /\ Balanced(h1, L, SwungB(B, g, t), {})
  <2> DEFINE S == {}
  <2>1. <<g, d>> \notin S /\ <<t, d>> \notin S /\ <<t, Other(d)>> \notin S /\ Balanced(h, L, B, S)
    OBVIOUS
  <2> HIDE DEF S
  <2>2. TreeWith(h1, L, SwungB(B, g, t), S)
    BY <2>1, SwingIs
  <2> QED BY <2>2 DEF S, TreeWith
<1>2. /\ NULL \notin L /\ o \in Dirs /\ o # d /\ Dirs = {d, o}
      /\ \A x \in L, f \in Dirs : h[x].sub[f] \in L \cup {NULL}
  BY TreeSubs, DirFacts
<1>3. /\ h1[a].sub[e] = t /\ h1[g].sub[d] = h[t].sub[o] /\ h1[t].sub[o] = g
      /\ h1[g].sub[o] = h[g].sub[o]
      /\ h[t].sub[o] \notin {g, t} /\ h[g].sub[o] \notin {g, t}
  BY SMTT(30), <1>0, TurnedSubs DEF TurnedTo
<1>4. \A x \in L, f \in Dirs : x # g /\ x # t /\ ~(x = a /\ f = e) =>
        h1[x].sub[f] = h[x].sub[f] /\ h[x].sub[f] # g /\ h[x].sub[f] # t
  BY SMTT(30), <1>0, TurnedSubs DEF TurnedTo
<1>5. RedFree(h1, L, {}, {})
  <2> SUFFICES ASSUME NEW n \in L, NEW f \in Dirs, IsRed(h1, n), IsRed(h1, h1[n].sub[f])
               PROVE  FALSE
    BY DEF RedFree
  <2>1. n # t
    BY <1>0 DEF IsRed
  <2>2. CASE n = g
    <3>1. h1[g].sub[f] \in {h[t].sub[o], h[g].sub[o]}
      BY <1>2, <1>3
    <3>2. h1[g].sub[f] \in L /\ h1[g].sub[f] \notin {g, t}
      BY <2>2, <3>1, <1>2, <1>3 DEF IsRed
    <3>3. IsRed(h, h1[g].sub[f])
      BY <2>2, <3>2, <1>0 DEF IsRed
    <3> QED BY <3>1, <3>3
  <2>3. CASE n # g /\ n = a /\ f = e
    BY <2>3, <1>0, <1>3 DEF IsRed
  <2>4. CASE n # g /\ ~(n = a /\ f = e)
    <3>1. h1[n].sub[f] = h[n].sub[f] /\ h[n].sub[f] \notin {g, t}
      BY <2>1, <2>4, <1>4
    <3>2. h[n].sub[f] \in L
      BY <3>1, <1>2 DEF IsRed
    <3>3. IsRed(h, n) /\ IsRed(h, h[n].sub[f])
      BY <2>1, <2>4, <3>1, <3>2, <1>0 DEF IsRed
    <3> QED BY <2>1, <3>3 DEF RedFree
  <2> QED BY <2>2, <2>3, <2>4
<1> QED BY <1>0, <1>1, <1>5 DEF Rebalanced

(* Case 5 alone. *)
LEMMA AddOuter ==
    ASSUME RbAssumption, NEW h, NEW L, NEW T, NEW B, NEW p, Adding(h, L, T, B, p), Len(p) >= 3,
           NEW q, NEW g, NEW d, NEW x, Family(h, L, p, q, g, d, x),
           ~IsRed(h, h[g].sub[Other(d)]), p[Len(p)].dir = d
    PROVE  Rebalanced(h, Paint(Paint(Rotate(h, p[Len(p) - 2], g, d), g, "RED"), q, "BLACK"), L)
<1> DEFINE a == p[Len(p) - 2].nd
           e == p[Len(p) - 2].dir
           h1 == Paint(Paint(Rotate(h, Hop(a, e), g, d), g, "RED"), q, "BLACK")
<1>0. h \in Heap /\ Tree(h, L, T) /\ Balanced(h, L, B, {}) /\ RedFree(h, L, {}, {x})
  BY DEF Adding, Family
<1>1. /\ q \in L /\ g \in L /\ x \in L /\ d \in Dirs /\ Other(d) \in Dirs /\ Other(d) # d
      /\ h[g].sub[d] = q
      /\ h[q].color = "RED" /\ h[g].color = "BLACK"
      /\ Slot(L, a, e) /\ h[a].sub[e] = g /\ p[Len(p) - 2] = Hop(a, e)
      /\ \A n \in L, f \in Dirs : h[n].sub[f] = x => n = q /\ f = d
  BY DEF Family
<1> HIDE DEF a, e
<1>2. Swung(h, h1, L, a, e, g, d, q)
  BY <1>0, <1>1, RotateThenPaint
<1> HIDE DEF h1
<1>3. NULL \notin L
  BY <1>0, TreeSubs
<1>4. RedFree(h, L, {q}, {})
  BY <1>0, <1>1 DEF RedFree
<1>5. ~IsRed(h, h[q].sub[Other(d)])
  <2>1. IsRed(h, q)
    BY <1>1, <1>3 DEF IsRed
  <2>2. h[q].sub[Other(d)] # x
    BY <1>1
  <2> QED BY <2>1, <2>2, <1>0, <1>1 DEF RedFree
<1>6. Rebalanced(h, h1, L)
  BY <1>0, <1>1, <1>2, <1>4, <1>5, AddTurn
<1> QED BY <1>1, <1>6 DEF h1

(* Cases 4 and 5: x, on the inner side of its parent q, changes place with *)
(* q first.                                                                *)
LEMMA AddInner ==
    ASSUME RbAssumption, NEW h, NEW L, NEW T, NEW B, NEW p, Adding(h, L, T, B, p), Len(p) >= 3,
           NEW q, NEW g, NEW d, NEW x, Family(h, L, p, q, g, d, x),
           ~IsRed(h, h[g].sub[Other(d)]), p[Len(p)].dir # d,
           NEW h4, h4 = Rotate(h, Hop(g, d), q, Other(d))
    PROVE  /\ h4[g].sub[d] = x
           /\ Rebalanced(h, Paint(Paint(Rotate(h4, p[Len(p) - 2], g, d), g, "RED"), x, "BLACK"), L)
<1> DEFINE a == p[Len(p) - 2].nd
           e == p[Len(p) - 2].dir
           o == Other(d)
           h1 == Paint(Paint(Rotate(h4, Hop(a, e), g, d), g, "RED"), x, "BLACK")
<1>0. h \in Heap /\ Tree(h, L, T) /\ Balanced(h, L, B, {}) /\ RedFree(h, L, {}, {x})
  BY DEF Adding, Family
<1>1. /\ q \in L /\ g \in L /\ x \in L /\ d \in Dirs /\ o \in Dirs /\ o # d
      /\ Other(o) = d /\ Dirs = {d, o}
      /\ h[g].sub[d] = q /\ h[q].sub[o] = x
      /\ q # g /\ q # x /\ g # x
      /\ h[q].color = "RED" /\ h[x].color = "RED" /\ h[g].color = "BLACK"
      /\ Slot(L, a, e) /\ h[a].sub[e] = g /\ p[Len(p) - 2] = Hop(a, e)
      /\ \A n \in L, f \in Dirs : h[n].sub[f] = x => n = q /\ f = o
  <2>1. p[Len(p)].dir = o /\ Other(o) = d /\ Dirs = {d, o}
    BY DirFacts DEF Family
  <2> QED BY <2>1 DEF Family
<1>2. /\ h[g].sub[o] \notin {q, g, x}
      /\ \A f \in Dirs : h[q].sub[f] \notin {q, g} /\ h[x].sub[f] \notin {q, g, x}
  BY DEF Family
<1>2a. ~IsRed(h, h[g].sub[o])
  OBVIOUS
<1> HIDE DEF a, e, o
<1>3. Slot(L, g, d)
  BY <1>1 DEF Slot
<1>4. Swung(h, h4, L, g, d, q, o, x)
  BY <1>0, <1>1, <1>3, RotateReds DEF o
<1>5. (\E T4 : Tree(h4, L, T4)) /\ Balanced(h4, L, SwungB(B, q, x), {})
  <2> DEFINE S == {}
  <2>1. <<q, o>> \notin S /\ <<x, o>> \notin S /\ <<x, Other(o)>> \notin S /\ Balanced(h, L, B, S)
    BY <1>0
  <2> HIDE DEF S
  <2>2. TreeWith(h4, L, SwungB(B, q, x), S)
    BY <2>1, <1>0, <1>1, <1>3, <1>4, SwingIs
  <2> QED BY <2>2 DEF S, TreeWith
<1>6. /\ h4 \in Heap /\ SameEntries(h, h4) /\ Rotated(SubOf(h), SubOf(h4), g, d, q, o, x)
      /\ h4[x].color = "RED" /\ h4[q].color = "RED"
      /\ \A n \in L : h4[n].color = h[n].color
  BY <1>1, <1>4 DEF Swung
<1>7. /\ h4[g].sub[d] = x /\ h4[q].sub[o] = h[x].sub[d] /\ h4[x].sub[d] = q
      /\ h4[q].sub[d] = h[q].sub[d] /\ h4[x].sub[o] = h[x].sub[o]
      /\ \A n \in L, f \in Dirs : n # q /\ n # x /\ ~(n = g /\ f = d) =>
            h4[n].sub[f] = h[n].sub[f] /\ h[n].sub[f] # q /\ h[n].sub[f] # x
  <2>1. TurnedTo(h, h4, L, g, d, q, o, x)
    BY <1>0, <1>1, <1>3, <1>6, TurnedSubs
  <2> QED BY <2>1, <1>1 DEF TurnedTo
<1>8. h4[a].sub[e] = g
  <2>1. a \in Addr /\ e \in Dirs
    BY <1>0, <1>1, TreeSubs
  <2>2. a # g
    BY <1>0, <1>1, TreeChild
  <2>3. a # q /\ a # x
    BY <1>1, <1>2, <2>1
  <2>4. SubOf(h4)[a][e] = SubOf(h)[a][e]
    BY <2>1, <2>2, <2>3, <1>6 DEF Rotated
  <2>5. SubOf(h4)[a] = h4[a].sub /\ SubOf(h)[a] = h[a].sub
    BY <2>1, <1>0, <1>6, HeapSubs
  <2> QED BY <2>4, <2>5, <1>1
<1>9. NULL \notin L /\ \A n \in L, f \in Dirs : h[n].sub[f] \in L \cup {NULL}
  BY <1>0, TreeSubs
<1>10. IsRed(h, x) /\ IsRed(h, q)
  BY <1>1, <1>9 DEF IsRed
<1>11. \A f \in Dirs : ~IsRed(h, h[x].sub[f])
  BY <1>0, <1>1, <1>2, <1>10 DEF RedFree
<1>12. ~IsRed(h, h[q].sub[d])
  BY <1>0, <1>1, <1>10 DEF RedFree
<1>13. \A y \in L \cup {NULL} : IsRed(h4, y) <=> IsRed(h, y)
  BY <1>6 DEF IsRed
<1>14. RedFree(h4, L, {x}, {})
  <2> SUFFICES ASSUME NEW n \in L, NEW f \in Dirs, IsRed(h4, n), IsRed(h4, h4[n].sub[f]), n # x
               PROVE  FALSE
    BY DEF RedFree
  <2>1. n # g
    BY <1>1, <1>6 DEF IsRed
  <2>2. CASE n = q
    <3>1. h4[n].sub[f] \in {h[x].sub[d], h[q].sub[d]}
      BY <2>2, <1>1, <1>7
    <3>2. ~IsRed(h, h4[n].sub[f]) /\ h4[n].sub[f] \in L \cup {NULL}
      BY <3>1, <1>1, <1>9, <1>11, <1>12
    <3> QED BY <3>2, <1>13
  <2>3. CASE n # q
    <3>1. h4[n].sub[f] = h[n].sub[f] /\ h[n].sub[f] # x /\ h[n].sub[f] \in L \cup {NULL}
      BY <2>1, <2>3, <1>7, <1>9
    <3>2. IsRed(h, n) /\ IsRed(h, h[n].sub[f])
      BY <3>1, <1>13
    <3> QED BY <3>1, <3>2, <1>0 DEF RedFree
  <2> QED BY <2>2, <2>3
<1>15. ~IsRed(h4, h4[x].sub[o]) /\ ~IsRed(h4, h4[g].sub[o])
  <2>1. h4[g].sub[o] = h[g].sub[o] /\ h4[x].sub[o] = h[x].sub[o]
    BY <1>1, <1>7
  <2> QED BY <2>1, <1>1, <1>2a, <1>9, <1>11, <1>13
<1>16. PICK T4 : Tree(h4, L, T4)
  BY <1>5
<1>17. h4[g].color = "BLACK"
  BY <1>1, <1>6
<1>18. Swung(h4, h1, L, a, e, g, d, x)
  BY <1>1, <1>6, <1>7, <1>8, <1>16, <1>17, RotateThenPaint
<1> HIDE DEF h1
<1>19. Rebalanced(h4, h1, L)
  BY <1>1, <1>5, <1>6, <1>7, <1>8, <1>14, <1>15, <1>16, <1>17, <1>18, AddTurn DEF o
<1>20. Rebalanced(h, h1, L)
  BY <1>6, <1>19 DEF Rebalanced, SameEntries
<1> QED BY <1>1, <1>7, <1>20 DEF h1

-----------------------------------------------------------------------------
(* HXrbtree_dmov.                                                          *)

RootOf(h) == h[ROOT].sub[RBT_LEFT]

(* h1 is a red-black tree of the entries of h. *)
RedBlackTree(h, h1, L) == Rebalanced(h, h1, L) /\ ~IsRed(h1, RootOf(h1))

(* A grandchild points neither back to its parent nor above. *)
LEMMA TreeGrand ==
    ASSUME RbAssumption, NEW h \in Heap, NEW L, NEW T, Tree(h, L, T),
           NEW a, NEW e, Slot(L, a, e), NEW n \in L, h[a].sub[e] = n,
           NEW d \in Dirs, NEW c \in L, h[n].sub[d] = c
    PROVE  /\ \A f \in Dirs : h[c].sub[f] \notin {a, n, c}
           /\ a # n /\ a # c /\ n # c
<1>1. a # n /\ a # c /\ n # c
  BY TreeChild
<1>2. \A f \in Dirs : h[c].sub[f] # c /\ h[c].sub[f] # n
  <2>1. Slot(L, n, d)
    BY DEF Slot
  <2> QED BY <2>1, TreeChild
<1>3. ASSUME NEW f \in Dirs, h[c].sub[f] = a PROVE FALSE
  <2> DEFINE s == SubOf(h)
  <2>1. L \subseteq Addr /\ h[c].sub[f] \in L \cup {NULL} /\ ROOT \notin L /\ a \in Addr /\ e \in Dirs
    BY <1>3, TreeSubs
  <2>2. a \in L
    BY <2>1, <1>3 DEF Slot, RbAssumption
  <2>3. s[a][e] = n /\ s[n][d] = c /\ s[c][f] = a
    BY <2>1, <1>3, HeapSubs
  <2>4. Shape(KeyOf(h), s, L, T)
    BY DEF Tree
  <2> HIDE DEF s
  <2>5. n \in T[a] /\ T[n] \subseteq T[a]
    BY <2>1, <2>2, <2>3, <2>4, Child
  <2>6. c \in T[n]
    BY <2>3, <2>4, Child
  <2>7. a \in T[c] /\ a # c
    BY <1>3, <2>2, <2>3, <2>4, Child
  <2>8. a = c
    BY <2>2, <2>4, <2>5, <2>6, <2>7, Antisymmetric
  <2> QED BY <2>7, <2>8
<1> QED BY <1>1, <1>2, <1>3

(* Case 6 of HXrbtree_dmov: the side d of q is one black node short, its   *)
(* sibling w is black and has a red child z on the far side.               *)
Closed(h, h7, L, a, e, q, o, w, z) ==
    /\ h7 \in Heap /\ SameEntries(h, h7)
    /\ Rotated(SubOf(h), SubOf(h7), a, e, q, o, w)
    /\ h7[w].color = h[q].color /\ h7[q].color = "BLACK" /\ h7[z].color = "BLACK"
    /\ \A n \in L : n \notin {q, w, z} => h7[n].color = h[n].color

ClosedB(B, q, w, z) == [B EXCEPT ![q] = B[w], ![w] = B[q], ![z] = B[z] + 1]

(* The rotation that ends HXrbtree_dmov, when the far nephew is red, makes *)
(* up for the missing black node.                                          *)
LEMMA CloseBalance ==
    ASSUME RbAssumption, NEW h \in Heap, NEW L, NEW T, Tree(h, L, T),
           NEW a, NEW e, Slot(L, a, e), NEW q \in L, h[a].sub[e] = q,
           NEW d \in Dirs, NEW w \in L, h[q].sub[Other(d)] = w, h[w].color = "BLACK",
           NEW z \in L, h[w].sub[Other(d)] = z, h[z].color = "RED",
           NEW B, Balanced(h, L, B, {<<q, d>>}),
           NEW h7, Closed(h, h7, L, a, e, q, Other(d), w, z)
    PROVE  Balanced(h7, L, ClosedB(B, q, w, z), {})
<1> DEFINE o == Other(d)
           B1 == ClosedB(B, q, w, z)
           S == {<<q, d>>}
<1>0. /\ NULL \notin L /\ o \in Dirs /\ o # d /\ Dirs = {d, o} /\ Other(o) = d
      /\ \A x \in L, f \in Dirs : h[x].sub[f] \in L \cup {NULL}
  BY TreeSubs, DirFacts
<1>1. /\ h[q].sub[o] = w /\ h[w].sub[o] = z
      /\ h7[w].color = h[q].color /\ h7[q].color = "BLACK" /\ h7[z].color = "BLACK"
      /\ \A n \in L : n \notin {q, w, z} => h7[n].color = h[n].color
      /\ h7 \in Heap /\ Rotated(SubOf(h), SubOf(h7), a, e, q, o, w)
  BY DEF Closed
<1> HIDE DEF o
<1>2. TurnedTo(h, h7, L, a, e, q, o, w)
  BY <1>0, <1>1, TurnedSubs
<1>3. a # q /\ a # w /\ q # w /\ z \notin {a, q, w}
  <2>1. a # q /\ a # w /\ q # w /\ \A f \in Dirs : h[w].sub[f] \notin {a, q, w}
    BY <1>0, <1>1, TreeGrand
  <2> QED BY <2>1, <1>0, <1>1
<1>4. \A n \in L, f \in Dirs : h[n].sub[f] = z => n = w /\ f = o
  <2>1. \A b, f : Slot(L, b, f) /\ h[b].sub[f] = z => b = w /\ f = o
    <3>1. Slot(L, w, o) /\ z # NULL
      BY <1>0 DEF Slot
    <3> QED BY <3>1, <1>1, TreeSubs
  <2> QED BY <2>1 DEF Slot
<1>5. /\ h7[a].sub[e] = w /\ h7[q].sub[o] = h[w].sub[d] /\ h7[w].sub[d] = q
      /\ h7[q].sub[d] = h[q].sub[d] /\ h7[w].sub[o] = z
      /\ h[w].sub[d] \notin {q, w, z} /\ h[q].sub[d] \notin {q, w, z}
      /\ \A x \in L, f \in Dirs : x # q /\ x # w /\ ~(x = a /\ f = e) =>
            h7[x].sub[f] = h[x].sub[f] /\ h[x].sub[f] \notin {q, w, z}
  BY <1>0, <1>1, <1>2, <1>3, <1>4 DEF TurnedTo
<1>6. /\ B1 \in [L \cup {NULL} -> Nat] /\ B1[NULL] = 0 /\ B1[q] = B[w] /\ B1[w] = B[q] /\ B1[z] = B[z] + 1
      /\ \A x \in L \cup {NULL} : x \notin {q, w, z} => B1[x] = B[x]
      /\ \A x \in L \cup {NULL} : B[x] \in Nat
  <2>1. B \in [L \cup {NULL} -> Nat] /\ B[NULL] = 0
    BY DEF Balanced
  <2>2. {q, w, z} \subseteq L \cup {NULL} /\ NULL \notin {q, w, z} /\ B[z] + 1 \in Nat
    BY <2>1, <1>0
  <2> QED BY <2>1, <2>2, <1>3 DEF ClosedB
<1> HIDE DEF B1
<1>7. /\ Wt(h, w) = 1 /\ Wt(h, z) = 0 /\ Wt(h, q) \in Nat
      /\ Wt(h7, w) = Wt(h, q) /\ Wt(h7, q) = 1 /\ Wt(h7, z) = 1
      /\ \A x \in L : x \notin {q, w, z} => Wt(h7, x) = Wt(h, x)
      /\ Gap(S, q, d) = 1 /\ Gap(S, q, o) = 0
      /\ \A x \in L, f \in Dirs : x # q => Gap(S, x, f) = 0
      /\ \A x, f : Gap({}, x, f) = 0
      /\ \A x \in L : Wt(h, x) \in Nat
  BY <1>0, <1>1 DEF Wt, Gap
<1>8. /\ B[q] = B[h[q].sub[d]] + Wt(h, q) + 1
      /\ B[q] = B[w] + Wt(h, q)
      /\ B[w] = B[h[w].sub[d]] + 1
      /\ B[w] = B[z] + 1
      /\ \A f \in Dirs : B[z] = B[h[z].sub[f]]
      /\ \A x \in L, f \in Dirs : x # q => B[x] = B[h[x].sub[f]] + Wt(h, x)
  <2>1. \A x \in L, f \in Dirs : B[x] = B[h[x].sub[f]] + Wt(h, x) + Gap(S, x, f)
    BY DEF Balanced
  <2> HIDE DEF S
  <2>2. \A x \in L, f \in Dirs : B[h[x].sub[f]] \in Nat
    BY <1>0, <1>6
  <2>3. \A x \in L, f \in Dirs : x # q => B[x] = B[h[x].sub[f]] + Wt(h, x)
    BY <2>1, <2>2, <1>7
  <2>4. B[q] = B[h[q].sub[d]] + Wt(h, q) + 1 /\ B[q] = B[w] + Wt(h, q)
    BY <2>1, <2>2, <1>0, <1>1, <1>6, <1>7
  <2>5. B[w] = B[h[w].sub[d]] + 1 /\ B[w] = B[z] + 1
    BY <2>3, <1>0, <1>1, <1>3, <1>7
  <2>6. \A f \in Dirs : B[z] = B[h[z].sub[f]]
    BY <2>2, <2>3, <1>3, <1>7
  <2> QED BY <2>3, <2>4, <2>5, <2>6
<1>9. \A x \in L, f \in Dirs : B1[x] = B1[h7[x].sub[f]] + Wt(h7, x) + Gap({}, x, f)
  <2> SUFFICES ASSUME NEW x \in L, NEW f \in Dirs
               PROVE  B1[x] = B1[h7[x].sub[f]] + Wt(h7, x)
    <3>1. \A x \in L, f \in Dirs : B1[h7[x].sub[f]] + Wt(h7, x) + Gap({}, x, f) = B1[h7[x].sub[f]] + Wt(h7, x)
      <4>1. \A x \in L : Wt(h7, x) \in Nat
        BY DEF Wt
      <4>2. \A x \in L, f \in Dirs : h7[x].sub[f] \in L \cup {NULL}
        BY <1>0, <1>5
      <4> QED BY <4>1, <4>2, <1>6, <1>7
    <3> QED BY <3>1
  <2>1. CASE x = q /\ f = d
    <3>1. B1[h7[q].sub[d]] = B[h[q].sub[d]] /\ B[h[q].sub[d]] \in Nat
      BY <1>0, <1>5, <1>6
    <3> QED BY <2>1, <3>1, <1>6, <1>7, <1>8
  <2>2. CASE x = q /\ f = o
    <3>1. B1[h7[q].sub[o]] = B[h[w].sub[d]]
      BY <1>0, <1>5, <1>6
    <3> QED BY <2>2, <3>1, <1>6, <1>7, <1>8
  <2>3. CASE x = w /\ f = d
    BY <2>3, <1>5, <1>6, <1>7, <1>8
  <2>4. CASE x = w /\ f = o
    BY <2>4, <1>5, <1>6, <1>7, <1>8
  <2>5. CASE x = z
    <3>1. h7[z].sub[f] = h[z].sub[f] /\ h[z].sub[f] \notin {q, w, z}
      BY <1>3, <1>5
    <3>2. B1[h7[z].sub[f]] = B[h[z].sub[f]]
      BY <3>1, <1>0, <1>6
    <3> QED BY <2>5, <3>2, <1>6, <1>7, <1>8
  <2>6. CASE x \notin {q, w, z}
    <3>1. B1[h7[x].sub[f]] = B[h[x].sub[f]]
      <4>1. CASE x = a /\ f = e
        BY <4>1, <1>5, <1>6
      <4>2. CASE ~(x = a /\ f = e)
        BY <2>6, <4>2, <1>0, <1>5, <1>6
      <4> QED BY <4>1, <4>2
    <3>2. B1[x] = B[x] /\ Wt(h7, x) = Wt(h, x)
      BY <2>6, <1>6, <1>7
    <3> QED BY <2>6, <3>1, <3>2, <1>8
  <2> QED BY <1>0, <2>1, <2>2, <2>3, <2>4, <2>5, <2>6
<1>10. Balanced(h7, L, B1, {})
  BY <1>6, <1>9 DEF Balanced
<1> QED BY <1>10 DEF B1

(* After it the tree is a red-black tree. *)
LEMMA CloseIs ==
    ASSUME RbAssumption, NEW h \in Heap, NEW L, NEW T, Tree(h, L, T),
           NEW a, NEW e, Slot(L, a, e), NEW q \in L, h[a].sub[e] = q,
           NEW d \in Dirs, NEW w \in L, h[q].sub[Other(d)] = w, h[w].color = "BLACK",
           NEW z \in L, h[w].sub[Other(d)] = z, h[z].color = "RED",
           NEW B, Balanced(h, L, B, {<<q, d>>}), RedFree(h, L, {}, {}), ~IsRed(h, RootOf(h)),
           NEW h7, Closed(h, h7, L, a, e, q, Other(d), w, z)
    PROVE  RedBlackTree(h, h7, L)
<1> DEFINE o == Other(d)
<1>0. /\ NULL \notin L /\ ROOT \notin L /\ ROOT \in Addr /\ o \in Dirs /\ o # d /\ Dirs = {d, o} /\ Other(o) = d
      /\ \A x \in L, f \in Dirs : h[x].sub[f] \in L \cup {NULL}
      /\ L \subseteq Addr
  BY TreeSubs, DirFacts
<1>1. /\ h[q].sub[o] = w /\ h[w].sub[o] = z
      /\ h7[w].color = h[q].color /\ h7[q].color = "BLACK" /\ h7[z].color = "BLACK"
      /\ \A n \in L : n \notin {q, w, z} => h7[n].color = h[n].color
      /\ h7 \in Heap /\ Rotated(SubOf(h), SubOf(h7), a, e, q, o, w) /\ SameEntries(h, h7)
  BY DEF Closed
<1>1a. Balanced(h7, L, ClosedB(B, q, w, z), {})
  BY CloseBalance
<1> HIDE DEF o
<1>2. TurnedTo(h, h7, L, a, e, q, o, w)
  BY <1>0, <1>1, TurnedSubs
<1>3. a # q /\ a # w /\ q # w /\ z \notin {a, q, w}
  <2>1. a # q /\ a # w /\ q # w /\ \A f \in Dirs : h[w].sub[f] \notin {a, q, w}
    BY <1>0, <1>1, TreeGrand
  <2> QED BY <2>1, <1>0, <1>1
<1>4. \A b, f : Slot(L, b, f) /\ h[b].sub[f] = z => b = w /\ f = o
  <2>1. Slot(L, w, o) /\ z # NULL
    BY <1>0 DEF Slot
  <2> QED BY <2>1, <1>1, TreeSubs
<1>5. /\ h7[a].sub[e] = w /\ h7[w].sub[d] = q /\ h7[w].sub[o] = z
      /\ \A x \in L, f \in Dirs : x # q /\ x # w /\ ~(x = a /\ f = e) =>
            h7[x].sub[f] = h[x].sub[f] /\ h[x].sub[f] \notin {q, w, z}
  <2>1. \A x \in L, f \in Dirs : Slot(L, x, f)
    BY DEF Slot
  <2> QED BY <2>1, <1>0, <1>1, <1>2, <1>3, <1>4 DEF TurnedTo
<1>6. Tree(h7, L, RotatedT(SubOf(h), T, q, o, w))
  BY <1>0, <1>1, TurnTree
<1>7. RedFree(h7, L, {}, {})
  <2> SUFFICES ASSUME NEW n \in L, NEW f \in Dirs, IsRed(h7, n), IsRed(h7, h7[n].sub[f])
               PROVE  FALSE
    BY DEF RedFree
  <2>1. n # q /\ n # z
    BY <1>1 DEF IsRed
  <2>2. n # w
    BY <1>0, <1>1, <1>5 DEF IsRed
  <2>3. IsRed(h, n)
    BY <2>1, <2>2, <1>1 DEF IsRed
  <2>4. CASE n = a /\ f = e
    <3>1. IsRed(h, q)
      BY <2>4, <1>0, <1>1, <1>5 DEF IsRed
    <3> QED BY <2>3, <2>4, <3>1 DEF RedFree
  <2>5. CASE ~(n = a /\ f = e)
    <3>1. h7[n].sub[f] = h[n].sub[f] /\ h[n].sub[f] \notin {q, w, z}
      BY <2>1, <2>2, <2>5, <1>5
    <3>2. IsRed(h, h[n].sub[f])
      BY <3>1, <1>0, <1>1 DEF IsRed
    <3> QED BY <2>3, <3>2 DEF RedFree
  <2> QED BY <2>4, <2>5
<1>8. ~IsRed(h7, RootOf(h7))
  <2>1. CASE a = ROOT
    <3>1. e = RBT_LEFT
      BY <2>1, <1>0 DEF Slot
    <3>2. RootOf(h7) = w /\ RootOf(h) = q
      BY <2>1, <3>1, <1>5 DEF RootOf
    <3> QED BY <3>2, <1>0, <1>1 DEF IsRed
  <2>2. CASE a # ROOT
    <3>0. RBT_LEFT \in Dirs /\ SubOf(h7)[ROOT] = h7[ROOT].sub /\ SubOf(h)[ROOT] = h[ROOT].sub
      BY <1>0, <1>1, HeapSubs DEF Dirs
    <3>1. RootOf(h7) = RootOf(h)
      BY <2>2, <3>0, <1>0, <1>1 DEF Rotated, RootOf
    <3>2. Slot(L, ROOT, RBT_LEFT) /\ Slot(L, q, o)
      BY <1>0 DEF Slot
    <3>3. RootOf(h) # q
      BY <2>2, <3>2, <1>0, TreeSubs DEF RootOf
    <3>4. RootOf(h) # w
      BY <3>2, <1>0, <1>1, TreeSubs DEF RootOf
    <3>5. RootOf(h) # z
      BY <3>2, <1>0, <1>4 DEF RootOf
    <3>6. RootOf(h) \in L \cup {NULL}
      BY TreeSubs DEF RootOf
    <3> QED BY <3>1, <3>3, <3>4, <3>5, <3>6, <1>1 DEF IsRed
  <2> QED BY <2>1, <2>2
<1>9. Rebalanced(h, h7, L)
  BY <1>1, <1>1a, <1>6, <1>7 DEF Rebalanced
<1> QED BY <1>8, <1>9 DEF RedBlackTree

(* How the code does it. *)
LEMMA CloseHeap ==
    ASSUME RbAssumption, NEW h \in Heap, NEW L, NEW T, Tree(h, L, T),
           NEW a, NEW e, Slot(L, a, e), NEW q \in L, h[a].sub[e] = q,
           NEW o \in Dirs, NEW w \in L, h[q].sub[o] = w,
           NEW z \in L, h[w].sub[o] = z
    PROVE  Closed(h, Rotate(Paint(Paint(Paint(h, w, h[q].color), q, "BLACK"), z, "BLACK"), Hop(a, e), q, o),
                  L, a, e, q, o, w, z)
<1> DEFINE kk == h[q].color
           ha == Paint(h, w, kk)
           hb == Paint(ha, q, "BLACK")
           hc == Paint(hb, z, "BLACK")
           h7 == Rotate(hc, Hop(a, e), q, o)
<1>0. L \subseteq Addr /\ L \subseteq Nodes /\ a \in Addr /\ e \in Dirs /\ kk \in {"RED", "BLACK"}
  BY TreeSubs DEF Slot, Dirs
<1>1. a # q /\ a # w /\ q # w /\ z \notin {a, q, w}
  BY TreeGrand
<1> HIDE DEF kk
<1>2. Painted(h, ha, w, kk)
  BY <1>0, PaintIs
<1> HIDE DEF ha
<1>2a. ha \in Heap
  BY <1>2 DEF Painted
<1>3. Painted(ha, hb, q, "BLACK")
  BY <1>0, <1>2a, PaintIs
<1> HIDE DEF hb
<1>3a. hb \in Heap
  BY <1>3 DEF Painted
<1>4. Painted(hb, hc, z, "BLACK")
  BY <1>0, <1>3a, PaintIs
<1> HIDE DEF hc
<1>4a. hc \in Heap /\ hc[q].sub[o] = w
  BY <1>0, <1>2, <1>3, <1>4 DEF Painted
<1>5. Turned(hc, h7, a, e, q, o, w)
  BY <1>0, <1>1, <1>4a, RotateIs
<1> HIDE DEF h7
<1>6. SubOf(hc) = SubOf(h) /\ SameEntries(h, hc)
  BY <1>2, <1>3, <1>4 DEF SubOf, Painted, SameEntries
<1>7. h7 \in Heap /\ SameEntries(h, h7) /\ Rotated(SubOf(h), SubOf(h7), a, e, q, o, w)
  BY <1>5, <1>6 DEF Turned, SameEntries
<1>8. \A x \in Addr : h7[x].color = hc[x].color
  BY <1>5 DEF Turned, SameColors
<1>9. /\ hc[w].color = kk /\ hc[q].color = "BLACK" /\ hc[z].color = "BLACK"
      /\ \A n \in Addr : n \notin {q, w, z} => hc[n].color = h[n].color
  BY <1>0, <1>1, <1>2, <1>3, <1>4 DEF Painted
<1>10. Closed(h, h7, L, a, e, q, o, w, z)
  BY <1>0, <1>7, <1>8, <1>9 DEF Closed, kk
<1> QED BY <1>10 DEF h7, hc, hb, ha, kk

(* Case 5: the red child of w is on the near side, and changes place with  *)
(* w first.                                                                *)
Exchanged(h, h5, L, a, e, q, d, o, w, c) ==
    /\ h5 \in Heap /\ SameEntries(h, h5)
    /\ \E T5 : Tree(h5, L, T5)
    /\ h5[a].sub[e] = q /\ h5[q].sub[o] = c /\ h5[c].color = "BLACK"
    /\ h5[c].sub[o] = w /\ h5[w].color = "RED"
    /\ \E B5 : Balanced(h5, L, B5, {<<q, d>>})
    /\ RedFree(h5, L, {}, {}) /\ ~IsRed(h5, RootOf(h5))

(* The rotation HXrbtree_dmov makes first, when only the near nephew is    *)
(* red, leads to the case of a red far nephew.                             *)
LEMMA NearIs ==
    ASSUME RbAssumption, NEW h \in Heap, NEW L, NEW T, Tree(h, L, T),
           NEW a, NEW e, Slot(L, a, e), NEW q \in L, h[a].sub[e] = q,
           NEW d \in Dirs, NEW o, o = Other(d), NEW w \in L, h[q].sub[o] = w, h[w].color = "BLACK",
           NEW c \in L, h[w].sub[d] = c, h[c].color = "RED", ~IsRed(h, h[w].sub[o]),
           NEW B, Balanced(h, L, B, {<<q, d>>}), RedFree(h, L, {}, {}), ~IsRed(h, RootOf(h)),
           NEW h5, Swung(h, h5, L, q, o, w, d, c)
    PROVE  Exchanged(h, h5, L, a, e, q, d, o, w, c)
<1>0. /\ NULL \notin L /\ ROOT \notin L /\ ROOT \in Addr /\ o \in Dirs /\ o # d /\ Dirs = {d, o} /\ Other(o) = d
      /\ \A x \in L, f \in Dirs : h[x].sub[f] \in L \cup {NULL}
      /\ L \subseteq Addr
  BY TreeSubs, DirFacts
<1>1. /\ h5 \in Heap /\ SameEntries(h, h5) /\ Rotated(SubOf(h), SubOf(h5), q, o, w, d, c)
      /\ h5[c].color = "BLACK" /\ h5[w].color = "RED"
      /\ \A x \in L : x # w /\ x # c => h5[x].color = h[x].color
  BY DEF Swung
<1>2. Slot(L, q, o)
  BY <1>0 DEF Slot
<1>3. a # q /\ a # w /\ q # w /\ c \notin {a, q, w}
  <2>1. a # q /\ a # w /\ q # w /\ \A f \in Dirs : h[w].sub[f] \notin {a, q, w}
    BY <1>0, TreeGrand
  <2> QED BY <2>1
<1>4. TurnedTo(h, h5, L, q, o, w, d, c)
  BY <1>1, <1>2, TurnedSubs
<1>5. /\ h5[q].sub[o] = c /\ h5[w].sub[d] = h[c].sub[o] /\ h5[c].sub[o] = w
      /\ h5[w].sub[o] = h[w].sub[o] /\ h5[c].sub[d] = h[c].sub[d]
      /\ h[c].sub[o] \notin {w, c} /\ h[w].sub[o] \notin {w, c}
      /\ \A x \in L, f \in Dirs : x # w /\ x # c /\ ~(x = q /\ f = o) =>
            h5[x].sub[f] = h[x].sub[f] /\ h[x].sub[f] # w /\ h[x].sub[f] # c
  BY <1>4 DEF TurnedTo
<1>6. (\E T5 : Tree(h5, L, T5)) /\ \E B5 : Balanced(h5, L, B5, {<<q, d>>})
  <2> DEFINE S == {<<q, d>>}
  <2>1. <<w, d>> \notin S /\ <<c, d>> \notin S /\ <<c, Other(d)>> \notin S /\ Balanced(h, L, B, S)
    BY <1>3
  <2> HIDE DEF S
  <2>2. TreeWith(h5, L, SwungB(B, w, c), S)
    BY <2>1, <1>2, SwingIs
  <2> QED BY <2>2 DEF S, TreeWith
<1>7. RedFree(h5, L, {}, {})
  <2> SUFFICES ASSUME NEW n \in L, NEW f \in Dirs, IsRed(h5, n), IsRed(h5, h5[n].sub[f])
               PROVE  FALSE
    BY DEF RedFree
  <2>1. n # c
    BY <1>1 DEF IsRed
  <2>2. CASE n = w
    <3>1. h5[w].sub[f] \in {h[c].sub[o], h[w].sub[o]}
      BY <1>0, <1>5
    <3>2. h5[w].sub[f] \in L /\ h5[w].sub[f] \notin {w, c}
      BY <2>2, <3>1, <1>0, <1>5 DEF IsRed
    <3>3. IsRed(h, h5[w].sub[f])
      BY <2>2, <3>2, <1>1 DEF IsRed
    <3>4. IsRed(h, c)
      BY <1>0 DEF IsRed
    <3>5. ~IsRed(h, h[c].sub[o])
      BY <3>4, <1>0 DEF RedFree
    <3> QED BY <3>1, <3>3, <3>5
  <2>3. CASE n = q /\ f = o
    BY <2>3, <1>1, <1>5 DEF IsRed
  <2>4. CASE n # w /\ ~(n = q /\ f = o)
    <3>1. h5[n].sub[f] = h[n].sub[f] /\ h[n].sub[f] \notin {w, c} /\ h[n].sub[f] \in L \cup {NULL}
      BY <2>1, <2>4, <1>0, <1>5
    <3>2. IsRed(h, n) /\ IsRed(h, h[n].sub[f])
      BY <2>1, <2>4, <3>1, <1>1 DEF IsRed
    <3> QED BY <3>2 DEF RedFree
  <2> QED BY <2>2, <2>3, <2>4
<1>8. \A b, f : Slot(L, b, f) /\ b \notin {q, w, c} => h5[b].sub[f] = h[b].sub[f]
  <2> SUFFICES ASSUME NEW b, NEW f, Slot(L, b, f), b \notin {q, w, c}
               PROVE  h5[b].sub[f] = h[b].sub[f]
    OBVIOUS
  <2>1. b \in Addr /\ f \in Dirs
    BY TreeSubs
  <2>2. SubOf(h5)[b][f] = SubOf(h)[b][f]
    BY <2>1, <1>1 DEF Rotated
  <2> QED BY <2>1, <2>2, <1>1, HeapSubs
<1>9. h5[a].sub[e] = q
  BY <1>3, <1>8
<1>10. ~IsRed(h5, RootOf(h5))
  <2>1. Slot(L, ROOT, RBT_LEFT) /\ ROOT \notin {q, w, c}
    BY <1>0 DEF Slot
  <2>2. RootOf(h5) = RootOf(h)
    BY <2>1, <1>8 DEF RootOf
  <2>3. RootOf(h) # w
    BY <2>1, <1>0, <1>2, TreeSubs DEF RootOf
  <2>4. RootOf(h) # c
    <3>1. Slot(L, w, d)
      BY DEF Slot
    <3> QED BY <2>1, <3>1, <1>0, TreeSubs DEF RootOf
  <2>5. RootOf(h) \in L \cup {NULL}
    BY TreeSubs DEF RootOf
  <2> QED BY <2>2, <2>3, <2>4, <2>5, <1>1 DEF IsRed
<1> QED BY <1>1, <1>5, <1>6, <1>7, <1>9, <1>10 DEF Exchanged

(* The pointer at the end of a path. *)
EndSlot(p) == <<p[Len(p)].nd, p[Len(p)].dir>>

(* While HXrbtree_dmov rebalances: the end of the path is one black node   *)
(* short, and only its node may be red beside a red one.                   *)
Deleting(h, L, T, B, p) ==
    /\ h \in Heap
    /\ Tree(h, L, T)
    /\ GoodPath(SubOf(h), L, p)
    /\ Balanced(h, L, B, {EndSlot(p)})
    /\ RedFree(h, L, {End(h, p)}, {End(h, p)})
    /\ IsRed(h, RootOf(h)) => Len(p) = 1

(* A red node at the end is painted black. *)
LEMMA PaintEnd ==
    ASSUME RbAssumption, NEW h, NEW L, NEW T, NEW B, NEW p, Deleting(h, L, T, B, p),
           NEW x, x = End(h, p), IsRed(h, x), NEW h1, Painted(h, h1, x, "BLACK")
    PROVE  RedBlackTree(h, h1, L)
<1> DEFINE y == p[Len(p)].nd
           d == p[Len(p)].dir
           B1 == [B EXCEPT ![x] = B[x] + 1]
<1>0. /\ h \in Heap /\ Tree(h, L, T) /\ GoodPath(SubOf(h), L, p)
      /\ Balanced(h, L, B, {<<y, d>>}) /\ RedFree(h, L, {x}, {x})
      /\ (IsRed(h, RootOf(h)) => Len(p) = 1)
  BY DEF Deleting, EndSlot
<1>1. Slot(L, y, d) /\ h[y].sub[d] = x /\ x \in L /\ (Len(p) = 1 => x = RootOf(h))
  <2>1. Len(p) \in 1 .. Len(p) /\ p[1] = Hop(ROOT, RBT_LEFT)
    BY <1>0, PathHeap
  <2>2. Slot(L, y, d) /\ x \in L \cup {NULL}
    BY <1>0, <2>1, PathHeap
  <2>3. Len(p) = 1 => x = RootOf(h)
    BY <2>1 DEF End, RootOf, Hop
  <2> QED BY <2>2, <2>3 DEF IsRed, End
<1>2. /\ NULL \notin L /\ L \subseteq Addr /\ ROOT \in Addr
      /\ \A n \in L, f \in Dirs : h[n].sub[f] \in L \cup {NULL}
      /\ RootOf(h) \in L \cup {NULL}
  BY <1>0, TreeSubs DEF RootOf
<1>3. \A n \in L, f \in Dirs : h[n].sub[f] = x => n = y /\ f = d
  <2>1. \A n \in L, f \in Dirs : Slot(L, n, f)
    BY DEF Slot
  <2> QED BY <2>1, <1>0, <1>1, <1>2, TreeSubs
<1> HIDE DEF y, d
<1>4. /\ h1 \in Heap /\ SameEntries(h, h1)
      /\ \A a \in Addr : h1[a].sub = h[a].sub
      /\ h1[x].color = "BLACK" /\ h[x].color = "RED"
      /\ \A a \in Addr : a # x => h1[a].color = h[a].color
  BY DEF Painted, IsRed
<1>5. Tree(h1, L, T)
  BY <1>0, <1>4, SameTree
<1>6. Balanced(h1, L, B1, {})
  <2>1. B \in [L \cup {NULL} -> Nat] /\ B[NULL] = 0 /\ B[x] + 1 \in Nat
    BY <1>0, <1>1 DEF Balanced
  <2>2. /\ B1 \in [L \cup {NULL} -> Nat] /\ B1[NULL] = 0 /\ B1[x] = B[x] + 1
        /\ \A n \in L \cup {NULL} : n # x => B1[n] = B[n]
    BY <2>1, <1>1, <1>2
  <2> HIDE DEF B1
  <2>3. /\ Wt(h, x) = 0 /\ Wt(h1, x) = 1
        /\ \A n \in L : n # x => Wt(h1, n) = Wt(h, n)
        /\ \A n \in L : Wt(h, n) \in Nat
        /\ \A n, f : Gap({}, n, f) = 0
        /\ Gap({<<y, d>>}, y, d) = 1
        /\ \A n, f : ~(n = y /\ f = d) => Gap({<<y, d>>}, n, f) = 0
    BY <1>2, <1>4 DEF Wt, Gap
  <2>4. \A n \in L, f \in Dirs : B[n] = B[h[n].sub[f]] + Wt(h, n) + Gap({<<y, d>>}, n, f)
    BY <1>0 DEF Balanced
  <2>5. ASSUME NEW n \in L, NEW f \in Dirs
        PROVE  B1[n] = B1[h1[n].sub[f]] + Wt(h1, n) + Gap({}, n, f)
    <3>1. h1[n].sub[f] = h[n].sub[f] /\ h[n].sub[f] \in L \cup {NULL}
      BY <1>2, <1>4
    <3>2. B[n] = B[h[n].sub[f]] + Wt(h, n) + Gap({<<y, d>>}, n, f) /\ B[h[n].sub[f]] \in Nat
      BY <2>1, <2>4, <3>1
    <3>3. CASE n = y /\ f = d
      <4>1. n # x
        BY <3>3, <1>0, <1>1, TreeChild
      <4> QED BY <3>1, <3>2, <3>3, <4>1, <2>1, <2>2, <2>3, <1>1
    <3>4. CASE ~(n = y /\ f = d) /\ n = x
      <4>1. h[n].sub[f] # x
        BY <3>4, <1>3
      <4>2. Gap({<<y, d>>}, n, f) = 0 /\ Gap({}, n, f) = 0
        BY <3>4, <2>3
      <4>3. B1[h[n].sub[f]] = B[h[n].sub[f]]
        BY <4>1, <3>1, <2>2
      <4> QED BY <3>1, <3>2, <3>4, <4>2, <4>3, <2>1, <2>2, <2>3
    <3>5. CASE ~(n = y /\ f = d) /\ n # x
      <4>1. h[n].sub[f] # x
        BY <3>5, <1>3
      <4>2. Gap({<<y, d>>}, n, f) = 0 /\ Gap({}, n, f) = 0
        BY <3>5, <2>3
      <4>3. B1[h[n].sub[f]] = B[h[n].sub[f]]
        BY <4>1, <3>1, <2>2
      <4> QED BY <3>1, <3>2, <3>5, <4>2, <4>3, <2>1, <2>2, <2>3
    <3> QED BY <3>3, <3>4, <3>5
  <2> QED BY <2>2, <2>5 DEF Balanced
<1>7. RedFree(h1, L, {}, {})
  <2> SUFFICES ASSUME NEW n \in L, NEW f \in Dirs, IsRed(h1, n), IsRed(h1, h1[n].sub[f])
               PROVE  FALSE
    BY DEF RedFree
  <2>1. h1[n].sub[f] = h[n].sub[f] /\ h[n].sub[f] \in L \cup {NULL}
    BY <1>2, <1>4
  <2>2. n # x /\ h[n].sub[f] # x
    BY <2>1, <1>4 DEF IsRed
  <2>3. IsRed(h, n) /\ IsRed(h, h[n].sub[f])
    BY <2>1, <2>2, <1>2, <1>4 DEF IsRed
  <2> QED BY <2>2, <2>3, <1>0 DEF RedFree
<1>8. ~IsRed(h1, RootOf(h1))
  <2>1. RootOf(h1) = RootOf(h)
    BY <1>2, <1>4 DEF RootOf
  <2>2. IsRed(h, RootOf(h)) => RootOf(h) = x
    BY <1>0, <1>1
  <2> QED BY <2>1, <2>2, <1>2, <1>4 DEF IsRed
<1> QED BY <1>4, <1>5, <1>6, <1>7, <1>8 DEF RedBlackTree, Rebalanced

(* At the root nothing is left to do. *)
LEMMA EndAtRoot ==
    ASSUME RbAssumption, NEW h, NEW L, NEW T, NEW B, NEW p, Deleting(h, L, T, B, p),
           ~IsRed(h, End(h, p)), Len(p) < 2
    PROVE  RedBlackTree(h, h, L)
<1>0. /\ h \in Heap /\ Tree(h, L, T) /\ GoodPath(SubOf(h), L, p)
      /\ Balanced(h, L, B, {EndSlot(p)}) /\ RedFree(h, L, {End(h, p)}, {End(h, p)})
  BY DEF Deleting
<1>1. Len(p) = 1 /\ p[1] = Hop(ROOT, RBT_LEFT) /\ ROOT \notin L
  <2>1. Len(p) \in Nat /\ Len(p) >= 1 /\ p[1] = Hop(ROOT, RBT_LEFT)
    BY <1>0, PathHeap
  <2>2. ROOT \notin L
    BY <1>0, TreeSubs
  <2>3. Len(p) = 1
    <3>1. \A n \in Nat : n >= 1 /\ n < 2 => n = 1
      OBVIOUS
    <3> QED BY <2>1, <3>1, Zenon
  <2> QED BY <2>1, <2>2, <2>3
<1>2. EndSlot(p) = <<ROOT, RBT_LEFT>> /\ End(h, p) = RootOf(h)
  BY <1>1 DEF EndSlot, End, RootOf, Hop
<1>3. Balanced(h, L, B, {})
  <2>1. \A n \in L, f \in Dirs : Gap({}, n, f) = Gap({EndSlot(p)}, n, f)
    BY <1>1, <1>2 DEF Gap
  <2> QED BY <2>1, <1>0 DEF Balanced
<1>4. RedFree(h, L, {}, {})
  BY <1>0 DEF RedFree
<1>5. SameEntries(h, h)
  BY DEF SameEntries
<1> QED BY <1>0, <1>2, <1>3, <1>4, <1>5 DEF RedBlackTree, Rebalanced

(* The last two places of a sequence of length n. *)
LEMMA FromTwoUp ==
    ASSUME NEW n \in Nat, n >= 2
    PROVE  /\ n \in Nat /\ n \in 1 .. n /\ n - 1 \in 1 .. n - 1
           /\ n - 1 \in 1 .. n /\ n \in 2 .. n /\ (n - 1) + 1 = n /\ n # 1
  OBVIOUS

(* The parent q of the short side d, the sibling w, the pointer to q.      *)
Kin(h, L, p, q, d, a, e, w) ==
    /\ p[Len(p)] = Hop(q, d) /\ q \in L /\ d \in Dirs /\ Other(d) \in Dirs /\ Other(d) # d
    /\ p[Len(p) - 1] = Hop(a, e) /\ Slot(L, a, e) /\ h[a].sub[e] = q
    /\ h[q].sub[Other(d)] = w /\ w \in L
    /\ EndSlot(p) = <<q, d>> /\ End(h, p) = h[q].sub[d]

(* In HXrbtree_dmov the node that lacks a black node has a parent, and a   *)
(* sibling that is one black node higher, in the path where the code looks *)
(* for them.                                                               *)
LEMMA KinIs ==
    ASSUME RbAssumption, NEW h, NEW L, NEW T, NEW B, NEW p, Deleting(h, L, T, B, p), Len(p) >= 2
    PROVE  /\ Kin(h, L, p, p[Len(p)].nd, p[Len(p)].dir, p[Len(p) - 1].nd, p[Len(p) - 1].dir,
                  h[p[Len(p)].nd].sub[Other(p[Len(p)].dir)])
           /\ ~IsRed(h, RootOf(h)) 
           /\ ~IsRed(h, End(h, p)) => RedFree(h, L, {}, {})
           /\ B[h[p[Len(p)].nd].sub[Other(p[Len(p)].dir)]] = B[End(h, p)] + 1
<1>00. h \in Heap /\ Tree(h, L, T) /\ GoodPath(SubOf(h), L, p)
  BY DEF Deleting
<1> DEFINE q == p[Len(p)].nd
           d == p[Len(p)].dir
           a == p[Len(p) - 1].nd
           e == p[Len(p) - 1].dir
           w == h[q].sub[Other(d)]
<1>0. /\ h \in Heap /\ Tree(h, L, T) /\ GoodPath(SubOf(h), L, p)
      /\ Balanced(h, L, B, {<<q, d>>}) /\ RedFree(h, L, {End(h, p)}, {End(h, p)})
      /\ (IsRed(h, RootOf(h)) => Len(p) = 1) /\ EndSlot(p) = <<q, d>>
      /\ End(h, p) = h[q].sub[d]
  BY DEF Deleting, EndSlot, End
<1>1. /\ Len(p) \in Nat /\ Len(p) \in 1 .. Len(p) /\ Len(p) - 1 \in 1 .. Len(p) - 1
      /\ Len(p) - 1 \in 1 .. Len(p) /\ Len(p) \in 2 .. Len(p) /\ (Len(p) - 1) + 1 = Len(p) /\ Len(p) # 1
  <2>1. Len(p) \in Nat
    BY <1>00, PathHeap
  <2> QED BY <2>1, FromTwoUp, Zenon
<1>2. /\ Slot(L, a, e) /\ p[Len(p) - 1] = Hop(a, e) /\ p[Len(p)] = Hop(q, d) /\ d \in Dirs
      /\ q \in L
  <2>1. /\ \A i \in 1 .. Len(p) : Slot(L, p[i].nd, p[i].dir) /\ p[i] = Hop(p[i].nd, p[i].dir)
                                    /\ p[i].dir \in Dirs
        /\ \A i \in 2 .. Len(p) : p[i].nd \in L
    BY <1>00, PathHeap
  <2> QED BY <1>1, <2>1
<1>3. h[a].sub[e] = q
  <2>1. \A i \in 1 .. Len(p) - 1 : h[p[i].nd].sub[p[i].dir] = p[i + 1].nd
    BY <1>00, PathHops
  <2>2. h[p[Len(p) - 1].nd].sub[p[Len(p) - 1].dir] = p[(Len(p) - 1) + 1].nd
    BY <2>1, <1>1
  <2> QED BY <2>2, <1>1
<1> HIDE DEF q, d, a, e
<1>4. Other(d) \in Dirs /\ Other(d) # d
  BY <1>2, DirFacts
<1>5. NULL \notin L /\ w \in L \cup {NULL} /\ h[q].sub[d] \in L \cup {NULL}
  BY <1>0, <1>2, <1>4, TreeSubs
<1>6. B[w] = B[h[q].sub[d]] + 1
  <2>1. /\ B[q] = B[h[q].sub[d]] + Wt(h, q) + Gap({<<q, d>>}, q, d)
        /\ B[q] = B[w] + Wt(h, q) + Gap({<<q, d>>}, q, Other(d))
    BY <1>0, <1>2, <1>4 DEF Balanced
  <2>2. Gap({<<q, d>>}, q, d) = 1 /\ Gap({<<q, d>>}, q, Other(d)) = 0 /\ Wt(h, q) \in Nat
    BY <1>4 DEF Gap, Wt
  <2>3. B[w] \in Nat /\ B[h[q].sub[d]] \in Nat
    BY <1>0, <1>5 DEF Balanced
  <2> HIDE DEF w
  <2> QED BY SMTT(30), <2>1, <2>2, <2>3
<1>7. w \in L
  <2>1. B[NULL] = 0 /\ B[h[q].sub[d]] \in Nat
    BY <1>0, <1>5 DEF Balanced
  <2> QED BY <2>1, <1>5, <1>6
<1>8. ~IsRed(h, RootOf(h)) /\ (~IsRed(h, End(h, p)) => RedFree(h, L, {}, {}))
  BY <1>0, <1>1 DEF RedFree
<1>9. Kin(h, L, p, q, d, a, e, w)
  BY <1>0, <1>2, <1>3, <1>4, <1>7 DEF Kin
<1> QED BY <1>0, <1>6, <1>8, <1>9 DEF q, d, a, e

Later(j, m, n) ==
    \E t \in 1 .. n - 1 : t \in 1 .. n /\ t + 1 \in 1 .. n /\ j = m + t /\ j + 1 = m + (t + 1)

(* An index past the first part of a path is one of its second part. *)
LEMMA LaterIs ==
    ASSUME NEW j \in Nat, NEW m \in Nat, NEW n \in Nat, j > m, j <= m + n - 1
    PROVE  Later(j, m, n)
<1>1. j - m \in 1 .. n - 1 /\ j - m \in 1 .. n /\ (j - m) + 1 \in 1 .. n
      /\ j = m + (j - m) /\ j + 1 = m + ((j - m) + 1)
  OBVIOUS
<1> QED BY <1>1 DEF Later

(* A path goes on with a chain of hops. *)
Joined(s, L, p, w, r) ==
    /\ GoodPath(s, L, r)
    /\ Len(r) = Len(p) + Len(w)
    /\ r[Len(r)] = w[Len(w)]
    /\ \A i \in 1 .. Len(p) : r[i] = p[i]
    /\ \A i \in 1 .. Len(w) : r[Len(p) + i] = w[i]

(* A path continued by a chain of hops from where it ends is a path. *)
LEMMA PathJoin ==
    ASSUME RbAssumption, NEW s, NEW L, NEW p, GoodPath(s, L, p), NEW m, s[p[Len(p)].nd][p[Len(p)].dir] = m,
           NEW w, NEW z, Chain(s, L, m, w, z), w # <<>>
    PROVE  Joined(s, L, p, w, p \o w)
<1> DEFINE pw == p \o w
           H == Hops(L \cup {ROOT})
<1>0. p \in Seq(H) /\ p # <<>> /\ w \in Seq(Hops(L)) /\ Hops(L) \subseteq H
  BY DEF GoodPath, Chain, Hops
<1>1. w \in Seq(H)
  BY <1>0, SeqWider
<1> HIDE DEF H
<1>2. /\ pw \in Seq(H) /\ Len(pw) = Len(p) + Len(w) /\ Len(p) \in Nat /\ Len(w) \in Nat
      /\ Len(p) >= 1 /\ Len(w) >= 1
      /\ \A i \in 1 .. Len(p) : pw[i] = p[i]
      /\ \A i \in 1 .. Len(w) : pw[Len(p) + i] = w[i]
  BY <1>0, <1>1
<1> HIDE DEF pw
<1>3. pw[Len(pw)] = w[Len(w)]
  BY <1>2
<1>4. pw[1] = Hop(ROOT, RBT_LEFT) /\ pw # <<>>
  BY <1>2 DEF GoodPath
<1>5. ASSUME NEW i \in 2 .. Len(pw) PROVE pw[i].nd \in L
  <2>1. CASE i \in 1 .. Len(p)
    BY <2>1, <1>2, <1>5 DEF GoodPath
  <2>2. CASE i \notin 1 .. Len(p)
    <3>1. i - Len(p) \in 1 .. Len(w) /\ i = Len(p) + (i - Len(p))
      BY <2>2, <1>2, <1>5
    <3>2. pw[i] = w[i - Len(p)]
      BY <3>1, <1>2
    <3>3. w[i - Len(p)] \in Hops(L)
      BY <3>1, <1>0
    <3> QED BY <3>2, <3>3 DEF Hops
  <2> QED BY <2>1, <2>2
<1>6. ASSUME NEW i \in 1 .. Len(pw) - 1 PROVE s[pw[i].nd][pw[i].dir] = pw[i + 1].nd
  <2>1. CASE i < Len(p)
    <3>1. pw[i] = p[i] /\ pw[i + 1] = p[i + 1] /\ i \in 1 .. Len(p) - 1
      BY <2>1, <1>2, <1>6
    <3> QED BY <3>1 DEF GoodPath
  <2>2. CASE i = Len(p)
    <3>1. pw[i] = p[Len(p)] /\ pw[i + 1] = w[1]
      BY <2>2, <1>2
    <3>2. w[1].nd = m
      BY DEF Chain
    <3> QED BY <3>1, <3>2
  <2>3. CASE i > Len(p)
    <3>1a. i \in Nat /\ i <= Len(p) + Len(w) - 1
      BY <1>2, <1>6
    <3>2. PICK t \in 1 .. Len(w) - 1 : /\ t \in 1 .. Len(w) /\ t + 1 \in 1 .. Len(w)
                                       /\ i = Len(p) + t /\ i + 1 = Len(p) + (t + 1)
      <4>1. i \in Nat /\ Len(p) \in Nat /\ Len(w) \in Nat /\ i > Len(p) /\ i <= Len(p) + Len(w) - 1
        BY <2>3, <3>1a, <1>2
      <4>2. Later(i, Len(p), Len(w))
        BY <4>1, LaterIs
      <4> QED BY <4>2 DEF Later
    <3>3. pw[i] = w[t] /\ pw[i + 1] = w[t + 1]
      BY <3>2, <1>2
    <3> QED BY <3>2, <3>3 DEF Chain
  <2> QED BY <2>1, <2>2, <2>3, <1>2
<1>7. GoodPath(s, L, pw)
  BY <1>2, <1>4, <1>5, <1>6 DEF GoodPath, H
<1>8. Joined(s, L, p, w, pw)
  BY <1>2, <1>3, <1>7 DEF Joined
<1> QED BY <1>8 DEF pw

(* A path whose pointers have not changed. *)
LEMMA PathKept ==
    ASSUME NEW s, NEW L, NEW L1, NEW p, GoodPath(s, L, p), NEW s1,
           \A i \in 2 .. Len(p) : p[i].nd \in L1,
           \A i \in 1 .. Len(p) - 1 : s1[p[i].nd][p[i].dir] = s[p[i].nd][p[i].dir]
    PROVE  GoodPath(s1, L1, p)
<1>1. p \in Seq(Hops(L1 \cup {ROOT}))
  <2>1. p \in Seq(Hops(L \cup {ROOT})) /\ Len(p) \in Nat
    BY DEF GoodPath
  <2>2. \A i \in 1 .. Len(p) : p[i] \in Hops(L1 \cup {ROOT})
    <3> SUFFICES ASSUME NEW i \in 1 .. Len(p) PROVE p[i] \in Hops(L1 \cup {ROOT})
      OBVIOUS
    <3>1. p[i] \in Hops(L \cup {ROOT})
      BY <2>1
    <3>2. p[i].nd \in L1 \cup {ROOT}
      <4>1. CASE i = 1
        BY <4>1 DEF GoodPath, Hop
      <4>2. CASE i # 1
        BY <4>2, <2>1
      <4> QED BY <4>1, <4>2
    <3> QED BY <3>1, <3>2 DEF Hops
  <2> DEFINE H1 == Hops(L1 \cup {ROOT})
             H0 == Hops(L \cup {ROOT})
  <2> HIDE DEF H1, H0
  <2>3. p \in Seq(H0) /\ \A i \in 1 .. Len(p) : p[i] \in H1
    BY <2>1, <2>2 DEF H1, H0
  <2>4. p \in Seq(H1)
    BY <2>3
  <2> QED BY <2>4 DEF H1
<1> QED BY <1>1 DEF GoodPath

(* Front of a path, as SubSeq. *)
LEMMA FrontIs ==
    ASSUME RbAssumption, NEW h \in Heap, NEW L, NEW T, Tree(h, L, T), NEW p, GoodPath(SubOf(h), L, p), Len(p) >= 2
    PROVE  /\ Front(p) = SubSeq(p, 1, Len(p) - 1)
           /\ GoodPath(SubOf(h), L, Front(p)) /\ Len(Front(p)) = Len(p) - 1
           /\ \A i \in 1 .. Len(p) - 1 : Front(p)[i] = p[i]
<1>1. Len(p) \in Nat /\ Len(p) - 1 \in 1 .. Len(p)
  BY PathHeap
<1>2. Front(p) = SubSeq(p, 1, Len(p) - 1)
  BY DEF Front
<1> QED BY <1>1, <1>2, PathFront

(* Case 3: the sibling is painted red, and the gap moves up. *)
ShortB(B, q, w) == [B EXCEPT ![q] = B[q] - 1, ![w] = B[w] - 1]

(* Painting the sibling red moves the missing black node one level up      *)
(* (HXrbtree_dmov with two black nephews).                                 *)
LEMMA MoveUp ==
    ASSUME RbAssumption, NEW h, NEW L, NEW T, NEW B, NEW p, Deleting(h, L, T, B, p), Len(p) >= 2,
           NEW q, NEW d, NEW a, NEW e, NEW w, Kin(h, L, p, q, d, a, e, w), ~IsRed(h, End(h, p)),
           h[w].color = "BLACK", \A f \in Dirs : ~IsRed(h, h[w].sub[f]),
           NEW h1, Painted(h, h1, w, "RED")
    PROVE  Deleting(h1, L, T, ShortB(B, q, w), Front(p))
<1> DEFINE o == Other(d)
           p1 == Front(p)
           B1 == ShortB(B, q, w)
<1>0. /\ h \in Heap /\ Tree(h, L, T) /\ GoodPath(SubOf(h), L, p)
      /\ Balanced(h, L, B, {<<q, d>>}) /\ RedFree(h, L, {}, {}) /\ ~IsRed(h, RootOf(h))
  BY KinIs DEF Deleting, Kin
<1>1. /\ q \in L /\ d \in Dirs /\ o \in Dirs /\ o # d /\ p[Len(p) - 1] = Hop(a, e) /\ Slot(L, a, e)
      /\ h[a].sub[e] = q /\ h[q].sub[o] = w /\ w \in L
  BY DEF Kin
<1>2. /\ NULL \notin L /\ L \subseteq Addr /\ ROOT \in Addr /\ Dirs = {d, o} /\ ROOT \notin L
      /\ \A n \in L, f \in Dirs : h[n].sub[f] \in L \cup {NULL}
      /\ RootOf(h) \in L \cup {NULL} /\ a \in Addr
  BY <1>0, <1>1, TreeSubs, DirFacts DEF RootOf
<1> HIDE DEF o
<1>3. a # q /\ a # w /\ q # w /\ \A f \in Dirs : h[w].sub[f] \notin {a, q, w}
  BY <1>0, <1>1, TreeGrand
<1>4. /\ \A n \in L, f \in Dirs : h[n].sub[f] = q => n = a /\ f = e
      /\ \A n \in L, f \in Dirs : h[n].sub[f] = w => n = q /\ f = o
  <2>1. (\A n \in L, f \in Dirs : Slot(L, n, f)) /\ Slot(L, q, o)
    BY <1>1 DEF Slot
  <2>2. \A b, g, c, f : Slot(L, b, g) /\ Slot(L, c, f) /\ h[b].sub[g] = h[c].sub[f]
                              /\ h[b].sub[g] # NULL => b = c /\ g = f
    BY <1>0, TreeSubs
  <2> QED BY <2>1, <2>2, <1>1, <1>2
<1>5. /\ h1 \in Heap /\ SameEntries(h, h1)
      /\ \A n \in Addr : h1[n].sub = h[n].sub
      /\ h1[w].color = "RED"
      /\ \A n \in Addr : n # w => h1[n].color = h[n].color
  BY DEF Painted
<1>6. Tree(h1, L, T)
  BY <1>0, <1>5, SameTree
<1>7. GoodPath(SubOf(h), L, p1) /\ Len(p1) = Len(p) - 1 /\ p1[Len(p1)] = Hop(a, e) /\ Len(p) \in Nat
  <2>1. Len(p) \in Nat /\ Len(p) - 1 \in 1 .. Len(p) - 1
    BY <1>0, PathHeap
  <2> QED BY <2>1, <1>0, <1>1, FrontIs
<1> HIDE DEF p1
<1>8. SubOf(h1) = SubOf(h)
  BY <1>5 DEF SubOf
<1>9. EndSlot(p1) = <<a, e>> /\ End(h1, p1) = q
  BY <1>1, <1>2, <1>5, <1>7 DEF EndSlot, End, Hop
<1>10. Balanced(h1, L, B1, {<<a, e>>})
  <2>1. B \in [L \cup {NULL} -> Nat] /\ B[NULL] = 0
    BY <1>0 DEF Balanced
  <2>2. \A n \in L, f \in Dirs : B[n] = B[h[n].sub[f]] + Wt(h, n) + Gap({<<q, d>>}, n, f)
    BY <1>0 DEF Balanced
  <2>3. /\ Wt(h, w) = 1 /\ Wt(h1, w) = 0
        /\ \A n \in L : n # w => Wt(h1, n) = Wt(h, n)
        /\ \A n \in L : Wt(h, n) \in Nat
        /\ Gap({<<q, d>>}, q, d) = 1
        /\ \A n, f : ~(n = q /\ f = d) => Gap({<<q, d>>}, n, f) = 0
        /\ Gap({<<a, e>>}, a, e) = 1
        /\ \A n, f : ~(n = a /\ f = e) => Gap({<<a, e>>}, n, f) = 0
    BY <1>2, <1>5 DEF Wt, Gap
  <2>4. \A n \in L, f \in Dirs : B[h[n].sub[f]] \in Nat
    BY <2>1, <1>2
  <2>5. B[q] = B[h[q].sub[d]] + Wt(h, q) + 1 /\ B[q] = B[w] + Wt(h, q)
    <3>1. Gap({<<q, d>>}, q, o) = 0
      BY <2>3, <1>1
    <3>2. B[q] = B[h[q].sub[d]] + Wt(h, q) + Gap({<<q, d>>}, q, d)
      BY <2>2, <1>1
    <3>3. B[q] = B[w] + Wt(h, q) + Gap({<<q, d>>}, q, o)
      BY <2>2, <1>1
    <3> DEFINE bq == B[q]
               bx == B[h[q].sub[d]]
               bw == B[w]
               wq == Wt(h, q)
    <3>4. bx \in Nat /\ bw \in Nat /\ wq \in Nat
      BY <2>1, <2>3, <2>4, <1>1
    <3>5. bq = bx + wq + 1 /\ bq = bw + wq + 0
      BY <3>1, <3>2, <3>3, <2>3
    <3> HIDE DEF bq, bx, bw, wq
    <3>6. bq = bx + wq + 1 /\ bq = bw + wq
      BY <3>4, <3>5
    <3> QED BY <3>6 DEF bq, bx, bw, wq
  <2>6. \A f \in Dirs : B[w] = B[h[w].sub[f]] + 1
    <3> TAKE f \in Dirs
    <3>1. B[w] = B[h[w].sub[f]] + Wt(h, w) + Gap({<<q, d>>}, w, f)
      BY <2>2, <1>1
    <3>2. Gap({<<q, d>>}, w, f) = 0
      BY <2>3, <1>3
    <3> QED BY <3>1, <3>2, <2>3, <2>4, <1>1
  <2>7. B[q] - 1 \in Nat /\ B[w] - 1 \in Nat
    <3>1. \A u, v, t \in Nat : u = v + t + 1 => u - 1 \in Nat
      OBVIOUS
    <3>2. B[q] \in Nat /\ B[w] \in Nat /\ Wt(h, q) \in Nat /\ B[h[q].sub[d]] \in Nat /\ B[h[w].sub[d]] \in Nat
      BY <2>1, <2>3, <2>4, <1>1
    <3>3. B[q] - 1 \in Nat
      BY <3>1, <3>2, <2>5
    <3>4. \A u, v \in Nat : u = v + 1 => u - 1 \in Nat
      OBVIOUS
    <3>5. B[w] - 1 \in Nat
      BY <3>2, <3>4, <2>6, <1>1
    <3> QED BY <3>3, <3>5
  <2>8. /\ B1 \in [L \cup {NULL} -> Nat] /\ B1[NULL] = 0 /\ B1[q] = B[q] - 1 /\ B1[w] = B[w] - 1
        /\ \A n \in L \cup {NULL} : n # q /\ n # w => B1[n] = B[n]
    <3>1. q \in L \cup {NULL} /\ w \in L \cup {NULL} /\ q # NULL /\ w # NULL
      BY <1>1, <1>2
    <3> QED BY <3>1, <2>1, <2>7, <1>3 DEF ShortB
  <2> HIDE DEF B1
  <2>9. ASSUME NEW n \in L, NEW f \in Dirs
        PROVE  B1[n] = B1[h1[n].sub[f]] + Wt(h1, n) + Gap({<<a, e>>}, n, f)
    <3>1. h1[n].sub[f] = h[n].sub[f] /\ h[n].sub[f] \in L \cup {NULL}
      BY <1>2, <1>5
    <3>2. CASE n = q /\ f = d
      <4>1. h[q].sub[d] # q /\ h[q].sub[d] # w /\ ~(q = a /\ d = e)
        BY <1>0, <1>1, <1>2, <1>3, <1>4
      <4>2. B1[h[q].sub[d]] = B[h[q].sub[d]] /\ Gap({<<a, e>>}, q, d) = 0 /\ Wt(h1, q) = Wt(h, q)
        <5>1. h[q].sub[d] \in L \cup {NULL}
          BY <1>1, <1>2
        <5>2. Gap({<<a, e>>}, q, d) = 0
          BY <4>1, <2>3
        <5> QED BY <4>1, <5>1, <5>2, <2>3, <2>8, <1>1, <1>3
      <4> QED BY SMTT(30), <3>1, <3>2, <4>2, <2>1, <2>3, <2>4, <2>5, <2>8, <1>1
    <3>3. CASE n = q /\ f = o
      <4>1. Gap({<<a, e>>}, q, o) = 0 /\ Wt(h1, q) = Wt(h, q)
        BY ZenonT(30), <2>3, <1>1, <1>3
      <4> QED BY <3>1, <3>3, <4>1, <2>1, <2>3, <2>5, <2>8, <1>1
    <3>4. CASE n = w
      <4>1. B1[h[w].sub[f]] = B[h[w].sub[f]] /\ Gap({<<a, e>>}, w, f) = 0
        <5>1. Gap({<<a, e>>}, w, f) = 0
          BY <2>3, <1>3
        <5>2. h[w].sub[f] \in L \cup {NULL} /\ h[w].sub[f] # q /\ h[w].sub[f] # w
          BY <1>1, <1>2, <1>3
        <5> QED BY <5>1, <5>2, <2>8
      <4> QED BY SMTT(30), <3>1, <3>4, <4>1, <2>1, <2>3, <2>4, <2>6, <2>8, <1>1
    <3>5. CASE n # q /\ n # w
      <4>1. B[n] = B[h[n].sub[f]] + Wt(h, n)
        <5>1. Gap({<<q, d>>}, n, f) = 0
          BY <3>5, <2>3
        <5>2. B[n] = B[h[n].sub[f]] + Wt(h, n) + 0
          BY <5>1, <2>2
        <5>3. B[h[n].sub[f]] \in Nat /\ Wt(h, n) \in Nat
          BY <2>3, <2>4
        <5> QED BY <5>2, <5>3
      <4>2. h[n].sub[f] # w /\ (h[n].sub[f] = q <=> (n = a /\ f = e))
        BY <3>5, <1>1, <1>4
      <4>3. Wt(h1, n) = Wt(h, n) /\ B1[n] = B[n]
        BY <3>5, <2>3, <2>8
      <4>4. CASE n = a /\ f = e
        BY <3>1, <4>1, <4>2, <4>3, <4>4, <2>1, <2>3, <2>8, <1>1
      <4>5. CASE ~(n = a /\ f = e)
        <5>1. B1[h[n].sub[f]] = B[h[n].sub[f]] /\ Gap({<<a, e>>}, n, f) = 0
          BY <3>1, <4>2, <4>5, <2>3, <2>8
        <5> QED BY <3>1, <4>1, <4>3, <5>1, <2>3, <2>4
      <4> QED BY <4>4, <4>5
    <3> QED BY <3>2, <3>3, <3>4, <3>5, <1>2
  <2> QED BY <2>8, <2>9 DEF Balanced
<1>11. RedFree(h1, L, {q}, {q})
  <2> SUFFICES ASSUME NEW n \in L, NEW f \in Dirs, IsRed(h1, n), IsRed(h1, h1[n].sub[f]), n # q
               PROVE  FALSE
    BY DEF RedFree
  <2>1. h1[n].sub[f] = h[n].sub[f] /\ h[n].sub[f] \in L \cup {NULL}
    BY <1>2, <1>5
  <2>2. h[n].sub[f] # w
    BY <1>4
  <2>3. IsRed(h, h[n].sub[f])
    BY <2>1, <2>2, <1>2, <1>5 DEF IsRed
  <2>4. n # w
    BY <2>3
  <2>5. IsRed(h, n)
    BY <2>4, <1>2, <1>5 DEF IsRed
  <2> QED BY <2>3, <2>5, <1>0 DEF RedFree
<1>12. ~IsRed(h1, RootOf(h1))
  <2>1. RootOf(h1) = RootOf(h)
    BY <1>2, <1>5 DEF RootOf
  <2>2. RootOf(h) # w
    <3>1. Slot(L, ROOT, RBT_LEFT) /\ Slot(L, q, o)
      BY <1>1 DEF Slot
    <3> QED BY <3>1, <1>0, <1>1, <1>2, TreeSubs DEF RootOf
  <2> QED BY <2>1, <2>2, <1>0, <1>2, <1>5 DEF IsRed
<1>13. Deleting(h1, L, T, B1, p1)
  BY <1>5, <1>6, <1>7, <1>8, <1>9, <1>10, <1>11, <1>12 DEF Deleting
<1> QED BY <1>13 DEF p1, B1

(* Case 2: a red sibling changes place with the parent, which gets a black *)
(* one.                                                                    *)
RedSiblingPath(p, q, d, w) == Front(p) \o <<Hop(w, d), Hop(q, d)>>

(* After the rotation for a red sibling, with the sibling pushed on the    *)
(* path, the path still leads to the same place.                           *)
LEMMA TurnPath ==
    ASSUME RbAssumption, NEW h \in Heap, NEW L, NEW T, Tree(h, L, T), NEW p, GoodPath(SubOf(h), L, p), Len(p) >= 2,
           NEW q \in L, NEW d \in Dirs, NEW a, NEW e, NEW w \in L,
           p[Len(p)] = Hop(q, d), p[Len(p) - 1] = Hop(a, e), Slot(L, a, e), h[a].sub[e] = q,
           h[q].sub[Other(d)] = w,
           NEW h2 \in Heap, Rotated(SubOf(h), SubOf(h2), a, e, q, Other(d), w)
    PROVE  /\ GoodPath(SubOf(h2), L, RedSiblingPath(p, q, d, w))
           /\ Len(RedSiblingPath(p, q, d, w)) = Len(p) + 1
           /\ RedSiblingPath(p, q, d, w)[Len(p) + 1] = Hop(q, d)
           /\ RedSiblingPath(p, q, d, w)[Len(p)] = Hop(w, d)
<1> DEFINE s == SubOf(h)
           s2 == SubOf(h2)
           o == Other(d)
           p1 == Front(p)
           c == <<Hop(w, d), Hop(q, d)>>
<1>0. /\ L \subseteq Addr /\ o \in Dirs /\ o # d /\ Other(o) = d /\ Shape(KeyOf(h), s, L, T)
      /\ \A x \in Addr : s[x] = h[x].sub /\ s2[x] = h2[x].sub
      /\ RBT_LEFT \in Dirs
  BY TreeSubs, DirFacts, HeapSubs DEF Tree
<1>1. /\ s2[a][e] = w /\ s2[w][d] = q
      /\ \A x \in Addr, f \in Dirs : x \notin {a, q, w} => s2[x][f] = s[x][f]
  BY <1>0 DEF Rotated
<1>2. s[q][o] = w
  BY <1>0
<1> HIDE DEF s, s2, o
<1>3. /\ Len(p) \in Nat /\ Len(p) - 1 \in 1 .. Len(p) /\ Len(p) \in 1 .. Len(p)
      /\ \A i \in 1 .. Len(p) : Slot(L, p[i].nd, p[i].dir)
  BY PathHeap
<1>4. GoodPath(s, L, p)
  BY DEF s
<1>5. /\ GoodPath(s, L, p1) /\ Len(p1) = Len(p) - 1 /\ \A i \in 1 .. Len(p) - 1 : p1[i] = p[i]
  BY FrontIs DEF s
<1> HIDE DEF p1
<1>6. ASSUME NEW i \in 1 .. Len(p) - 2
      PROVE  s2[p[i].nd][p[i].dir] = s[p[i].nd][p[i].dir]
  <2>1. i \in 1 .. Len(p) /\ i < Len(p) - 1 /\ i < Len(p) /\ i \in 1 .. Len(p) - 1
    BY <1>3, <1>6
  <2>2. p[i].nd # p[Len(p) - 1].nd /\ p[i].nd # p[Len(p)].nd
    BY <2>1, <1>0, <1>3, <1>4, PathDistinct
  <2>3. p[i].nd # a /\ p[i].nd # q
    BY <2>2 DEF Hop
  <2>4. p[i].nd \in Addr /\ p[i].dir \in Dirs
    BY <2>1, <1>3, TreeSubs
  <2>5. p[i].nd # w
    <3> SUFFICES ASSUME p[i].nd = w PROVE FALSE
      OBVIOUS
    <3> DEFINE f == p[i].dir
    <3>1. p[Len(p)].nd \in T[s[p[i].nd][p[i].dir]]
      BY <2>1, <1>0, <1>3, <1>4, PathBelow
    <3>2. q \in T[s[w][f]]
      BY <3>1 DEF Hop
    <3>3. T[s[w][f]] \subseteq T[w]
      BY <2>4, <1>0, SubtreeOf
    <3>4. q \notin T[w]
      BY <1>0, <1>2, Child
    <3> QED BY <3>2, <3>3, <3>4
  <2> QED BY <2>3, <2>4, <2>5, <1>1
<1>7. GoodPath(s2, L, p1)
  <2>1. \A i \in 2 .. Len(p1) : p1[i].nd \in L
    BY <1>5 DEF GoodPath
  <2>2. \A i \in 1 .. Len(p1) - 1 : s2[p1[i].nd][p1[i].dir] = s[p1[i].nd][p1[i].dir]
    BY SMTT(30), <1>3, <1>5, <1>6
  <2> QED BY <2>1, <2>2, <1>5, PathKept
<1>8. Chain(s2, L, w, c, s2[q][d])
  <2>1. Hop(w, d) \in Hops(L) /\ Hop(q, d) \in Hops(L)
    BY DEF Hop, Hops
  <2>2. c \in Seq(Hops(L)) /\ Len(c) = 2 /\ c[1] = Hop(w, d) /\ c[2] = Hop(q, d) /\ c # <<>>
    BY <2>1
  <2> HIDE DEF c
  <2> QED BY <2>2, <1>1 DEF Chain, Hop
<1>9. Len(c) = 2 /\ c[1] = Hop(w, d) /\ c[2] = Hop(q, d) /\ c # <<>>
  OBVIOUS
<1> HIDE DEF c
<1>10. s2[p1[Len(p1)].nd][p1[Len(p1)].dir] = w
  BY <1>1, <1>3, <1>5 DEF Hop
<1>11. /\ GoodPath(s2, L, p1 \o c) /\ Len(p1 \o c) = Len(p1) + Len(c)
       /\ \A i \in 1 .. Len(c) : (p1 \o c)[Len(p1) + i] = c[i]
  <2>1. Joined(s2, L, p1, c, p1 \o c)
    BY <1>7, <1>8, <1>9, <1>10, PathJoin
  <2> QED BY <2>1 DEF Joined
<1>12. Len(p1 \o c) = Len(p) + 1 /\ (p1 \o c)[Len(p) + 1] = Hop(q, d) /\ (p1 \o c)[Len(p)] = Hop(w, d)
  <2>1. Len(p1) + 1 = Len(p) /\ Len(p1) + 2 = Len(p) + 1 /\ 1 \in 1 .. Len(c) /\ 2 \in 1 .. Len(c)
    BY <1>3, <1>5, <1>9
  <2>2. (p1 \o c)[Len(p1) + 1] = c[1] /\ (p1 \o c)[Len(p1) + 2] = c[2]
    BY <2>1, <1>11
  <2> QED BY <2>1, <2>2, <1>9, <1>11
<1> QED BY <1>11, <1>12 DEF s2, p1, c, RedSiblingPath

(* The short side is still short, and its sibling is black. *)
RedSiblingDone(h, h2, L, p2, q, d, w) ==
    /\ SameEntries(h, h2)
    /\ \E T2, B2 : Deleting(h2, L, T2, B2, p2)
    /\ ~IsRed(h2, End(h2, p2))
    /\ ~IsRed(h2, h2[q].sub[Other(d)])

(* The red sibling case of HXrbtree_dmov leads to one of the others, with  *)
(* a black sibling and a red parent.                                       *)
LEMMA RedSibling ==
    ASSUME RbAssumption, NEW h, NEW L, NEW T, NEW B, NEW p, Deleting(h, L, T, B, p), Len(p) >= 2,
           NEW q, NEW d, NEW a, NEW e, NEW w, Kin(h, L, p, q, d, a, e, w), ~IsRed(h, End(h, p)),
           IsRed(h, w), NEW h2, Swung(h, h2, L, a, e, q, Other(d), w), h[q].color = "BLACK"
    PROVE  RedSiblingDone(h, h2, L, RedSiblingPath(p, q, d, w), q, d, w)
<1> DEFINE o == Other(d)
           p2 == RedSiblingPath(p, q, d, w)
<1>0. /\ h \in Heap /\ Tree(h, L, T) /\ GoodPath(SubOf(h), L, p)
      /\ Balanced(h, L, B, {<<q, d>>}) /\ RedFree(h, L, {}, {}) /\ ~IsRed(h, RootOf(h))
      /\ ~IsRed(h, h[q].sub[d])
  BY KinIs DEF Deleting, Kin
<1>1. /\ q \in L /\ d \in Dirs /\ o \in Dirs /\ o # d /\ p[Len(p)] = Hop(q, d)
      /\ p[Len(p) - 1] = Hop(a, e) /\ Slot(L, a, e)
      /\ h[a].sub[e] = q /\ h[q].sub[o] = w /\ w \in L
  BY DEF Kin
<1>2. /\ NULL \notin L /\ L \subseteq Addr /\ ROOT \in Addr /\ Dirs = {d, o} /\ ROOT \notin L /\ Other(o) = d
      /\ \A n \in L, f \in Dirs : h[n].sub[f] \in L \cup {NULL}
      /\ RootOf(h) \in L \cup {NULL} /\ a \in Addr /\ RBT_LEFT \in Dirs
  BY <1>0, <1>1, TreeSubs, DirFacts DEF RootOf
<1>3. /\ h2 \in Heap /\ SameEntries(h, h2) /\ Rotated(SubOf(h), SubOf(h2), a, e, q, o, w)
      /\ h2[w].color = "BLACK" /\ h2[q].color = "RED"
      /\ \A x \in L : x # q /\ x # w => h2[x].color = h[x].color
  BY DEF Swung
<1>4. /\ GoodPath(SubOf(h2), L, p2) /\ Len(p2) = Len(p) + 1 /\ p2[Len(p2)] = Hop(q, d)
  BY <1>0, <1>1, <1>3, TurnPath
<1>4a. Len(p) \in Nat
  BY <1>0, PathHeap
<1> HIDE DEF p2
<1>5. EndSlot(p2) = <<q, d>> /\ End(h2, p2) = h2[q].sub[d]
  BY <1>4 DEF EndSlot, End, Hop
<1>6. Swung(h, h2, L, a, e, q, o, w)
  OBVIOUS
<1> HIDE DEF o
<1>7. TurnedTo(h, h2, L, a, e, q, o, w)
  BY <1>0, <1>1, <1>3, TurnedSubs
<1>8. /\ h2[a].sub[e] = w /\ h2[q].sub[o] = h[w].sub[d] /\ h2[w].sub[d] = q
      /\ h2[q].sub[d] = h[q].sub[d]
      /\ h[w].sub[d] \notin {q, w} /\ h[q].sub[d] \notin {q, w}
      /\ \A x \in L, f \in Dirs : x # q /\ x # w /\ ~(x = a /\ f = e) =>
            h2[x].sub[f] = h[x].sub[f] /\ h[x].sub[f] # q /\ h[x].sub[f] # w
      /\ a # q /\ a # w /\ w # q
  BY <1>2, <1>7 DEF TurnedTo
<1>9. h[w].color = "RED"
  BY DEF IsRed
<1>10. (\E T2 : Tree(h2, L, T2)) /\ Balanced(h2, L, SwungB(B, q, w), {<<q, d>>})
  <2> DEFINE S == {<<q, d>>}
  <2>1. <<q, o>> \notin S /\ <<w, o>> \notin S /\ <<w, Other(o)>> \notin S /\ Balanced(h, L, B, S)
    BY <1>0, <1>1, <1>8
  <2> HIDE DEF S
  <2>2. TreeWith(h2, L, SwungB(B, q, w), S)
    BY <2>1, <1>0, <1>1, <1>6, <1>9, SwingIs
  <2> QED BY <2>2 DEF S, TreeWith
<1>11. ~IsRed(h, h[w].sub[d])
  BY <1>0, <1>1 DEF RedFree
<1>12. /\ ~IsRed(h2, h2[q].sub[d]) /\ ~IsRed(h2, h2[q].sub[o])
  <2>1. h[q].sub[d] \in L \cup {NULL} /\ h[w].sub[d] \in L \cup {NULL}
    BY <1>1, <1>2
  <2> QED BY <2>1, <1>0, <1>3, <1>8, <1>11 DEF IsRed
<1>13. \A n \in L, f \in Dirs : IsRed(h2, n) => ~IsRed(h2, h2[n].sub[f])
  <2> SUFFICES ASSUME NEW n \in L, NEW f \in Dirs, IsRed(h2, n), IsRed(h2, h2[n].sub[f])
               PROVE  FALSE
    OBVIOUS
  <2>1. n # w
    BY <1>3 DEF IsRed
  <2>2. n # q
    BY <1>2, <1>12
  <2>3. ~(n = a /\ f = e)
    BY <1>3, <1>8 DEF IsRed
  <2>4. h2[n].sub[f] = h[n].sub[f] /\ h[n].sub[f] \notin {q, w} /\ h[n].sub[f] \in L \cup {NULL}
    BY <2>1, <2>2, <2>3, <1>2, <1>8
  <2>5. IsRed(h, n) /\ IsRed(h, h[n].sub[f])
    BY <2>1, <2>2, <2>4, <1>3 DEF IsRed
  <2> QED BY <2>5, <1>0 DEF RedFree
<1>14. ~IsRed(h2, RootOf(h2))
  <2>1. CASE a = ROOT
    <3>1. e = RBT_LEFT
      BY <2>1, <1>1, <1>2 DEF Slot
    <3> QED BY <2>1, <3>1, <1>3, <1>8 DEF RootOf, IsRed
  <2>2. CASE a # ROOT
    <3>0. SubOf(h2)[ROOT] = h2[ROOT].sub /\ SubOf(h)[ROOT] = h[ROOT].sub
      BY <1>0, <1>2, <1>3, HeapSubs
    <3>1. RootOf(h2) = RootOf(h)
      BY <2>2, <3>0, <1>1, <1>2, <1>3 DEF Rotated, RootOf
    <3>2. Slot(L, ROOT, RBT_LEFT) /\ Slot(L, q, o)
      BY <1>1 DEF Slot
    <3>3. RootOf(h) # q
      BY <2>2, <3>2, <1>0, <1>1, <1>2, TreeSubs DEF RootOf
    <3>4. RootOf(h) # w
      BY <3>2, <1>0, <1>1, <1>2, TreeSubs DEF RootOf
    <3> QED BY <3>1, <3>3, <3>4, <1>0, <1>2, <1>3 DEF IsRed
  <2> QED BY <2>1, <2>2
<1>15. PICK T2 : Tree(h2, L, T2)
  BY <1>10
<1>16. RedFree(h2, L, {End(h2, p2)}, {End(h2, p2)})
  BY <1>13 DEF RedFree
<1>17. Deleting(h2, L, T2, SwungB(B, q, w), p2)
  BY <1>3, <1>4, <1>5, <1>10, <1>14, <1>15, <1>16 DEF Deleting
<1> QED BY <1>3, <1>5, <1>12, <1>17 DEF RedSiblingDone, p2, o

(* The heaps of cases 5 and 6, as in Cases36. *)
Near(h, q, d, w) ==
    IF IsRed(h, h[w].sub[Other(d)]) THEN h
    ELSE Rotate(Paint(Paint(h, h[w].sub[d], "BLACK"), w, "RED"), Hop(q, Other(d)), w, d)

Far(h, a, e, q, o, w) ==
    Rotate(Paint(Paint(Paint(h, w, h[q].color), q, "BLACK"), h[w].sub[o], "BLACK"), Hop(a, e), q, o)

(* Far, the heap HXrbtree_dmov leaves when the far nephew is red, is a     *)
(* red-black tree.                                                         *)
LEMMA FarIs ==
    ASSUME RbAssumption, NEW h \in Heap, NEW L, NEW T, Tree(h, L, T),
           NEW a, NEW e, Slot(L, a, e), NEW q \in L, h[a].sub[e] = q,
           NEW d \in Dirs, NEW w \in L, h[q].sub[Other(d)] = w, h[w].color = "BLACK",
           NEW z \in L, h[w].sub[Other(d)] = z, h[z].color = "RED",
           NEW B, Balanced(h, L, B, {<<q, d>>}), RedFree(h, L, {}, {}), ~IsRed(h, RootOf(h))
    PROVE  RedBlackTree(h, Far(h, a, e, q, Other(d), w), L)
<1>1. Closed(h, Far(h, a, e, q, Other(d), w), L, a, e, q, Other(d), w, z)
  BY DirFacts, CloseHeap DEF Far
<1> QED BY <1>1, CloseIs

(* HXrbtree_dmov with a black sibling and a red nephew leaves a red-black  *)
(* tree.                                                                   *)
LEMMA CloseUp ==
    ASSUME RbAssumption, NEW h, NEW L, NEW T, NEW B, NEW p, Deleting(h, L, T, B, p), Len(p) >= 2,
           NEW q, NEW d, NEW a, NEW e, NEW w, Kin(h, L, p, q, d, a, e, w), ~IsRed(h, End(h, p)),
           ~IsRed(h, w), \E f \in Dirs : IsRed(h, h[w].sub[f]),
           NEW h5, h5 = Near(h, q, d, w)
    PROVE  RedBlackTree(h, Far(h5, a, e, q, Other(d), h5[q].sub[Other(d)]), L)
<1> DEFINE o == Other(d)
<1>0. /\ h \in Heap /\ Tree(h, L, T)
      /\ Balanced(h, L, B, {<<q, d>>}) /\ RedFree(h, L, {}, {}) /\ ~IsRed(h, RootOf(h))
  BY KinIs DEF Deleting, Kin
<1>1. /\ q \in L /\ d \in Dirs /\ o \in Dirs /\ o # d /\ Slot(L, a, e)
      /\ h[a].sub[e] = q /\ h[q].sub[o] = w /\ w \in L
  BY DEF Kin
<1>2. /\ NULL \notin L /\ L \subseteq Addr /\ Dirs = {d, o} /\ Other(o) = d
      /\ \A n \in L, f \in Dirs : h[n].sub[f] \in L \cup {NULL}
      /\ \A n \in Addr : h[n].color \in {"RED", "BLACK"}
  BY <1>0, <1>1, TreeSubs, DirFacts
<1>3. h[w].color = "BLACK"
  BY <1>1, <1>2 DEF IsRed
<1>4. CASE IsRed(h, h[w].sub[o])
  <2> DEFINE z == h[w].sub[o]
  <2>1. z \in L /\ h[z].color = "RED" /\ h5 = h
    BY <1>1, <1>2, <1>4 DEF IsRed, Near
  <2>2. RedBlackTree(h, Far(h, a, e, q, Other(d), w), L)
    BY <2>1, <1>0, <1>1, <1>3, FarIs
  <2> QED BY <2>1, <2>2, <1>1
<1>5. CASE ~IsRed(h, h[w].sub[o])
  <2> DEFINE c == h[w].sub[d]
             h7 == Far(h5, a, e, q, Other(d), c)
  <2>1. IsRed(h, c) /\ c \in L /\ h[c].color = "RED"
    BY <1>1, <1>2, <1>5 DEF IsRed
  <2>2. h5 = Rotate(Paint(Paint(h, c, "BLACK"), w, "RED"), Hop(q, o), w, d)
    BY <1>5 DEF Near
  <2> HIDE DEF c
  <2>3. Slot(L, q, o) /\ h[w].sub[d] = c
    BY <1>1 DEF Slot, c
  <2>4. Swung(h, h5, L, q, o, w, d, c)
    BY <2>1, <2>2, <2>3, <1>0, <1>1, <1>3, PaintThenRotate
  <2>5. /\ h5 \in Heap /\ SameEntries(h, h5)
        /\ \E T5 : Tree(h5, L, T5)
        /\ h5[a].sub[e] = q /\ h5[q].sub[o] = c /\ h5[c].color = "BLACK"
        /\ h5[c].sub[o] = w /\ h5[w].color = "RED"
        /\ \E B5 : Balanced(h5, L, B5, {<<q, d>>})
        /\ RedFree(h5, L, {}, {}) /\ ~IsRed(h5, RootOf(h5))
    <3>1. Exchanged(h, h5, L, a, e, q, d, o, w, c)
      <4> HIDE DEF o
      <4>1. o = Other(d)
        BY DEF o
      <4> QED BY <4>1, <2>1, <2>3, <2>4, <1>0, <1>1, <1>3, <1>5, NearIs
    <3> QED BY <3>1 DEF Exchanged
  <2>6. PICK T5 : Tree(h5, L, T5)
    BY <2>5
  <2>7. PICK B5 : Balanced(h5, L, B5, {<<q, d>>})
    BY <2>5
  <2>8. RedBlackTree(h5, h7, L)
    BY <2>1, <2>5, <2>6, <2>7, <1>1, FarIs
  <2> HIDE DEF h7
  <2>9. RedBlackTree(h, h7, L)
    BY <2>5, <2>8 DEF RedBlackTree, Rebalanced, SameEntries
  <2> QED BY <2>5, <2>9 DEF h7
<1> QED BY <1>4, <1>5

=============================================================================
