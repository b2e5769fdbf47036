-------------------------- MODULE HXrbtree_proofs ---------------------------
(***************************************************************************)
(* The inductive invariant of HXrbtree, for every set of keys, nodes and   *)
(* traversers, and that the tree is ordered, whole and red-black.          *)
(*                                                                         *)
(* First come linking and unlinking a node, the exchange with the inorder  *)
(* successor included; they too are said of any heap.  The invariant RbInv *)
(* then says of a state what was said of a heap: Good is a tree with the   *)
(* nodes that are allocated, which is Settled between calls, Adding or     *)
(* Deleting along call.path during one.  Entries says that no two nodes    *)
(* have the same key and that the call under way is for the node it says;  *)
(* rebalancing leaves it alone.                                            *)
(***************************************************************************)
EXTENDS HXrbshape_proofs

-----------------------------------------------------------------------------
(* HXrbtree_del: unlinking a node.                                         *)

(* Node n, the end of the path, is led past to its child on side d, the    *)
(* other side being empty.                                                 *)
Unlinked(h, h1, L, p, n, m) ==
    /\ GoodPath(SubOf(h1), L \ {n}, p) /\ End(h1, p) = m
    /\ m \in (L \ {n}) \cup {NULL}
    /\ \A y \in L \ {n}, f \in Dirs :
         ~(y = p[Len(p)].nd /\ f = p[Len(p)].dir) => h1[y].sub[f] = h[y].sub[f] /\ h[y].sub[f] # n
    /\ m # NULL => \A y \in L, f \in Dirs : h[y].sub[f] = m => y = n
    /\ \A i \in 1 .. Len(p) : p[i].nd # n

(* Unallocated nodes point nowhere. *)
Clean(h, L) == \A y \in Nodes \ L, f \in Dirs : h[y].sub[f] = NULL

(* Unlinking a node with at most one child removes that node from the tree *)
(* and no other.                                                           *)
LEMMA UnlinkTree ==
    ASSUME RbAssumption, NEW h \in Heap, NEW L, NEW T, Tree(h, L, T), Clean(h, L),
           NEW p, GoodPath(SubOf(h), L, p), NEW n \in L, End(h, p) = n,
           NEW d \in Dirs, h[n].sub[Other(d)] = NULL, NEW m, h[n].sub[d] = m,
           NEW h1, Linked(h, h1, p[Len(p)].nd, p[Len(p)].dir, m)
    PROVE  /\ Tree(h1, L \ {n}, RemovedT(T, L, n))
           /\ Unlinked(h, h1, L, p, n, m)
<1> DEFINE a == p[Len(p)].nd
           e == p[Len(p)].dir
           s == SubOf(h)
           s1 == SubOf(h1)
           L1 == L \ {n}
<1>0. /\ L \subseteq Addr /\ L \subseteq Nodes /\ NULL \notin L /\ ROOT \notin L
      /\ Shape(KeyOf(h), s, L, T) /\ Outside(s, L) /\ IsFiniteSet(L)
      /\ h1 \in Heap /\ SameEntries(h, h1)
      /\ \A y \in Addr : s[y] = h[y].sub
  BY TreeSubs, HeapSubs DEF Tree, Linked
<1>0a. s1 \in Subs /\ \A y \in Addr : s1[y] = h1[y].sub
  BY <1>0, HeapSubs
<1>1. /\ Len(p) \in Nat /\ Len(p) \in 1 .. Len(p) /\ Len(p) >= 1
      /\ \A i \in 1 .. Len(p) : Slot(L, p[i].nd, p[i].dir)
  BY PathHeap
<1>2. Slot(L, a, e) /\ h[a].sub[e] = n /\ a \in Addr /\ e \in Dirs /\ s[a][e] = n
  <2>1. Slot(L, a, e)
    BY <1>1
  <2> QED BY <2>1, <1>0, TreeSubs DEF End
<1>3. m \in L \cup {NULL} /\ m # n
  BY TreeSubs, TreeChild, <1>2
<1>3a. h1[a].sub[e] = m
  BY DEF Linked
<1> HIDE DEF s, s1, a, e
<1>4. Removed(s, s1, a, e, n, d)
  <2>1. s1[a][e] = s[n][d]
    BY <1>0, <1>0a, <1>2, <1>3a
  <2>2. \A y \in Addr, f \in Dirs : ~(y = a /\ f = e) => s1[y][f] = s[y][f]
    BY <1>0, <1>0a DEF Linked, a, e
  <2> QED BY <2>1, <2>2, <1>0a DEF Removed
<1>5. s[n][Other(d)] = NULL
  BY <1>0
<1>6. Shape(KeyOf(h), s1, L1, RemovedT(T, L, n))
  BY <1>0, <1>2, <1>4, <1>5, RemoveShape
<1>7. Outside(s1, L1)
  <2> SUFFICES ASSUME NEW y \in Nodes \ L1, NEW f \in Dirs
               PROVE  s1[y][f] \in L1 \cup {NULL}
    BY DEF Outside
  <2>0. y \in Addr
    BY DEF Addr
  <2>1. CASE y = n
    <3>1. ~(y = a /\ f = e)
      BY <2>1, <1>2, TreeChild
    <3>2. s1[y][f] = s[n][f]
      BY <2>0, <2>1, <3>1, <1>4 DEF Removed
    <3>3. h[n].sub[f] \in L \cup {NULL} /\ h[n].sub[f] # n
      BY <1>2, TreeSubs, TreeChild
    <3> QED BY <3>2, <3>3, <1>0
  <2>2. CASE y \in Nodes \ L
    <3>1. ~(y = a /\ f = e)
      BY <2>2, <1>2 DEF Slot, RbAssumption
    <3>2. s1[y][f] = s[y][f] /\ s[y][f] = NULL
      BY <2>0, <2>2, <3>1, <1>0, <1>4 DEF Removed, Clean
    <3> QED BY <3>2
  <2> QED BY <2>1, <2>2
<1>8. Tree(h1, L1, RemovedT(T, L, n))
  <2>1. Shape(KeyOf(h1), s1, L1, RemovedT(T, L, n))
    <3>1. KeyOf(h1) = KeyOf(h)
      BY <1>0 DEF KeyOf, SameEntries
    <3> QED BY <3>1, <1>6
  <2>2. IsFiniteSet(L1)
    BY <1>0, FS_Subset
  <2> QED BY <2>1, <2>2, <1>7 DEF Tree, s1
<1>9. \A i \in 1 .. Len(p) : p[i].nd # n
  <2> SUFFICES ASSUME NEW i \in 1 .. Len(p) PROVE p[i].nd # n
    OBVIOUS
  <2>1. CASE i = Len(p)
    BY <2>1, <1>2, TreeChild DEF a
  <2>2. CASE i # Len(p)
    <3>1. Len(p) \in 1 .. Len(p) /\ i \in 1 .. Len(p) - 1
      BY <2>2, <1>1
    <3>2. a \in T[s[p[i].nd][p[i].dir]] /\ s[p[i].nd][p[i].dir] \in L
      BY <3>1, <1>0, PathBelow DEF s, a
    <3>3. a \in L
      BY <3>1, PathHeap DEF a
    <3>4. n \in T[a] /\ a \notin T[n] /\ n # a
      BY <3>3, <1>2, <1>0, Child
    <3>5. SUFFICES ASSUME p[i].nd = n PROVE FALSE
      OBVIOUS
    <3>6. p[i].dir \in Dirs
      BY <1>1, PathHeap
    <3>7. T[s[n][p[i].dir]] \subseteq T[n]
      BY <3>6, <1>0, SubtreeOf
    <3> QED BY <3>2, <3>4, <3>5, <3>7
  <2> QED BY <2>1, <2>2
<1>10. \A y \in L1, f \in Dirs :
         ~(y = a /\ f = e) => h1[y].sub[f] = h[y].sub[f] /\ h[y].sub[f] # n
  <2> SUFFICES ASSUME NEW y \in L1, NEW f \in Dirs, ~(y = a /\ f = e)
               PROVE  h1[y].sub[f] = h[y].sub[f] /\ h[y].sub[f] # n
    OBVIOUS
  <2>1. y \in Addr /\ Slot(L, y, f)
    BY <1>0 DEF Slot
  <2>2. h1[y].sub[f] = h[y].sub[f]
    BY <2>1 DEF Linked, a, e
  <2>3. h[y].sub[f] # n
    BY <2>1, <1>2, <1>0, TreeSubs
  <2> QED BY <2>2, <2>3
<1>11. GoodPath(s1, L1, p)
  <2>1. \A i \in 2 .. Len(p) : p[i].nd \in L1
    BY <1>9, PathHeap
  <2>2. \A i \in 1 .. Len(p) - 1 : s1[p[i].nd][p[i].dir] = s[p[i].nd][p[i].dir]
    <3> SUFFICES ASSUME NEW i \in 1 .. Len(p) - 1
                 PROVE  s1[p[i].nd][p[i].dir] = s[p[i].nd][p[i].dir]
      OBVIOUS
    <3>1. i \in 1 .. Len(p) /\ i < Len(p) /\ Len(p) \in 1 .. Len(p)
      BY <1>1
    <3>2. p[i].nd # a
      BY <3>1, <1>0, PathDistinct DEF a, s
    <3>3. p[i].nd \in Addr /\ p[i].dir \in Dirs
      <4>1. Slot(L, p[i].nd, p[i].dir)
        BY <3>1, <1>1
      <4> QED BY <4>1, TreeSubs
    <3> QED BY <3>2, <3>3, <1>4 DEF Removed
  <2> QED BY <2>1, <2>2, PathKept DEF s
<1>12. m # NULL => \A y \in L, f \in Dirs : h[y].sub[f] = m => y = n
  <2> SUFFICES ASSUME m # NULL, NEW y \in L, NEW f \in Dirs, h[y].sub[f] = m PROVE y = n
    OBVIOUS
  <2>1. Slot(L, y, f) /\ Slot(L, n, d)
    BY DEF Slot
  <2> QED BY <2>1, TreeSubs
<1> QED
  BY <1>3, <1>3a, <1>8, <1>9, <1>10, <1>11, <1>12 DEF Unlinked, End, a, e, s1

(* A red-black tree. *)
Settled(h, L, B) == Balanced(h, L, B, {}) /\ RedFree(h, L, {}, {}) /\ ~IsRed(h, RootOf(h))

UnlinkedB(B, L, n) == [y \in (L \ {n}) \cup {NULL} |-> B[y]]

(* A black node taken out leaves its place one black node short. *)
LEMMA UnlinkBlack ==
    ASSUME RbAssumption, NEW h \in Heap, NEW L, NEW T, Tree(h, L, T), NEW B, Settled(h, L, B),
           NEW p, GoodPath(SubOf(h), L, p), NEW n \in L, End(h, p) = n, h[n].color = "BLACK",
           NEW d \in Dirs, NEW m, h[n].sub[d] = m,
           NEW h1, Linked(h, h1, p[Len(p)].nd, p[Len(p)].dir, m), Unlinked(h, h1, L, p, n, m),
           NEW T1, Tree(h1, L \ {n}, T1)
    PROVE  Deleting(h1, L \ {n}, T1, UnlinkedB(B, L, n), p)
<1> DEFINE a == p[Len(p)].nd
           e == p[Len(p)].dir
           L1 == L \ {n}
           B1 == UnlinkedB(B, L, n)
<1>0. /\ L \subseteq Addr /\ NULL \notin L /\ ROOT \notin L /\ ROOT \in Addr
      /\ h1 \in Heap /\ SameColors(h, h1)
      /\ \A y \in L, f \in Dirs : h[y].sub[f] \in L \cup {NULL}
  BY TreeSubs DEF Linked
<1>1. /\ GoodPath(SubOf(h1), L1, p) /\ End(h1, p) = m /\ h1[a].sub[e] = m
      /\ m \in L1 \cup {NULL}
      /\ \A y \in L1, f \in Dirs : ~(y = a /\ f = e) => h1[y].sub[f] = h[y].sub[f] /\ h[y].sub[f] # n
  BY DEF Unlinked, End
<1>2. B \in [L \cup {NULL} -> Nat] /\ B[NULL] = 0
  BY DEF Settled, Balanced
<1>3. B1 \in [L1 \cup {NULL} -> Nat] /\ B1[NULL] = 0 /\ \A y \in L1 \cup {NULL} : B1[y] = B[y]
  BY <1>2 DEF UnlinkedB
<1>4. \A y \in L : Wt(h1, y) = Wt(h, y) /\ Wt(h, y) \in Nat
  BY <1>0 DEF Wt, SameColors
<1>4a. \A y \in L \cup {NULL} : IsRed(h1, y) = IsRed(h, y)
  BY <1>0 DEF IsRed, SameColors
<1>5. h[a].sub[e] = n
  BY DEF End
<1>6. \A y \in L, f \in Dirs : B[y] = B[h[y].sub[f]] + Wt(h, y)
  <2> SUFFICES ASSUME NEW y \in L, NEW f \in Dirs PROVE B[y] = B[h[y].sub[f]] + Wt(h, y)
    OBVIOUS
  <2>1. B[y] = B[h[y].sub[f]] + Wt(h, y) + Gap({}, y, f)
    BY DEF Settled, Balanced
  <2>2. Gap({}, y, f) = 0 /\ B[h[y].sub[f]] \in Nat
    BY <1>0, <1>2 DEF Gap
  <2> QED BY <2>1, <2>2, <1>4
<1> HIDE DEF a, e, B1
<1>7. Balanced(h1, L1, B1, {<<a, e>>})
  <2> SUFFICES ASSUME NEW y \in L1, NEW f \in Dirs
               PROVE  B1[y] = B1[h1[y].sub[f]] + Wt(h1, y) + Gap({<<a, e>>}, y, f)
    BY <1>3 DEF Balanced
  <2>0. B[y] = B[h[y].sub[f]] + Wt(h, y) /\ Wt(h1, y) = Wt(h, y) /\ Wt(h, y) \in Nat /\ B1[y] = B[y]
        /\ h[y].sub[f] \in L \cup {NULL}
    BY <1>6, <1>4, <1>3, <1>0
  <2>1. CASE y = a /\ f = e
    <3>1. Gap({<<a, e>>}, y, f) = 1
      BY <2>1 DEF Gap
    <3>2. B[n] = B[m] + 1 /\ B[m] \in Nat
      <4>1. Wt(h, n) = 1
        BY DEF Wt
      <4> QED BY <4>1, <1>6, <1>1, <1>2
    <3>3. B1[h1[y].sub[f]] = B[m]
      BY <2>1, <1>1, <1>3
    <3>4. B[y] = B[n] + Wt(h, y)
      BY <2>0, <2>1, <1>5
    <3> QED BY <3>1, <3>2, <3>3, <3>4, <2>0
  <2>2. CASE ~(y = a /\ f = e)
    <3>1. Gap({<<a, e>>}, y, f) = 0
      BY <2>2 DEF Gap
    <3>2. h1[y].sub[f] = h[y].sub[f] /\ h[y].sub[f] \in L1 \cup {NULL}
      BY <2>0, <2>2, <1>1
    <3>3. B1[h1[y].sub[f]] = B[h[y].sub[f]] /\ B[h[y].sub[f]] \in Nat
      BY <3>2, <1>3, <1>2
    <3> QED BY <3>1, <3>3, <2>0
  <2> QED BY <2>1, <2>2
<1>8. RedFree(h1, L1, {m}, {m})
  <2> SUFFICES ASSUME NEW y \in L1, NEW f \in Dirs, IsRed(h1, y), IsRed(h1, h1[y].sub[f]), h1[y].sub[f] # m
               PROVE  FALSE
    BY DEF RedFree
  <2>1. ~(y = a /\ f = e)
    BY <1>1
  <2>2. h1[y].sub[f] = h[y].sub[f]
    BY <2>1, <1>1
  <2>3. IsRed(h, y) /\ IsRed(h, h[y].sub[f])
    BY <2>2, <1>4a, <1>0
  <2> QED BY <2>3 DEF Settled, RedFree
<1>9. IsRed(h1, RootOf(h1)) => Len(p) = 1
  <2> SUFFICES ASSUME IsRed(h1, RootOf(h1)), Len(p) # 1 PROVE FALSE
    OBVIOUS
  <2>1. a # ROOT
    <3>1. Len(p) \in 1 .. Len(p) /\ \A i \in 1 .. Len(p) : p[i].nd = ROOT => i = 1
      BY PathHeap
    <3> QED BY <3>1 DEF a
  <2>2. RootOf(h1) = RootOf(h)
    <3>1. ROOT \in Addr /\ RBT_LEFT \in Dirs
      BY <1>0 DEF Dirs
    <3> QED BY <2>1, <3>1 DEF RootOf, Linked, a
  <2>3. RootOf(h) \in L \cup {NULL}
    BY TreeSubs DEF RootOf
  <2> QED BY <2>2, <2>3, <1>4a DEF Settled
<1> QED BY <1>0, <1>1, <1>7, <1>8, <1>9 DEF Deleting, EndSlot, a, e, B1

(* A red node taken out has no child, and leaves a red-black tree. *)
LEMMA UnlinkRed ==
    ASSUME RbAssumption, NEW h \in Heap, NEW L, NEW T, Tree(h, L, T), NEW B, Settled(h, L, B),
           NEW p, GoodPath(SubOf(h), L, p), NEW n \in L, End(h, p) = n, h[n].color = "RED",
           NEW d \in Dirs, h[n].sub[Other(d)] = NULL, NEW m, h[n].sub[d] = m,
           NEW h1, Linked(h, h1, p[Len(p)].nd, p[Len(p)].dir, m), Unlinked(h, h1, L, p, n, m)
    PROVE  Settled(h1, L \ {n}, UnlinkedB(B, L, n))
<1> DEFINE a == p[Len(p)].nd
           e == p[Len(p)].dir
           L1 == L \ {n}
           B1 == UnlinkedB(B, L, n)
<1>0. /\ L \subseteq Addr /\ NULL \notin L /\ ROOT \notin L /\ ROOT \in Addr
      /\ h1 \in Heap /\ SameColors(h, h1)
      /\ \A y \in L, f \in Dirs : h[y].sub[f] \in L \cup {NULL}
      /\ \A y \in L : h[y].color \in {"RED", "BLACK"}
  BY TreeSubs DEF Linked
<1>1. /\ h1[a].sub[e] = m
      /\ m \in L1 \cup {NULL}
      /\ \A y \in L1, f \in Dirs : ~(y = a /\ f = e) => h1[y].sub[f] = h[y].sub[f] /\ h[y].sub[f] # n
  BY DEF Unlinked, End
<1>2. B \in [L \cup {NULL} -> Nat] /\ B[NULL] = 0
  BY DEF Settled, Balanced
<1>3. B1 \in [L1 \cup {NULL} -> Nat] /\ B1[NULL] = 0 /\ \A y \in L1 \cup {NULL} : B1[y] = B[y]
  BY <1>2 DEF UnlinkedB
<1>4. \A y \in L : Wt(h1, y) = Wt(h, y) /\ Wt(h, y) \in Nat
  BY <1>0 DEF Wt, SameColors
<1>4a. \A y \in L \cup {NULL} : IsRed(h1, y) = IsRed(h, y)
  BY <1>0 DEF IsRed, SameColors
<1>5. h[a].sub[e] = n
  BY DEF End
<1>6. \A y \in L, f \in Dirs : B[y] = B[h[y].sub[f]] + Wt(h, y)
  <2> SUFFICES ASSUME NEW y \in L, NEW f \in Dirs PROVE B[y] = B[h[y].sub[f]] + Wt(h, y)
    OBVIOUS
  <2>1. B[y] = B[h[y].sub[f]] + Wt(h, y) + Gap({}, y, f)
    BY DEF Settled, Balanced
  <2>2. Gap({}, y, f) = 0 /\ B[h[y].sub[f]] \in Nat
    BY <1>0, <1>2 DEF Gap
  <2> QED BY <2>1, <2>2, <1>4
<1> HIDE DEF a, e, B1
<1>7. m = NULL /\ B[n] = 0
  <2>1. B[n] = 0
    <3>1. Wt(h, n) = 0 /\ Other(d) \in Dirs
      BY DirFacts DEF Wt
    <3> QED BY <3>1, <1>6, <1>2
  <2>2. B[m] = 0
    <3>1. B[n] = B[m] + Wt(h, n) /\ B[m] \in Nat
      BY <1>6, <1>1, <1>2
    <3> QED BY <3>1, <2>1, <1>4
  <2>3. SUFFICES ASSUME m \in L PROVE FALSE
    BY <2>1, <1>1
  <2>4. ~IsRed(h, m)
    <3>1. IsRed(h, n)
      BY <1>0 DEF IsRed
    <3> QED BY <3>1 DEF Settled, RedFree
  <2>5. Wt(h, m) = 1
    BY <2>3, <2>4, <1>0 DEF IsRed, Wt
  <2>6. B[m] = B[h[m].sub[d]] + 1 /\ B[h[m].sub[d]] \in Nat
    BY <2>3, <2>5, <1>6, <1>0, <1>2
  <2> QED BY <2>2, <2>6
<1>8. Balanced(h1, L1, B1, {})
  <2> SUFFICES ASSUME NEW y \in L1, NEW f \in Dirs
               PROVE  B1[y] = B1[h1[y].sub[f]] + Wt(h1, y) + Gap({}, y, f)
    BY <1>3 DEF Balanced
  <2>0. B[y] = B[h[y].sub[f]] + Wt(h, y) /\ Wt(h1, y) = Wt(h, y) /\ Wt(h, y) \in Nat /\ B1[y] = B[y]
        /\ h[y].sub[f] \in L \cup {NULL} /\ Gap({}, y, f) = 0
    BY <1>6, <1>4, <1>3, <1>0 DEF Gap
  <2>1. CASE y = a /\ f = e
    <3>1. B1[h1[y].sub[f]] = 0
      BY <2>1, <1>1, <1>3, <1>7
    <3>2. B[y] = 0 + Wt(h, y)
      BY <2>0, <2>1, <1>5, <1>7
    <3> QED BY <3>1, <3>2, <2>0
  <2>2. CASE ~(y = a /\ f = e)
    <3>2. h1[y].sub[f] = h[y].sub[f] /\ h[y].sub[f] \in L1 \cup {NULL}
      BY <2>0, <2>2, <1>1
    <3>3. B1[h1[y].sub[f]] = B[h[y].sub[f]] /\ B[h[y].sub[f]] \in Nat
      BY <3>2, <1>3, <1>2
    <3> QED BY <3>3, <2>0
  <2> QED BY <2>1, <2>2
<1>9. RedFree(h1, L1, {}, {})
  <2> SUFFICES ASSUME NEW y \in L1, NEW f \in Dirs, IsRed(h1, y), IsRed(h1, h1[y].sub[f])
               PROVE  FALSE
    BY DEF RedFree
  <2>1. ~(y = a /\ f = e)
    BY <1>1, <1>7 DEF IsRed
  <2>2. h1[y].sub[f] = h[y].sub[f]
    BY <2>1, <1>1
  <2>3. IsRed(h, y) /\ IsRed(h, h[y].sub[f])
    BY <2>2, <1>4a, <1>0
  <2> QED BY <2>3 DEF Settled, RedFree
<1>10. ~IsRed(h1, RootOf(h1))
  <2>1. a # ROOT
    <3> SUFFICES ASSUME a = ROOT PROVE FALSE
      OBVIOUS
    <3>1. e = RBT_LEFT
      <4>1. Slot(L, a, e)
        BY PathHeap DEF a, e
      <4> QED BY <4>1, <1>0 DEF Slot
    <3>2. RootOf(h) = n
      BY <3>1, <1>5 DEF RootOf
    <3> QED BY <3>2, <1>0 DEF Settled, IsRed
  <2>2. RootOf(h1) = RootOf(h)
    <3>1. ROOT \in Addr /\ RBT_LEFT \in Dirs
      BY <1>0 DEF Dirs
    <3> QED BY <2>1, <3>1 DEF RootOf, Linked, a
  <2>3. RootOf(h) \in L \cup {NULL}
    BY TreeSubs DEF RootOf
  <2> QED BY <2>2, <2>3, <1>4a DEF Settled
<1> QED BY <1>8, <1>9, <1>10 DEF Settled, B1

-----------------------------------------------------------------------------
(* HXrbtree_del_mm: the successor takes the place of the node deleted.     *)

(* Node x in the place of n, names apart the same tree. *)
Sw(n, x, y) == IF y = n THEN x ELSE y
Un(n, x, y) == IF y = x THEN n ELSE y

(* h1 is h with the node x, of no tree, in the place and color of n. *)
Renamed(h, h1, L, n, x) ==
    /\ h1 \in Heap
    /\ \A y \in L, f \in Dirs : h1[Sw(n, x, y)].sub[f] = Sw(n, x, h[y].sub[f])
    /\ \A y \in L : h1[Sw(n, x, y)].color = h[y].color
    /\ RootOf(h1) = Sw(n, x, RootOf(h))

RenamedL(L, n, x) == (L \ {n}) \cup {x}

RenamedB(B, L, n, x) == [y \in (L \ {n}) \cup {x, NULL} |-> B[Un(n, x, y)]]

RenamedPath(p, n, x) == [i \in 1 .. Len(p) |-> Hop(Sw(n, x, p[i].nd), p[i].dir)]

(* A function on 1 .. n is a sequence. *)
LEMMA FcnIsSeq ==
    ASSUME NEW X, NEW n \in Nat, NEW f \in [1 .. n -> X] PROVE f \in Seq(X)
  OBVIOUS

(* Sw, writing x for n, and Un, its inverse. *)
LEMMA SwFacts ==
    ASSUME RbAssumption, NEW L, NULL \notin L, NEW n \in L, NEW x, x \notin L, x # NULL
    PROVE  /\ \A y \in L \cup {NULL} : Un(n, x, Sw(n, x, y)) = y
           /\ \A y \in L : Sw(n, x, y) \in RenamedL(L, n, x)
           /\ \A y \in RenamedL(L, n, x) : Un(n, x, y) \in L /\ Sw(n, x, Un(n, x, y)) = y
           /\ Sw(n, x, NULL) = NULL
           /\ \A y \in L \cup {NULL} : Sw(n, x, y) \in RenamedL(L, n, x) \cup {NULL}
           /\ \A y \in L \cup {NULL} : Sw(n, x, y) = NULL <=> y = NULL
           /\ \A y, z \in L \cup {NULL} : Sw(n, x, y) = Sw(n, x, z) => y = z
  BY DEF Sw, Un, RenamedL

(* Black heights do not depend on which address a node has. *)
LEMMA RenameBalance ==
    ASSUME RbAssumption, NEW h \in Heap, NEW L, NEW T, Tree(h, L, T),
           NEW n \in L, NEW x, x \notin L, x # NULL, NEW h1, Renamed(h, h1, L, n, x),
           NEW B, NEW S, NEW S1, Balanced(h, L, B, S),
           \A y \in L, f \in Dirs : <<y, f>> \in S <=> <<Sw(n, x, y), f>> \in S1
    PROVE  Balanced(h1, RenamedL(L, n, x), RenamedB(B, L, n, x), S1)
<1> DEFINE L1 == RenamedL(L, n, x)
           B1 == RenamedB(B, L, n, x)
<1>0. NULL \notin L /\ \A y \in L, f \in Dirs : h[y].sub[f] \in L \cup {NULL}
  BY TreeSubs
<1>1. B \in [L \cup {NULL} -> Nat] /\ B[NULL] = 0
  BY DEF Balanced
<1>2. B1 \in [L1 \cup {NULL} -> Nat] /\ B1[NULL] = 0 /\ \A y \in L \cup {NULL} : B1[Sw(n, x, y)] = B[y]
  <2>1. L1 \cup {NULL} = (L \ {n}) \cup {x, NULL}
    BY DEF RenamedL
  <2>2. \A y \in L1 \cup {NULL} : Un(n, x, y) \in L \cup {NULL} /\ B1[y] = B[Un(n, x, y)]
    BY <1>0, <2>1 DEF RenamedB, Un, RenamedL
  <2>3. B1 \in [L1 \cup {NULL} -> Nat]
    BY <2>1, <2>2, <1>1 DEF RenamedB
  <2>4. Un(n, x, NULL) = NULL
    BY DEF Un
  <2> QED BY <2>2, <2>3, <2>4, <1>0, <1>1, SwFacts
<1> HIDE DEF B1, L1
<1> SUFFICES ASSUME NEW y \in L1, NEW f \in Dirs
             PROVE  B1[y] = B1[h1[y].sub[f]] + Wt(h1, y) + Gap(S1, y, f)
  BY <1>2 DEF Balanced, B1, L1
<1>3. PICK z \in L : Sw(n, x, z) = y
  BY <1>0, SwFacts DEF L1
<1>4. B[z] = B[h[z].sub[f]] + Wt(h, z) + Gap(S, z, f)
  BY DEF Balanced
<1>5. h1[y].sub[f] = Sw(n, x, h[z].sub[f]) /\ h1[y].color = h[z].color
  BY <1>3 DEF Renamed
<1>6. Wt(h1, y) = Wt(h, z)
  BY <1>5 DEF Wt
<1>7. Gap(S1, y, f) = Gap(S, z, f)
  BY <1>3 DEF Gap
<1>8. B1[y] = B[z] /\ B1[h1[y].sub[f]] = B[h[z].sub[f]]
  BY <1>0, <1>2, <1>3, <1>5
<1> QED BY <1>4, <1>6, <1>7, <1>8

(* Neither do colors. *)
LEMMA RenameReds ==
    ASSUME RbAssumption, NEW h \in Heap, NEW L, NEW T, Tree(h, L, T),
           NEW n \in L, NEW x, x \notin L, x # NULL, NEW h1, Renamed(h, h1, L, n, x)
    PROVE  /\ \A y \in L \cup {NULL} : IsRed(h1, Sw(n, x, y)) = IsRed(h, y)
           /\ \A C \in SUBSET (L \cup {NULL}) :
                RedFree(h, L, C, C) =>
                RedFree(h1, RenamedL(L, n, x), {Sw(n, x, y) : y \in C}, {Sw(n, x, y) : y \in C})
<1>0. NULL \notin L /\ \A y \in L, f \in Dirs : h[y].sub[f] \in L \cup {NULL}
  BY TreeSubs
<1>1. \A y \in L \cup {NULL} : IsRed(h1, Sw(n, x, y)) = IsRed(h, y)
  BY <1>0, SwFacts DEF IsRed, Renamed
<1>2. ASSUME NEW C \in SUBSET (L \cup {NULL}), RedFree(h, L, C, C),
             NEW y \in RenamedL(L, n, x), NEW f \in Dirs, IsRed(h1, y), IsRed(h1, h1[y].sub[f])
      PROVE  y \in {Sw(n, x, z) : z \in C} \/ h1[y].sub[f] \in {Sw(n, x, z) : z \in C}
  <2>1. PICK z \in L : Sw(n, x, z) = y
    BY <1>0, SwFacts
  <2>2. h1[y].sub[f] = Sw(n, x, h[z].sub[f]) 
    BY <2>1 DEF Renamed
  <2>3. IsRed(h, z) /\ IsRed(h, h[z].sub[f])
    BY <1>0, <1>1, <1>2, <2>1, <2>2
  <2>4. z \in C \/ h[z].sub[f] \in C
    BY <1>2, <2>3 DEF RedFree
  <2> QED BY <2>1, <2>2, <2>4
<1> QED BY <1>1, <1>2 DEF RedFree

(* A red-black tree with one node replaced by another of the same color is *)
(* a red-black tree.                                                       *)
LEMMA RenameSettled ==
    ASSUME RbAssumption, NEW h \in Heap, NEW L, NEW T, Tree(h, L, T),
           NEW n \in L, NEW x, x \notin L, x # NULL, NEW h1, Renamed(h, h1, L, n, x),
           NEW B, Settled(h, L, B)
    PROVE  Settled(h1, RenamedL(L, n, x), RenamedB(B, L, n, x))
<1>1. Balanced(h1, RenamedL(L, n, x), RenamedB(B, L, n, x), {})
  <2>1. \A y \in L, f \in Dirs : <<y, f>> \in {} <=> <<Sw(n, x, y), f>> \in {}
    OBVIOUS
  <2> QED BY <2>1, RenameBalance DEF Settled
<1>2. RedFree(h1, RenamedL(L, n, x), {}, {})
  <2>1. {} \in SUBSET (L \cup {NULL}) /\ {Sw(n, x, y) : y \in {}} = {}
    OBVIOUS
  <2>2. RedFree(h1, RenamedL(L, n, x), {Sw(n, x, y) : y \in {}}, {Sw(n, x, y) : y \in {}})
    BY <2>1, RenameReds DEF Settled
  <2> QED BY <2>1, <2>2
<1>3. ~IsRed(h1, RootOf(h1))
  <2>1. RootOf(h) \in L \cup {NULL}
    BY TreeSubs DEF RootOf
  <2> QED BY <2>1, RenameReds DEF Renamed, Settled
<1> QED BY <1>1, <1>2, <1>3 DEF Settled

(* A path through a node becomes a path through the one that took its      *)
(* place.                                                                  *)
LEMMA RenamePath ==
    ASSUME RbAssumption, NEW h \in Heap, NEW L, NEW T, Tree(h, L, T),
           NEW n \in L, NEW x, x \notin L, x # NULL, x # ROOT, NEW h1, Renamed(h, h1, L, n, x),
           NEW p, GoodPath(SubOf(h), L, p), RenamedL(L, n, x) \subseteq Nodes
    PROVE  /\ GoodPath(SubOf(h1), RenamedL(L, n, x), RenamedPath(p, n, x))
           /\ Len(RenamedPath(p, n, x)) = Len(p)
           /\ EndSlot(RenamedPath(p, n, x)) = <<Sw(n, x, p[Len(p)].nd), p[Len(p)].dir>>
           /\ End(h1, RenamedPath(p, n, x)) = Sw(n, x, End(h, p))
<1> DEFINE r == RenamedPath(p, n, x)
           L1 == RenamedL(L, n, x)
<1>0. /\ NULL \notin L /\ ROOT \notin L /\ L \subseteq Addr /\ h1 \in Heap
      /\ \A y \in L, f \in Dirs : h[y].sub[f] \in L \cup {NULL}
  BY TreeSubs DEF Renamed
<1>1. /\ Len(p) \in Nat /\ Len(p) >= 1 /\ Len(p) \in 1 .. Len(p)
      /\ \A i \in 1 .. Len(p) : Slot(L, p[i].nd, p[i].dir) /\ p[i] = Hop(p[i].nd, p[i].dir) /\ p[i].dir \in Dirs
      /\ p[1] = Hop(ROOT, RBT_LEFT)
      /\ \A i \in 2 .. Len(p) : p[i].nd \in L
      /\ \A i \in 1 .. Len(p) - 1 : h[p[i].nd].sub[p[i].dir] = p[i + 1].nd
  BY PathHeap
<1>2. Len(r) = Len(p) /\ \A i \in 1 .. Len(p) : r[i].nd = Sw(n, x, p[i].nd) /\ r[i].dir = p[i].dir
      /\ r[i] = Hop(r[i].nd, r[i].dir)
  BY <1>1 DEF RenamedPath, Hop
<1>3. r \in Seq(Hops(L1 \cup {ROOT})) /\ r # <<>>
  <2>1. \A i \in 1 .. Len(p) : Hop(Sw(n, x, p[i].nd), p[i].dir) \in Hops(L1 \cup {ROOT})
    <3> SUFFICES ASSUME NEW i \in 1 .. Len(p) PROVE Hop(Sw(n, x, p[i].nd), p[i].dir) \in Hops(L1 \cup {ROOT})
      OBVIOUS
    <3>1. p[i].nd \in L \cup {ROOT} /\ p[i].dir \in Dirs
      BY <1>1 DEF Slot
    <3>2. Sw(n, x, p[i].nd) \in L1 \cup {ROOT}
      BY <3>1, <1>0 DEF Sw, RenamedL
    <3> QED BY <3>1, <3>2 DEF Hop, Hops
  <2>2. r \in [1 .. Len(p) -> Hops(L1 \cup {ROOT})]
    BY <2>1 DEF RenamedPath
  <2>3. r \in Seq(Hops(L1 \cup {ROOT}))
    <3> DEFINE X == Hops(L1 \cup {ROOT})
    <3>1. Len(p) \in Nat /\ r \in [1 .. Len(p) -> X]
      BY <2>2, <1>1
    <3> HIDE DEF X, r
    <3>2. r \in Seq(X)
      BY <3>1, FcnIsSeq, Zenon
    <3> QED BY <3>2 DEF X
  <2> QED BY <2>3, <1>1, <1>2
<1> HIDE DEF r
<1>4. r[1] = Hop(ROOT, RBT_LEFT)
  <2>1. 1 \in 1 .. Len(p)
    BY <1>1
  <2>2. p[1].nd = ROOT /\ p[1].dir = RBT_LEFT
    BY <1>1 DEF Hop
  <2> QED BY <2>1, <2>2, <1>2, <1>0 DEF Sw
<1>5. \A i \in 2 .. Len(r) : r[i].nd \in L1
  BY <1>0, <1>1, <1>2, SwFacts
<1>6. \A y, f : Slot(L, y, f) => h1[Sw(n, x, y)].sub[f] = Sw(n, x, h[y].sub[f])
  <2> SUFFICES ASSUME NEW y, NEW f, Slot(L, y, f) PROVE h1[Sw(n, x, y)].sub[f] = Sw(n, x, h[y].sub[f])
    OBVIOUS
  <2>1. CASE y \in L /\ f \in Dirs
    BY <2>1 DEF Renamed
  <2>2. CASE y = ROOT /\ f = RBT_LEFT
    <3>1. Sw(n, x, y) = ROOT
      BY <2>2, <1>0 DEF Sw
    <3> QED BY <3>1, <2>2 DEF Renamed, RootOf
  <2> QED BY <2>1, <2>2 DEF Slot
<1>7. \A i \in 1 .. Len(r) - 1 : SubOf(h1)[r[i].nd][r[i].dir] = r[i + 1].nd
  <2> SUFFICES ASSUME NEW i \in 1 .. Len(p) - 1 PROVE SubOf(h1)[r[i].nd][r[i].dir] = r[i + 1].nd
    BY <1>2
  <2>1. i \in 1 .. Len(p) /\ i + 1 \in 1 .. Len(p)
    BY <1>1
  <2>2. Slot(L, p[i].nd, p[i].dir)
    BY <2>1, <1>1
  <2>3. r[i].nd \in Addr
    <3>1. r[i].nd \in L1 \cup {ROOT}
      BY <2>1, <1>2, <2>2, <1>0 DEF Sw, RenamedL, Slot
    <3> QED BY <3>1 DEF Addr
  <2>4. SubOf(h1)[r[i].nd] = h1[r[i].nd].sub
    BY <2>3 DEF SubOf
  <2>5. h1[r[i].nd].sub[r[i].dir] = Sw(n, x, h[p[i].nd].sub[p[i].dir])
    BY <2>1, <2>2, <1>2, <1>6
  <2> QED BY <2>1, <2>4, <2>5, <1>1, <1>2
<1>8. GoodPath(SubOf(h1), L1, r)
  BY <1>3, <1>4, <1>5, <1>7 DEF GoodPath
<1>9. EndSlot(r) = <<Sw(n, x, p[Len(p)].nd), p[Len(p)].dir>>
  BY <1>1, <1>2 DEF EndSlot
<1>10. End(h1, r) = Sw(n, x, End(h, p))
  <2>1. Slot(L, p[Len(p)].nd, p[Len(p)].dir)
    BY <1>1
  <2>2. r[Len(r)].nd = Sw(n, x, p[Len(p)].nd) /\ r[Len(r)].dir = p[Len(p)].dir
    BY <1>1, <1>2
  <2> QED BY <2>1, <2>2, <1>6 DEF End
<1> QED BY <1>2, <1>8, <1>9, <1>10 DEF r

(* A tree in the middle of HXrbtree_dmov is one too after a node was       *)
(* replaced by another of the same color.                                  *)
LEMMA RenameDeleting ==
    ASSUME RbAssumption, NEW h, NEW L, NEW T, NEW B, NEW p, Deleting(h, L, T, B, p),
           NEW n \in L, NEW x, x \notin L, x # NULL, x # ROOT, NEW h1, Renamed(h, h1, L, n, x),
           NEW T1, Tree(h1, RenamedL(L, n, x), T1)
    PROVE  Deleting(h1, RenamedL(L, n, x), T1, RenamedB(B, L, n, x), RenamedPath(p, n, x))
<1> DEFINE r == RenamedPath(p, n, x)
           L1 == RenamedL(L, n, x)
           B1 == RenamedB(B, L, n, x)
<1>0. /\ h \in Heap /\ h1 \in Heap /\ Tree(h, L, T) /\ GoodPath(SubOf(h), L, p)
      /\ Balanced(h, L, B, {EndSlot(p)}) /\ RedFree(h, L, {End(h, p)}, {End(h, p)})
  BY DEF Deleting, Renamed
<1>1. L1 \subseteq Nodes
  BY <1>0, TreeSubs
<1>2. /\ GoodPath(SubOf(h1), L1, r) /\ Len(r) = Len(p)
      /\ EndSlot(r) = <<Sw(n, x, p[Len(p)].nd), p[Len(p)].dir>>
      /\ End(h1, r) = Sw(n, x, End(h, p))
  BY <1>0, <1>1, RenamePath
<1>3. Slot(L, p[Len(p)].nd, p[Len(p)].dir) /\ End(h, p) \in L \cup {NULL} /\ NULL \notin L /\ ROOT \notin L
  BY <1>0, PathHeap, TreeSubs
<1> HIDE DEF r, L1, B1
<1>4. Balanced(h1, L1, B1, {EndSlot(r)})
  <2> DEFINE S == {EndSlot(p)}
             S1 == {EndSlot(r)}
  <2>1. ASSUME NEW y \in L, NEW f \in Dirs
        PROVE  <<y, f>> \in S <=> <<Sw(n, x, y), f>> \in S1
    <3>1. <<y, f>> \in S <=> y = p[Len(p)].nd /\ f = p[Len(p)].dir
      BY DEF EndSlot
    <3>2. <<Sw(n, x, y), f>> \in S1 <=> Sw(n, x, y) = Sw(n, x, p[Len(p)].nd) /\ f = p[Len(p)].dir
      BY <1>2
    <3>3. p[Len(p)].nd \in L \cup {ROOT}
      BY <1>3 DEF Slot
    <3>4. Sw(n, x, y) = Sw(n, x, p[Len(p)].nd) <=> y = p[Len(p)].nd
      BY <3>3, <1>3 DEF Sw
    <3> QED BY <3>1, <3>2, <3>4
  <2>2. Balanced(h, L, B, S)
    BY <1>0
  <2> HIDE DEF S, S1
  <2>3. Balanced(h1, L1, B1, S1)
    BY <2>1, <2>2, <1>0, RenameBalance DEF L1, B1
  <2> QED BY <2>3 DEF S1
<1>5. RedFree(h1, L1, {End(h1, r)}, {End(h1, r)})
  <2>1. {End(h, p)} \in SUBSET (L \cup {NULL}) /\ {Sw(n, x, y) : y \in {End(h, p)}} = {End(h1, r)}
    BY <1>2, <1>3
  <2>2. RedFree(h1, L1, {Sw(n, x, y) : y \in {End(h, p)}}, {Sw(n, x, y) : y \in {End(h, p)}})
    BY <2>1, <1>0, RenameReds DEF L1
  <2> QED BY <2>1, <2>2
<1>6. IsRed(h1, RootOf(h1)) => Len(r) = 1
  <2>1. RootOf(h) \in L \cup {NULL}
    BY <1>0, TreeSubs DEF RootOf
  <2>2. IsRed(h1, RootOf(h1)) = IsRed(h, RootOf(h))
    BY <2>1, <1>0, RenameReds DEF Renamed
  <2> QED BY <2>2, <1>2 DEF Deleting
<1> QED BY <1>0, <1>2, <1>4, <1>5, <1>6 DEF Deleting, r, L1, B1

(* The heap after HXrbtree_del_mm: io in the place and color of n; b is    *)
(* the parent of io, which is n itself when io is its right child.         *)
Moved(h, h4, a, e, n, io, b, direct) ==
    /\ h4 \in Heap /\ SameEntries(h, h4)
    /\ h4[a].sub[e] = io
    /\ h4[io].sub[RBT_LEFT] = h[n].sub[RBT_LEFT]
    /\ h4[io].sub[RBT_RIGHT] = IF direct THEN h[io].sub[RBT_RIGHT] ELSE h[n].sub[RBT_RIGHT]
    /\ ~direct => h4[b].sub[RBT_LEFT] = h[io].sub[RBT_RIGHT]
    /\ \A y \in Addr, f \in Dirs :
         y # io /\ ~(y = a /\ f = e) /\ (~direct => ~(y = b /\ f = RBT_LEFT)) => h4[y].sub[f] = h[y].sub[f]
    /\ h4[io].color = h[n].color /\ h4[n].color = h[io].color
    /\ \A y \in Addr : y \notin {n, io} => h4[y].color = h[y].color

MovedSubs(h, h3, a, e, n, io, b, direct) ==
    /\ h3 \in Heap /\ SameEntries(h, h3) /\ SameColors(h, h3)
    /\ h3[a].sub[e] = io
    /\ h3[io].sub[RBT_LEFT] = h[n].sub[RBT_LEFT]
    /\ h3[io].sub[RBT_RIGHT] = IF direct THEN h[io].sub[RBT_RIGHT] ELSE h[n].sub[RBT_RIGHT]
    /\ ~direct => h3[b].sub[RBT_LEFT] = h[io].sub[RBT_RIGHT]
    /\ \A y \in Addr, f \in Dirs :
         y # io /\ ~(y = a /\ f = e) /\ (~direct => ~(y = b /\ f = RBT_LEFT)) => h3[y].sub[f] = h[y].sub[f]

MmSteps(h, h1, h2, ha, h3, a, e, n, io, b, direct) ==
    /\ Linked(h, h1, a, e, io)
    /\ IF direct THEN h2 = h1 ELSE Linked(h1, h2, b, RBT_LEFT, h[io].sub[RBT_RIGHT])
    /\ Linked(h2, ha, io, RBT_LEFT, h[n].sub[RBT_LEFT])
    /\ Linked(ha, h3, io, RBT_RIGHT, IF direct THEN h[io].sub[RBT_RIGHT] ELSE h[n].sub[RBT_RIGHT])

(* The pointers of HXrbtree_del_mm, assigned one after the other. *)
LEMMA MovedLinks ==
    ASSUME NEW h, NEW h1, NEW h2, NEW ha, NEW h3,
           NEW a \in Addr, NEW e \in Dirs, NEW n, NEW io \in Addr, NEW b \in Addr,
           NEW direct \in BOOLEAN, a # io, a # b, b # io,
           MmSteps(h, h1, h2, ha, h3, a, e, n, io, b, direct)
    PROVE  MovedSubs(h, h3, a, e, n, io, b, direct)
<1> DEFINE l == h[n].sub[RBT_LEFT]
           right == IF direct THEN h[io].sub[RBT_RIGHT] ELSE h[n].sub[RBT_RIGHT]
           c == h[io].sub[RBT_RIGHT]
           Old(y, f) == ~(y = a /\ f = e) /\ (~direct => ~(y = b /\ f = RBT_LEFT))
<1>0. RBT_LEFT \in Dirs /\ RBT_RIGHT \in Dirs /\ RBT_LEFT # RBT_RIGHT
  BY DEF Dirs, RBT_LEFT, RBT_RIGHT
<1>1. Linked(h2, ha, io, RBT_LEFT, l) /\ Linked(ha, h3, io, RBT_RIGHT, right)
  BY DEF MmSteps
<1>2. Linked(h, h1, a, e, io) /\ IF direct THEN h2 = h1 ELSE Linked(h1, h2, b, RBT_LEFT, c)
  BY DEF MmSteps
<1> HIDE DEF l, right, c
<1>3. SameEntries(h, h2) /\ SameColors(h, h2)
  BY <1>2 DEF Linked, SameEntries, SameColors
<1>4. h3 \in Heap /\ SameEntries(h2, h3) /\ SameColors(h2, h3)
  BY <1>1 DEF Linked, SameEntries, SameColors
<1>5. SameEntries(h, h3) /\ SameColors(h, h3)
  BY <1>3, <1>4 DEF SameEntries, SameColors
<1>6. \A y \in Addr, f \in Dirs : y # io => h3[y].sub[f] = h2[y].sub[f]
  BY <1>1 DEF Linked
<1>7. h3[io].sub[RBT_LEFT] = l /\ h3[io].sub[RBT_RIGHT] = right
  BY <1>0, <1>1 DEF Linked
<1>8. h2[a].sub[e] = io /\ (~direct => h2[b].sub[RBT_LEFT] = c)
  BY <1>2 DEF Linked
<1>9. \A y \in Addr, f \in Dirs : Old(y, f) => h2[y].sub[f] = h[y].sub[f]
  BY <1>2 DEF Linked
<1>10. h3[a].sub[e] = io /\ (~direct => h3[b].sub[RBT_LEFT] = c)
  BY <1>0, <1>6, <1>8
<1>11. \A y \in Addr, f \in Dirs : y # io /\ Old(y, f) => h3[y].sub[f] = h[y].sub[f]
  BY <1>6, <1>9
<1> QED BY <1>4, <1>5, <1>7, <1>10, <1>11, Zenon DEF MovedSubs, l, right, c

(* The pointers after the assignments of HXrbtree_del_mm. *)
LEMMA MoveSubs ==
    ASSUME NEW h \in Heap, NEW a \in Addr, NEW e \in Dirs, NEW n \in Nodes, NEW io \in Nodes, NEW b \in Addr,
           NEW direct \in BOOLEAN, a # io, a # b, b # io,
           NEW h1, h1 = Link(h, a, e, io),
           NEW h2, h2 = IF direct THEN h1 ELSE Link(h1, b, RBT_LEFT, h[io].sub[RBT_RIGHT]),
           NEW h3, h3 = Link(Link(h2, io, RBT_LEFT, h[n].sub[RBT_LEFT]), io, RBT_RIGHT,
                             IF direct THEN h[io].sub[RBT_RIGHT] ELSE h[n].sub[RBT_RIGHT])
    PROVE  MovedSubs(h, h3, a, e, n, io, b, direct)
<1> DEFINE l == h[n].sub[RBT_LEFT]
           r == h[n].sub[RBT_RIGHT]
           c == h[io].sub[RBT_RIGHT]
           right == IF direct THEN c ELSE r
           ha == Link(h2, io, RBT_LEFT, l)
<1>0. /\ RBT_LEFT \in Dirs /\ RBT_RIGHT \in Dirs /\ RBT_LEFT # RBT_RIGHT /\ io \in Addr /\ n \in Addr
      /\ \A f \in Dirs : f = RBT_LEFT \/ f = RBT_RIGHT
  BY DEF Dirs, RBT_LEFT, RBT_RIGHT, Addr
<1>1. l \in Nodes \cup {NULL} /\ r \in Nodes \cup {NULL} /\ c \in Nodes \cup {NULL} /\ right \in Nodes \cup {NULL}
  BY <1>0, HeapSubs
<1>2. Linked(h, h1, a, e, io)
  BY LinkIs
<1>3. h1 \in Heap
  BY <1>2 DEF Linked
<1> HIDE DEF l, r, c, right, ha
<1>4. IF direct THEN h2 = h1 ELSE Linked(h1, h2, b, RBT_LEFT, c)
  <2>1. CASE direct
    BY <2>1
  <2>2. CASE ~direct
    <3>1. h2 = Link(h1, b, RBT_LEFT, c)
      BY <2>2 DEF c
    <3>2. Linked(h1, Link(h1, b, RBT_LEFT, c), b, RBT_LEFT, c)
      BY <1>0, <1>1, <1>3, LinkIs
    <3> QED BY <2>2, <3>1, <3>2
  <2> QED BY <2>1, <2>2
<1>5. h2 \in Heap
  BY <1>3, <1>4 DEF Linked
<1>6. Linked(h2, ha, io, RBT_LEFT, l)
  BY <1>0, <1>1, <1>5, LinkIs DEF ha
<1>7. ha \in Heap
  BY <1>6 DEF Linked
<1>8. Linked(ha, h3, io, RBT_RIGHT, right)
  <2>1. h3 = Link(ha, io, RBT_RIGHT, right)
    BY DEF ha, right, l, r, c
  <2> QED BY <2>1, <1>0, <1>1, <1>7, LinkIs
<1>9. IF direct THEN h2 = h1 ELSE Linked(h1, h2, b, RBT_LEFT, h[io].sub[RBT_RIGHT])
  BY <1>4 DEF c
<1>10. Linked(h2, ha, io, RBT_LEFT, h[n].sub[RBT_LEFT])
  BY <1>6 DEF l
<1>11. Linked(ha, h3, io, RBT_RIGHT, IF direct THEN h[io].sub[RBT_RIGHT] ELSE h[n].sub[RBT_RIGHT])
  BY <1>8, Zenon DEF right, c, r
<1>12. MmSteps(h, h1, h2, ha, h3, a, e, n, io, b, direct)
  BY <1>2, <1>9, <1>10, <1>11, Zenon DEF MmSteps
<1> QED BY <1>0, <1>12, MovedLinks

(* With the exchange of colors they are the whole effect of                *)
(* HXrbtree_del_mm on the heap.                                            *)
LEMMA MoveIs ==
    ASSUME NEW h \in Heap, NEW a \in Addr, NEW e \in Dirs, NEW n \in Nodes, NEW io \in Nodes, NEW b \in Addr,
           NEW direct \in BOOLEAN, a # io, a # b, b # io, n # io,
           NEW h3, MovedSubs(h, h3, a, e, n, io, b, direct)
    PROVE  Moved(h, Paint(Paint(h3, io, h[n].color), n, h[io].color), a, e, n, io, b, direct)
<1> DEFINE ha == Paint(h3, io, h[n].color)
           h4 == Paint(ha, n, h[io].color)
<1>0. h3 \in Heap /\ io \in Addr /\ n \in Addr
  BY DEF MovedSubs, Addr
<1>1. h[n].color \in {"RED", "BLACK"} /\ h[io].color \in {"RED", "BLACK"}
  BY <1>0 DEF Heap, Node
<1>2. Painted(h3, ha, io, h[n].color)
  BY <1>0, <1>1, PaintIs
<1>3. ha \in Heap
  BY <1>2 DEF Painted
<1> HIDE DEF ha
<1>4. Painted(ha, h4, n, h[io].color)
  BY <1>0, <1>1, <1>3, PaintIs
<1> HIDE DEF h4
<1>5. h4 \in Heap /\ SameEntries(h, h4) /\ \A y \in Addr : h4[y].sub = h3[y].sub
  BY <1>2, <1>4 DEF MovedSubs, Painted, SameEntries
<1>6. /\ h4[io].color = h[n].color /\ h4[n].color = h[io].color
      /\ \A y \in Addr : y \notin {n, io} => h4[y].color = h[y].color
  BY <1>0, <1>2, <1>4 DEF Painted, MovedSubs, SameColors
<1> QED BY <1>0, <1>5, <1>6 DEF Moved, MovedSubs, ha, h4

(* Arithmetic on path lengths. *)
LEMMA MoreThanOne ==
    ASSUME NEW i \in Nat, i >= 1, i # 1
    PROVE  i >= 2 /\ i - 1 \in 1 .. i /\ i - 1 \in 1 .. i - 1 /\ i - 1 + 1 = i
  OBVIOUS

(* The front of a chain of hops. *)
LEMMA ChainFront ==
    ASSUME NEW s, NEW L, NEW m, NEW w, NEW z, Chain(s, L, m, w, z), Len(w) >= 2
    PROVE  /\ Chain(s, L, m, Front(w), w[Len(w)].nd) /\ Front(w) # <<>>
           /\ Len(Front(w)) = Len(w) - 1 /\ \A i \in 1 .. Len(w) - 1 : Front(w)[i] = w[i]
<1> DEFINE r == Front(w)
<1>0. w \in Seq(Hops(L)) /\ Len(w) \in Nat
  BY DEF Chain
<1>1. r \in Seq(Hops(L)) /\ Len(r) = Len(w) - 1 /\ \A i \in 1 .. Len(w) - 1 : r[i] = w[i]
  BY <1>0 DEF Front
<1> HIDE DEF r
<1>2. r # <<>>
  BY <1>1, <1>0
<1>3. r[1] = w[1] /\ w[1].nd = m
  <2>1. w # <<>>
    BY <1>0
  <2> QED BY <2>1, <1>0, <1>1 DEF Chain
<1>4. s[r[Len(r)].nd][r[Len(r)].dir] = w[Len(w)].nd
  <2>1. Len(w) - 1 \in 1 .. Len(w) - 1 /\ Len(w) - 1 + 1 = Len(w)
    BY <1>0
  <2>2. s[w[Len(w) - 1].nd][w[Len(w) - 1].dir] = w[Len(w) - 1 + 1].nd
    BY <2>1 DEF Chain
  <2>3. r[Len(r)] = w[Len(w) - 1]
    BY <2>1, <1>1
  <2> QED BY <2>1, <2>2, <2>3
<1>5. \A i \in 1 .. Len(r) - 1 : s[r[i].nd][r[i].dir] = r[i + 1].nd
  <2> SUFFICES ASSUME NEW i \in 1 .. Len(r) - 1 PROVE s[r[i].nd][r[i].dir] = r[i + 1].nd
    OBVIOUS
  <2>1. i \in 1 .. Len(w) - 1 /\ i + 1 \in 1 .. Len(w) - 1
    BY <1>0, <1>1
  <2> QED BY <2>1, <1>1 DEF Chain
<1> QED BY <1>1, <1>2, <1>3, <1>4, <1>5 DEF Chain, r

(* The way on from n, at the end of path p, to its inorder successor io    *)
(* along the spine w; the hop (b, g) leads to io.                          *)
Descent(h, L, T, p, n, w, io, b, g, r) ==
    /\ io \in L /\ b \in L /\ io # n /\ io # b /\ p[Len(p)].nd \notin {n, io, b} /\ g \in Dirs
    /\ h[io].sub[RBT_LEFT] = NULL
    /\ GoodPath(SubOf(h), L, r) /\ End(h, r) = io /\ r[Len(r)] = Hop(b, g)
    /\ IF Len(w) = 1 THEN b = n /\ g = RBT_RIGHT /\ h[n].sub[RBT_RIGHT] = io
                     ELSE b # n /\ g = RBT_LEFT /\ b = w[Len(w) - 1].nd
    /\ io \in T[n] /\ io \in T[h[n].sub[RBT_RIGHT]]
    /\ \A y \in T[h[n].sub[RBT_RIGHT]] : y = io \/ h[io].key < h[y].key

(* From the node to delete, one step right and then left as far as it goes *)
(* leads to its successor in key order, whose parent is in the path where  *)
(* HXrbtree_del_mm looks for it.                                           *)
LEMMA DescentIs ==
    ASSUME RbAssumption, NEW h \in Heap, NEW L, NEW T, Tree(h, L, T),
           NEW p, GoodPath(SubOf(h), L, p), NEW n \in L, End(h, p) = n,
           h[n].sub[RBT_RIGHT] \in L,
           NEW w, LeftSpine(KeyOf(h), SubOf(h), L, T, h[n].sub[RBT_RIGHT], w)
    PROVE  Descent(h, L, T, p, n, w, w[Len(w)].nd,
                   IF Len(w) = 1 THEN n ELSE w[Len(w) - 1].nd,
                   IF Len(w) = 1 THEN RBT_RIGHT ELSE RBT_LEFT,
                   p \o <<Hop(n, RBT_RIGHT)>> \o Front(w))
<1> DEFINE s == SubOf(h)
           c == h[n].sub[RBT_RIGHT]
           io == w[Len(w)].nd
           b == IF Len(w) = 1 THEN n ELSE w[Len(w) - 1].nd
           g == IF Len(w) = 1 THEN RBT_RIGHT ELSE RBT_LEFT
           v == <<Hop(n, RBT_RIGHT)>>
           p1 == p \o v
           r == p1 \o Front(w)
           a == p[Len(p)].nd
           e == p[Len(p)].dir
<1>0. /\ L \subseteq Addr /\ NULL \notin L /\ \A y \in Addr : s[y] = h[y].sub /\ KeyOf(h)[y] = h[y].key
      /\ Shape(KeyOf(h), s, L, T) /\ RBT_LEFT \in Dirs /\ RBT_RIGHT \in Dirs
  BY TreeSubs, HeapSubs DEF Tree, Dirs
<1>1. /\ w \in Seq(Hops(L)) /\ w # <<>> /\ Len(w) \in Nat /\ Len(w) >= 1 /\ Len(w) \in 1 .. Len(w)
      /\ \A i \in 1 .. Len(w) : w[i].dir = RBT_LEFT /\ w[i].nd \in T[c] /\ w[i].nd \in L
      /\ w[1].nd = c
      /\ Chain(s, L, c, w, NULL) /\ s[io][RBT_LEFT] = NULL
      /\ \A y \in T[c] : y = io \/ KeyOf(h)[io] < KeyOf(h)[y]
      /\ \A i \in 1 .. Len(w) - 1 : s[w[i].nd][RBT_LEFT] = w[i + 1].nd
  <2>1. w \in Seq(Hops(L)) /\ w # <<>> /\ Chain(s, L, c, w, NULL)
    BY DEF LeftSpine, Chain
  <2>2. Len(w) \in Nat /\ Len(w) >= 1 /\ Len(w) \in 1 .. Len(w)
    BY <2>1
  <2>3. \A i \in 1 .. Len(w) : w[i].dir = RBT_LEFT /\ w[i].nd \in T[c]
    BY DEF LeftSpine
  <2>4. \A i \in 1 .. Len(w) : w[i] \in Hops(L)
    BY <2>1
  <2>5. \A i \in 1 .. Len(w) : w[i].nd \in L
    BY <2>4 DEF Hops
  <2>6. w[1].nd = c /\ s[w[Len(w)].nd][w[Len(w)].dir] = NULL
    BY <2>1 DEF Chain
  <2>7. \A i \in 1 .. Len(w) - 1 : s[w[i].nd][RBT_LEFT] = w[i + 1].nd
    <3> SUFFICES ASSUME NEW i \in 1 .. Len(w) - 1 PROVE s[w[i].nd][RBT_LEFT] = w[i + 1].nd
      OBVIOUS
    <3>1. i \in 1 .. Len(w)
      BY <2>2
    <3> QED BY <3>1, <2>1, <2>3 DEF Chain
  <2>8. \A y \in T[c] : y = io \/ KeyOf(h)[io] < KeyOf(h)[y]
    BY DEF LeftSpine
  <2> QED BY <2>1, <2>2, <2>3, <2>5, <2>6, <2>7, <2>8
<1>1a. Len(w) \in Nat /\ Len(w) >= 1
  BY <1>1
<1>1b. Len(w) # 1 => /\ Len(w) >= 2 /\ Len(w) - 1 \in 1 .. Len(w)
                     /\ Len(w) - 1 \in 1 .. Len(w) - 1 /\ Len(w) - 1 + 1 = Len(w)
  BY <1>1a, MoreThanOne
<1>2. /\ Len(p) \in Nat /\ Len(p) >= 1 /\ Slot(L, a, e) /\ h[a].sub[e] = n /\ a \in Addr /\ e \in Dirs
  BY PathHeap, TreeSubs DEF End
<1>3. /\ T[n] = {n} \cup T[c] \cup T[h[n].sub[RBT_LEFT]] /\ n \notin T[c] /\ s[n][RBT_RIGHT] = c
      /\ T[c] \subseteq T[n]
  <2>1. n \in Addr /\ s[n] = h[n].sub /\ s[n][RBT_RIGHT] = c /\ s[n][RBT_LEFT] = h[n].sub[RBT_LEFT]
    BY <1>0
  <2>2. Other(RBT_RIGHT) = RBT_LEFT
    BY DEF Other, RBT_LEFT, RBT_RIGHT
  <2> HIDE DEF s, c
  <2> QED BY <2>1, <2>2, <1>0, SubtreeOf
<1> HIDE DEF c, s
<1>4. io \in L /\ io \in T[c] /\ io \in T[n] /\ io # n
  BY <1>1, <1>3
<1> HIDE DEF io
<1>5. b \in L /\ b \in T[n]
  <2>1. CASE Len(w) = 1
    BY <2>1, <1>3
  <2>2. CASE Len(w) # 1
    <3>1. Len(w) - 1 \in 1 .. Len(w)
      BY <1>1b, <2>2
    <3> QED BY <2>2, <3>1, <1>1, <1>3
  <2> QED BY <2>1, <2>2
<1>6. io # b
  <2>1. CASE Len(w) = 1
    BY <2>1, <1>4
  <2>2. CASE Len(w) # 1
    <3>1. Len(w) - 1 \in 1 .. Len(w) - 1 /\ Len(w) - 1 + 1 = Len(w)
      BY <1>1b, <2>2
    <3>2. s[w[Len(w) - 1].nd][RBT_LEFT] = w[Len(w) - 1 + 1].nd
      BY <3>1, <1>1
    <3>3. s[b][RBT_LEFT] = io
      BY <2>2, <3>1, <3>2 DEF io
    <3> QED BY <3>3, <1>0, <1>1, <1>4
  <2> QED BY <2>1, <2>2
<1>7. a \notin {n, io, b}
  <2>1. CASE a = ROOT
    <3>1. ROOT \notin L
      BY TreeSubs
    <3> QED BY <2>1, <3>1, <1>4, <1>5
  <2>2. CASE a \in L
    <3>1. a \notin T[n]
      <4>1. s[a][e] = n
        BY <1>0, <1>2
      <4> QED BY <4>1, <2>2, <1>0, <1>2, Child
    <3>2. n \in T[n]
      BY <1>3
    <3> QED BY <3>1, <3>2, <1>4, <1>5
  <2> QED BY <1>2, <2>1, <2>2 DEF Slot
<1>8. h[io].sub[RBT_LEFT] = NULL
  BY <1>0, <1>1, <1>4
<1>9. Joined(s, L, p, v, p1) /\ Len(v) = 1 /\ v[1] = Hop(n, RBT_RIGHT)
  <2>1. Hop(n, RBT_RIGHT) \in Hops(L)
    BY <1>0 DEF Hop, Hops
  <2>2. v \in Seq(Hops(L)) /\ Len(v) = 1 /\ v[1] = Hop(n, RBT_RIGHT) /\ v # <<>>
    BY <2>1
  <2>3. Hop(n, RBT_RIGHT).nd = n /\ Hop(n, RBT_RIGHT).dir = RBT_RIGHT
    BY DEF Hop
  <2> HIDE DEF v
  <2>4. Chain(s, L, n, v, c)
    <3>1. v[Len(v)].nd = n /\ v[Len(v)].dir = RBT_RIGHT
      BY <2>2, <2>3
    <3>2. \A i \in 1 .. Len(v) - 1 : FALSE
      BY <2>2
    <3> QED BY <2>2, <2>3, <3>1, <3>2, <1>3 DEF Chain
  <2>5. s[p[Len(p)].nd][p[Len(p)].dir] = n
    BY <1>0, <1>2
  <2> QED BY <2>2, <2>4, <2>5, PathJoin DEF s
<1> HIDE DEF v
<1>10. GoodPath(s, L, p1) /\ Len(p1) = Len(p) + 1 /\ p1[Len(p1)] = Hop(n, RBT_RIGHT) /\ p1 # <<>>
  BY <1>9 DEF Joined, GoodPath
<1> HIDE DEF p1
<1>11. GoodPath(s, L, r) /\ r[Len(r)] = Hop(b, g)
  <2>1. CASE Len(w) = 1
    <3>1. Front(w) = <<>>
      BY <2>1, <1>1 DEF Front
    <3>2. r = p1
      <4>1. p1 \in Seq(Hops(L \cup {ROOT}))
        BY <1>10 DEF GoodPath
      <4>2. p1 \o <<>> = p1
        BY <4>1
      <4> QED BY <3>1, <4>2
    <3> QED BY <2>1, <3>2, <1>10
  <2>2. CASE Len(w) # 1
    <3>1. Len(w) >= 2
      BY <1>1b, <2>2
    <3>2. /\ Chain(s, L, c, Front(w), io) /\ Front(w) # <<>>
          /\ Len(Front(w)) = Len(w) - 1 /\ \A i \in 1 .. Len(w) - 1 : Front(w)[i] = w[i]
      BY <3>1, <1>1, ChainFront DEF io
    <3>3. s[p1[Len(p1)].nd][p1[Len(p1)].dir] = c
      BY <1>3, <1>10 DEF Hop
    <3> DEFINE u == Front(w)
    <3> HIDE DEF u
    <3>4. Joined(s, L, p1, u, p1 \o u)
      BY <3>2, <3>3, <1>10, PathJoin DEF u
    <3>5. r[Len(r)] = w[Len(w) - 1]
      <4>1. Len(w) - 1 \in 1 .. Len(w) - 1
        BY <1>1b, <2>2
      <4>2. u[Len(u)] = w[Len(w) - 1]
        BY <4>1, <3>2 DEF u
      <4> QED BY <3>4, <4>2 DEF Joined, u
    <3>6. Len(w) - 1 \in 1 .. Len(w)
      BY <1>1b, <2>2
    <3>7. w[Len(w) - 1] \in Hops(L) /\ w[Len(w) - 1].dir = RBT_LEFT
      BY <3>6, <1>1
    <3>8. w[Len(w) - 1] = Hop(w[Len(w) - 1].nd, RBT_LEFT)
      BY <3>7 DEF Hops, Hop
    <3> QED BY <2>2, <3>4, <3>5, <3>8 DEF Joined, u
  <2> QED BY <2>1, <2>2
<1> HIDE DEF r
<1>12. s[b][g] = io /\ g \in Dirs
  <2>1. CASE Len(w) = 1
    BY <2>1, <1>1, <1>3, <1>0 DEF io
  <2>2. CASE Len(w) # 1
    <3>1. Len(w) - 1 \in 1 .. Len(w) - 1 /\ Len(w) - 1 + 1 = Len(w)
      BY <1>1b, <2>2
    <3>2. s[w[Len(w) - 1].nd][RBT_LEFT] = w[Len(w) - 1 + 1].nd
      BY <3>1, <1>1
    <3> QED BY <2>2, <3>1, <3>2, <1>0 DEF io
  <2> QED BY <2>1, <2>2
<1>13. End(h, r) = io
  <2>1. r[Len(r)].nd = b /\ r[Len(r)].dir = g
    BY <1>11 DEF Hop
  <2>2. h[b].sub[g] = io
    BY <1>0, <1>5, <1>12
  <2> HIDE DEF b, g
  <2> QED BY <2>1, <2>2 DEF End
<1>14. IF Len(w) = 1 THEN b = n /\ g = RBT_RIGHT /\ h[n].sub[RBT_RIGHT] = io
                     ELSE b # n /\ g = RBT_LEFT /\ b = w[Len(w) - 1].nd
  <2>1. CASE Len(w) = 1
    BY <2>1, <1>1 DEF io, c
  <2>2. CASE Len(w) # 1
    <3>1. Len(w) - 1 \in 1 .. Len(w)
      BY <1>1b, <2>2
    <3> QED BY <2>2, <3>1, <1>1, <1>3
  <2> QED BY <2>1, <2>2
<1>15. \A y \in T[c] : y = io \/ h[io].key < h[y].key
  <2>1. T[c] \subseteq Addr
    BY <1>0, <1>3, SubtreeOf
  <2> QED BY <2>1, <1>0, <1>1, <1>4
<1> HIDE DEF b, g
<1>16. Descent(h, L, T, p, n, w, io, b, g, r)
  BY <1>4, <1>5, <1>6, <1>7, <1>8, <1>11, <1>12, <1>13, <1>14, <1>15 DEF Descent, c, s
<1> QED BY <1>16 DEF io, b, g, r, p1, v

(* HXrbtree_del_mm in two steps: io is taken out, then put in the place of *)
(* n.                                                                      *)
LEMMA MmUnlink ==
    ASSUME RbAssumption, NEW h \in Heap, NEW L, NEW T, Tree(h, L, T), Clean(h, L),
           NEW p, NEW n \in L, NEW w, NEW io, NEW b, NEW g, NEW r, Descent(h, L, T, p, n, w, io, b, g, r),
           NEW m, h[io].sub[RBT_RIGHT] = m, NEW hm, Linked(h, hm, b, g, m)
    PROVE  /\ Tree(hm, L \ {io}, RemovedT(T, L, io)) /\ Unlinked(h, hm, L, r, io, m)
           /\ Linked(h, hm, r[Len(r)].nd, r[Len(r)].dir, m)
<1>1. r[Len(r)].nd = b /\ r[Len(r)].dir = g
  BY DEF Descent, Hop
<1>2. Linked(h, hm, r[Len(r)].nd, r[Len(r)].dir, m)
  BY <1>1
<1>3. RBT_RIGHT \in Dirs /\ h[io].sub[Other(RBT_RIGHT)] = NULL /\ io \in L /\ End(h, r) = io
      /\ GoodPath(SubOf(h), L, r)
  BY DEF Descent, Other, RBT_LEFT, RBT_RIGHT, Dirs
<1> QED BY <1>2, <1>3, UnlinkTree

(* Where the pointers lead after both steps, in terms of the first. *)
MmSubs(h, hm, h4, L, a, e, n, io) ==
    /\ hm \in Heap /\ h4 \in Heap /\ SameEntries(h, hm) /\ SameEntries(h, h4)
    /\ hm[a].sub[e] = n /\ h4[a].sub[e] = io
    /\ \A f \in Dirs : h4[io].sub[f] = hm[n].sub[f]
    /\ \A y \in Addr, f \in Dirs : y # io /\ y # n /\ ~(y = a /\ f = e) => h4[y].sub[f] = hm[y].sub[f]
    /\ h4[io].color = hm[n].color
    /\ \A y \in Addr : y \notin {n, io} => h4[y].color = hm[y].color
    /\ \A f \in Dirs : h4[n].sub[f] = h[n].sub[f]

(* The pointers after HXrbtree_del_mm are those of a tree from which the   *)
(* successor was unlinked, with the successor in the place of the node     *)
(* deleted.                                                                *)
LEMMA MmSubsIs ==
    ASSUME RbAssumption, NEW h \in Heap, NEW L, NEW T, Tree(h, L, T),
           NEW p, GoodPath(SubOf(h), L, p), NEW n \in L, End(h, p) = n,
           NEW w, NEW io, NEW b, NEW g, NEW r, Descent(h, L, T, p, n, w, io, b, g, r),
           NEW m, h[io].sub[RBT_RIGHT] = m, NEW hm, Linked(h, hm, b, g, m),
           NEW h4, Moved(h, h4, p[Len(p)].nd, p[Len(p)].dir, n, io, b, Len(w) = 1)
    PROVE  MmSubs(h, hm, h4, L, p[Len(p)].nd, p[Len(p)].dir, n, io)
<1> DEFINE a == p[Len(p)].nd
           e == p[Len(p)].dir
<1>0. /\ L \subseteq Addr /\ RBT_LEFT \in Dirs /\ RBT_RIGHT \in Dirs /\ RBT_LEFT # RBT_RIGHT
      /\ \A f \in Dirs : f = RBT_LEFT \/ f = RBT_RIGHT
  BY TreeSubs DEF Dirs, RBT_LEFT, RBT_RIGHT
<1>1. Slot(L, a, e) /\ h[a].sub[e] = n /\ a \in Addr /\ e \in Dirs
  BY PathHeap, TreeSubs DEF End
<1>2. /\ io \in L /\ b \in L /\ io # n /\ io # b /\ a \notin {n, io, b} /\ g \in Dirs
      /\ IF Len(w) = 1 THEN b = n /\ g = RBT_RIGHT /\ h[n].sub[RBT_RIGHT] = io
                       ELSE b # n /\ g = RBT_LEFT
  BY DEF Descent
<1>3. /\ hm \in Heap /\ SameEntries(h, hm) /\ SameColors(h, hm) /\ hm[b].sub[g] = m
      /\ \A y \in Addr, f \in Dirs : ~(y = b /\ f = g) => hm[y].sub[f] = h[y].sub[f]
  BY DEF Linked
<1>4. /\ h4 \in Heap /\ SameEntries(h, h4)
      /\ h4[a].sub[e] = io
      /\ h4[io].sub[RBT_LEFT] = h[n].sub[RBT_LEFT]
      /\ h4[io].sub[RBT_RIGHT] = IF Len(w) = 1 THEN h[io].sub[RBT_RIGHT] ELSE h[n].sub[RBT_RIGHT]
      /\ Len(w) # 1 => h4[b].sub[RBT_LEFT] = h[io].sub[RBT_RIGHT]
      /\ \A y \in Addr, f \in Dirs :
           y # io /\ ~(y = a /\ f = e) /\ (Len(w) # 1 => ~(y = b /\ f = RBT_LEFT)) => h4[y].sub[f] = h[y].sub[f]
      /\ h4[io].color = h[n].color
      /\ \A y \in Addr : y \notin {n, io} => h4[y].color = h[y].color
  BY DEF Moved
<1> HIDE DEF a, e
<1>5. hm[a].sub[e] = n
  BY <1>1, <1>2, <1>3
<1>6. \A f \in Dirs : h4[io].sub[f] = hm[n].sub[f]
  <2>1. n \in Addr
    BY <1>0
  <2>2. h4[io].sub[RBT_LEFT] = hm[n].sub[RBT_LEFT]
    <3>1. ~(n = b /\ RBT_LEFT = g)
      BY <1>0, <1>2
    <3> QED BY <3>1, <2>1, <1>0, <1>3, <1>4
  <2>3. h4[io].sub[RBT_RIGHT] = hm[n].sub[RBT_RIGHT]
    <3>1. CASE Len(w) = 1
      BY <3>1, <1>2, <1>3, <1>4
    <3>2. CASE Len(w) # 1
      BY <3>2, <2>1, <1>0, <1>2, <1>3, <1>4
    <3> QED BY <3>1, <3>2
  <2> QED BY <2>2, <2>3, <1>0
<1>7. ASSUME NEW y \in Addr, NEW f \in Dirs, y # io, y # n, ~(y = a /\ f = e)
      PROVE  h4[y].sub[f] = hm[y].sub[f]
  <2>1. CASE y = b /\ f = g
    <3>1. Len(w) # 1
      BY <2>1, <1>2, <1>7
    <3> QED BY <2>1, <3>1, <1>2, <1>3, <1>4
  <2>2. CASE ~(y = b /\ f = g)
    <3>1. hm[y].sub[f] = h[y].sub[f]
      BY <2>2, <1>3
    <3>2. Len(w) # 1 => ~(y = b /\ f = RBT_LEFT)
      BY <2>2, <1>2
    <3> QED BY <3>1, <3>2, <1>4, <1>7
  <2> QED BY <2>1, <2>2
<1>8. h4[io].color = hm[n].color /\ \A y \in Addr : y \notin {n, io} => h4[y].color = hm[y].color
  BY <1>0, <1>3, <1>4 DEF SameColors
<1>9. \A f \in Dirs : h4[n].sub[f] = h[n].sub[f]
  <2> SUFFICES ASSUME NEW f \in Dirs PROVE h4[n].sub[f] = h[n].sub[f]
    OBVIOUS
  <2>1. n \in Addr /\ n # io /\ n # a /\ (Len(w) # 1 => n # b)
    BY <1>0, <1>2
  <2> QED BY <2>1, <1>4
<1> QED BY <1>3, <1>4, <1>5, <1>6, <1>7, <1>8, <1>9 DEF MmSubs, a, e

(* So the heap is that of the tree without the successor, the deleted node *)
(* being called by the successor's address.                                *)
LEMMA MmRenamed ==
    ASSUME RbAssumption, NEW h, NEW hm, NEW L1, NEW T1, Tree(hm, L1, T1), NEW L,
           NEW n \in L1, NEW io \in Nodes, io \notin L1, NEW a, NEW e, Slot(L1, a, e), NEW h4,
           MmSubs(h, hm, h4, L, a, e, n, io)
    PROVE  Renamed(hm, h4, L1, n, io) /\ Replaced(SubOf(hm), SubOf(h4), a, e, n, io)
<1>0. /\ hm \in Heap /\ h4 \in Heap /\ hm[a].sub[e] = n
      /\ \A y \in Addr, f \in Dirs : y # io /\ y # n /\ ~(y = a /\ f = e) => h4[y].sub[f] = hm[y].sub[f]
      /\ \A f \in Dirs : h4[io].sub[f] = hm[n].sub[f]
      /\ h4[a].sub[e] = io
  BY DEF MmSubs
<1>1. /\ L1 \subseteq Addr /\ NULL \notin L1 /\ ROOT \notin L1 /\ ROOT \in Addr /\ a \in Addr /\ e \in Dirs
      /\ \A x, f, y, d : Slot(L1, x, f) /\ Slot(L1, y, d) /\ hm[x].sub[f] = hm[y].sub[d]
                         /\ hm[x].sub[f] # NULL => x = y /\ f = d
      /\ n # NULL /\ io \in Addr /\ io # ROOT /\ RBT_LEFT \in Dirs /\ n # ROOT
  BY <1>0, TreeSubs DEF Addr, RbAssumption, Dirs
<1>2. a # n /\ \A f \in Dirs : hm[n].sub[f] # n
  BY <1>0, TreeChild
<1>2a. a # io
  BY <1>1 DEF Slot
<1>3. ASSUME NEW y, NEW f, Slot(L1, y, f)
      PROVE  h4[Sw(n, io, y)].sub[f] = Sw(n, io, hm[y].sub[f])
  <2>0. y \in L1 \cup {ROOT} /\ f \in Dirs /\ y \in Addr /\ y # io
    BY <1>1, <1>3 DEF Slot
  <2>1. CASE y = n
    <3>1. Sw(n, io, y) = io /\ Sw(n, io, hm[y].sub[f]) = hm[n].sub[f]
      BY <2>0, <2>1, <1>2 DEF Sw
    <3> QED BY <2>0, <3>1, <1>0
  <2>2. CASE y = a /\ f = e
    <3>1. Sw(n, io, y) = a /\ Sw(n, io, hm[y].sub[f]) = io
      BY <2>2, <1>0, <1>2 DEF Sw
    <3> QED BY <2>2, <3>1, <1>0
  <2>3. CASE y # n /\ ~(y = a /\ f = e)
    <3>1. hm[y].sub[f] # n
      BY <2>3, <1>0, <1>1, <1>3
    <3>2. Sw(n, io, y) = y /\ Sw(n, io, hm[y].sub[f]) = hm[y].sub[f]
      BY <2>3, <3>1 DEF Sw
    <3> QED BY <2>0, <2>3, <3>2, <1>0
  <2> QED BY <2>1, <2>2, <2>3
<1>4. \A y \in L1, f \in Dirs : h4[Sw(n, io, y)].sub[f] = Sw(n, io, hm[y].sub[f])
  BY <1>3 DEF Slot
<1>5. RootOf(h4) = Sw(n, io, RootOf(hm))
  <2>1. h4[Sw(n, io, ROOT)].sub[RBT_LEFT] = Sw(n, io, hm[ROOT].sub[RBT_LEFT])
    BY <1>3 DEF Slot
  <2>2. Sw(n, io, ROOT) = ROOT
    BY <1>1 DEF Sw
  <2> QED BY <2>1, <2>2 DEF RootOf
<1>6. \A y \in L1 : h4[Sw(n, io, y)].color = hm[y].color
  <2> SUFFICES ASSUME NEW y \in L1 PROVE h4[Sw(n, io, y)].color = hm[y].color
    OBVIOUS
  <2>1. y \in Addr /\ y # io
    BY <1>1
  <2> QED BY <2>1 DEF Sw, MmSubs
<1>7. Replaced(SubOf(hm), SubOf(h4), a, e, n, io)
  <2>1. SubOf(h4) \in Subs /\ \A y \in Addr : SubOf(h4)[y] = h4[y].sub /\ SubOf(hm)[y] = hm[y].sub
    BY <1>0, HeapSubs
  <2>2. n \in Addr
    BY <1>1
  <2> QED BY <2>1, <2>2, <1>0, <1>1 DEF Replaced
<1> QED BY <1>0, <1>4, <1>5, <1>6, <1>7 DEF Renamed

MmLess(L, T, io, L1, T1) == L1 = L \ {io} /\ T1 = RemovedT(T, L, io)

(* HXrbtree_del_mm leaves a search tree without the node deleted. *)
LEMMA MmTree ==
    ASSUME RbAssumption, NEW h \in Heap, NEW L, NEW T, Tree(h, L, T), Clean(h, L),
           NEW p, GoodPath(SubOf(h), L, p), NEW n \in L, End(h, p) = n,
           NEW w, NEW io, NEW b, NEW g, NEW r, Descent(h, L, T, p, n, w, io, b, g, r),
           NEW m, h[io].sub[RBT_RIGHT] = m, NEW hm, Linked(h, hm, b, g, m),
           NEW h4, MmSubs(h, hm, h4, L, p[Len(p)].nd, p[Len(p)].dir, n, io),
           NEW L1, NEW T1, MmLess(L, T, io, L1, T1), Tree(hm, L1, T1)
    PROVE  /\ Tree(h4, RenamedL(L1, n, io), ReplacedT(T1, L1, n, io))
           /\ Renamed(hm, h4, L1, n, io) /\ n \in L1
<1> DEFINE a == p[Len(p)].nd
           e == p[Len(p)].dir
           k == KeyOf(hm)
           s == SubOf(hm)
           c == h[n].sub[RBT_RIGHT]
<1>00. L1 = L \ {io} /\ T1 = RemovedT(T, L, io)
  BY DEF MmLess
<1> USE <1>00
<1>0. /\ L \subseteq Nodes /\ L \subseteq Addr /\ NULL \notin L /\ RBT_LEFT \in Dirs /\ RBT_RIGHT \in Dirs
      /\ \A f \in Dirs : f = RBT_LEFT \/ f = RBT_RIGHT
      /\ RBT_LEFT # RBT_RIGHT
      /\ Shape(KeyOf(h), SubOf(h), L, T) /\ IsFiniteSet(L)
      /\ \A y \in Addr : SubOf(h)[y] = h[y].sub /\ KeyOf(h)[y] = h[y].key
  BY TreeSubs, HeapSubs DEF Dirs, RBT_LEFT, RBT_RIGHT, Tree
<1>1. Slot(L, a, e) /\ h[a].sub[e] = n /\ a \in Addr /\ e \in Dirs
  BY PathHeap, TreeSubs DEF End
<1>2. /\ io \in L /\ b \in L /\ io # n /\ io # b /\ a \notin {n, io, b} /\ g \in Dirs
      /\ h[b].sub[g] = io
      /\ io \in T[n] /\ io \in T[c]
      /\ \A y \in T[c] : y = io \/ h[io].key < h[y].key
      /\ b = n => g = RBT_RIGHT
  BY DEF Descent, End, Hop
<1>3. /\ hm \in Heap /\ h4 \in Heap /\ SameEntries(h, hm) /\ SameEntries(h, h4)
      /\ hm[a].sub[e] = n /\ h4[a].sub[e] = io
      /\ \A f \in Dirs : h4[n].sub[f] = h[n].sub[f]
      /\ \A y \in Addr, f \in Dirs : y # io /\ y # n /\ ~(y = a /\ f = e) => h4[y].sub[f] = hm[y].sub[f]
      /\ \A y \in Addr, f \in Dirs : ~(y = b /\ f = g) => hm[y].sub[f] = h[y].sub[f]
      /\ hm[b].sub[g] = m
  BY DEF MmSubs, Linked
<1> HIDE DEF a, e, c
<1>4. KeyOf(hm) = KeyOf(h) /\ KeyOf(h4) = KeyOf(h)
  BY <1>3 DEF KeyOf, SameEntries
<1>5. Slot(L1, a, e) /\ n \in L1 /\ io \notin L1 /\ io \in Nodes
  BY <1>0, <1>1, <1>2 DEF Slot
<1>6. Renamed(hm, h4, L1, n, io) /\ Replaced(SubOf(hm), SubOf(h4), a, e, n, io)
  BY <1>5, MmRenamed DEF a, e
<1>7. Shape(k, s, L1, T1) /\ \A y \in Addr : s[y] = hm[y].sub
  BY <1>3, HeapSubs DEF Tree
<1>8. \A y \in L1 \cup {NULL} : T1[y] = T[y] \ {io}
  BY DEF RemovedT
<1>9. T[n] = {n} \cup T[h[n].sub[RBT_LEFT]] \cup T[c] /\ T[n] \subseteq L
  BY <1>0, SubtreeOf DEF c, Shape, Subtrees
<1>10. k[io] \in Int /\ \A y \in L : k[y] \in Int
  BY <1>0, <1>2, <1>4 DEF Shape
<1>11. m \in L1 \cup {NULL} /\ T[m] \subseteq T[io] /\ n \notin T[m]
  <2>1. SubOf(h)[io][RBT_RIGHT] = m
    BY <1>0, <1>2
  <2>2. m \in L \cup {NULL} /\ T[m] \subseteq T[io] /\ io \notin T[m]
    BY <2>1, <1>0, <1>2, SubtreeOf
  <2>3. m # io
    <3>1. m \in L => m \in T[m]
      BY <1>0, SubtreeOf
    <3> QED BY <3>1, <2>2, <1>2
  <2>4. n \notin T[io]
    BY <1>0, <1>2, Antisymmetric
  <2> QED BY <2>2, <2>3, <2>4
<1>12. ASSUME NEW f \in Dirs, NEW y \in T1[s[n][f]] PROVE Side(k, f, y, io)
  <2>0. n \in Addr /\ s[n][f] = hm[n].sub[f]
    BY <1>0, <1>7
  <2>1. s[n][f] \in L1 \cup {NULL}
    BY <1>5, <1>7 DEF Shape
  <2>2. y \in T[hm[n].sub[f]] /\ y # io
    BY <2>0, <2>1, <1>8, <1>12
  <2>3. CASE f = RBT_LEFT
    <3>1. hm[n].sub[f] = h[n].sub[RBT_LEFT]
      <4>1. ~(n = b /\ f = g)
        BY <2>3, <1>0, <1>2
      <4> QED BY <4>1, <2>0, <2>3, <1>3
    <3>2. Side(KeyOf(h), RBT_LEFT, y, n)
      BY <2>2, <3>1, <1>0 DEF Shape, Ordered
    <3>3. Side(KeyOf(h), RBT_RIGHT, io, n)
      BY <1>0, <1>2 DEF Shape, Ordered, c
    <3>4. y \in L
      BY <2>2, <3>1, <1>9
    <3> QED BY <2>3, <3>2, <3>3, <3>4, <1>0, <1>2, <1>4, <1>10 DEF Side
  <2>4. CASE f = RBT_RIGHT
    <3>1. y \in T[c]
      <4>1. CASE n = b
        <5>1. hm[n].sub[f] = m /\ c = io
          BY <4>1, <2>4, <1>2, <1>3 DEF c
        <5> QED BY <5>1, <2>2, <1>11
      <4>2. CASE n # b
        <5>1. hm[n].sub[f] = c
          BY <4>2, <2>0, <2>4, <1>3, <1>0 DEF c
        <5> QED BY <5>1, <2>2
      <4> QED BY <4>1, <4>2
    <3>2. h[io].key < h[y].key
      BY <3>1, <2>2, <1>2
    <3>3. y \in L
      BY <3>1, <1>9
    <3> QED BY <2>4, <3>2, <3>3, <1>0, <1>2, <1>4, <1>10 DEF Side
  <2> QED BY <2>3, <2>4, <1>0
<1>13. ASSUME NEW y \in L1, NEW f \in Dirs, n \in T1[s[y][f]] PROVE Side(k, f, io, y)
  <2>0. y \in L /\ y \in Addr /\ s[y][f] = hm[y].sub[f] /\ s[y][f] \in L1 \cup {NULL}
    BY <1>0, <1>7 DEF Shape
  <2>1. n \in T[hm[y].sub[f]]
    BY <2>0, <1>8, <1>13
  <2>2. ~(y = b /\ f = g)
    BY <2>1, <1>3, <1>11
  <2>3. hm[y].sub[f] = h[y].sub[f]
    BY <2>0, <2>2, <1>3
  <2>4. h[y].sub[f] \in L
    BY <2>0, <2>1, <2>3, <1>0 DEF Shape, Subtrees
  <2>5. T[n] \subseteq T[h[y].sub[f]]
    BY <2>1, <2>3, <2>4, <1>0 DEF Shape, Nested
  <2>6. io \in T[SubOf(h)[y][f]]
    BY <2>0, <2>5, <1>0, <1>2
  <2> QED BY <2>0, <2>6, <1>0, <1>4 DEF Shape, Ordered
<1>14. Shape(k, SubOf(h4), RenamedL(L1, n, io), ReplacedT(T1, L1, n, io))
  <2>1. s[a][e] = n
    BY <1>1, <1>3, <1>7
  <2> HIDE DEF k, s
  <2>2. Shape(k, SubOf(h4), (L1 \ {n}) \cup {io}, ReplacedT(T1, L1, n, io))
    BY <2>1, <1>5, <1>6, <1>7, <1>10, <1>12, <1>13, ReplaceShape DEF s
  <2> QED BY <2>2 DEF RenamedL
<1>15. Outside(SubOf(h4), RenamedL(L1, n, io))
  <2>0. RenamedL(L1, n, io) = L \ {n}
    BY <1>2 DEF RenamedL
  <2> SUFFICES ASSUME NEW y \in Nodes \ (L \ {n}), NEW f \in Dirs
               PROVE  SubOf(h4)[y][f] \in (L \ {n}) \cup {NULL}
    BY <2>0 DEF Outside
  <2>1. y \in Addr /\ SubOf(h4)[y] = h4[y].sub
    BY <1>3, HeapSubs DEF Addr
  <2>2. CASE y = n
    <3>1. h[n].sub[f] \in L \cup {NULL} /\ h[n].sub[f] # n
      BY <1>1, TreeSubs, TreeChild
    <3> QED BY <2>1, <2>2, <3>1, <1>3
  <2>3. CASE y \notin L
    <3>1. y # io /\ y # n /\ y # b
      BY <2>3, <1>2
    <3>2. y # a
      BY <2>3, <1>1 DEF Slot, RbAssumption
    <3>3. h4[y].sub[f] = h[y].sub[f]
      BY <2>1, <3>1, <3>2, <1>3
    <3>4. h[y].sub[f] = NULL
      BY <2>3 DEF Clean
    <3> QED BY <2>1, <3>3, <3>4
  <2> QED BY <2>2, <2>3
<1>16. IsFiniteSet(RenamedL(L1, n, io))
  <2>1. RenamedL(L1, n, io) \subseteq L
    BY <1>2 DEF RenamedL
  <2> QED BY <2>1, <1>0, FS_Subset
<1>17. Tree(h4, RenamedL(L1, n, io), ReplacedT(T1, L1, n, io))
  BY <1>14, <1>15, <1>16, <1>4 DEF Tree
<1> QED BY <1>5, <1>6, <1>17

(* The elements of p \o <<x>> \o q. *)
LEMMA ThreeParts ==
    ASSUME NEW X, NEW p \in Seq(X), NEW x \in X, NEW q \in Seq(X)
    PROVE  /\ Len(p) \in Nat /\ Len(q) \in Nat
           /\ p \o <<x>> \o q \in Seq(X) /\ Len(p \o <<x>> \o q) = Len(p) + 1 + Len(q)
           /\ \A i \in 1 .. Len(p) : (p \o <<x>> \o q)[i] = p[i]
           /\ (p \o <<x>> \o q)[Len(p) + 1] = x
           /\ \A i \in 1 .. Len(q) : (p \o <<x>> \o q)[Len(p) + 1 + i] = q[i]
<1> DEFINE u == p \o <<x>>
<1>0. Len(p) \in Nat /\ Len(q) \in Nat
  OBVIOUS
<1>1. u \in Seq(X) /\ Len(u) = Len(p) + 1 /\ u[Len(p) + 1] = x /\ \A i \in 1 .. Len(p) : u[i] = p[i]
  OBVIOUS
<1> HIDE DEF u
<1>2. u \o q \in Seq(X) /\ Len(u \o q) = Len(u) + Len(q)
  BY <1>1
<1>3. \A i \in 1 .. Len(u) : (u \o q)[i] = u[i]
  BY <1>1
<1>4. \A i \in 1 .. Len(q) : (u \o q)[Len(u) + i] = q[i]
  BY <1>0, <1>1
<1>5. \A i \in 1 .. Len(p) : i \in 1 .. Len(u)
  BY <1>0, <1>1
<1>6. Len(p) + 1 \in 1 .. Len(u)
  BY <1>0, <1>1
<1> QED BY <1>0, <1>1, <1>2, <1>3, <1>4, <1>5, <1>6 DEF u

(* The indices of p \o <<x>> \o q. *)
LEMMA SumCases ==
    ASSUME NEW i \in Nat, NEW a \in Nat, NEW b \in Nat, i \in 1 .. a + 1 + b
    PROVE  i \in 1 .. a \/ i = a + 1 \/ \E j \in 1 .. b : i = a + 1 + j
<1>1. CASE i <= a + 1
  BY <1>1
<1>2. CASE i > a + 1
  <2>1. i - (a + 1) \in 1 .. b /\ i = a + 1 + (i - (a + 1))
    BY <1>2
  <2> QED BY <2>1
<1> QED BY <1>1, <1>2

Avoids(p, n) == \A i \in 1 .. Len(p) : p[i].nd # n

Route(p, n, d, q, r) == r = p \o <<Hop(n, d)>> \o q

(* The path HXrbtree_del_mm hands on is the path to the successor, with    *)
(* the successor's address for that of the node deleted.                   *)
LEMMA RenamedPathIs ==
    ASSUME NEW X, NEW p \in Seq(Hops(X)), NEW q \in Seq(Hops(X)), NEW n \in X, NEW x \in X, NEW d \in Dirs,
           Avoids(p, n), Avoids(q, n), NEW r, NEW t, Route(p, n, d, q, r), Route(p, x, d, q, t)
    PROVE  RenamedPath(r, n, x) = t
<1>1. Hop(n, d) \in Hops(X) /\ Hop(x, d) \in Hops(X) /\ Hop(n, d).nd = n /\ Hop(n, d).dir = d
  BY DEF Hop, Hops
<1>2. /\ Len(p) \in Nat /\ Len(q) \in Nat
      /\ r \in Seq(Hops(X)) /\ Len(r) = Len(p) + 1 + Len(q)
      /\ \A i \in 1 .. Len(p) : r[i] = p[i]
      /\ r[Len(p) + 1] = Hop(n, d)
      /\ \A i \in 1 .. Len(q) : r[Len(p) + 1 + i] = q[i]
  BY <1>1, ThreeParts DEF Route
<1>3. /\ t \in Seq(Hops(X)) /\ Len(t) = Len(p) + 1 + Len(q)
      /\ \A i \in 1 .. Len(p) : t[i] = p[i]
      /\ t[Len(p) + 1] = Hop(x, d)
      /\ \A i \in 1 .. Len(q) : t[Len(p) + 1 + i] = q[i]
  BY <1>1, ThreeParts DEF Route
<1>4. ASSUME NEW i \in 1 .. Len(r) PROVE t[i] = Hop(Sw(n, x, r[i].nd), r[i].dir)
  <2>0. i \in Nat /\ (i \in 1 .. Len(p) \/ i = Len(p) + 1 \/ \E j \in 1 .. Len(q) : i = Len(p) + 1 + j)
    <3>1. i \in Nat /\ i \in 1 .. Len(p) + 1 + Len(q)
      BY <1>2
    <3> QED BY <3>1, <1>2, SumCases
  <2>1. CASE i \in 1 .. Len(p)
    <3>1. p[i] \in Hops(X)
      BY <2>1
    <3>2. p[i] = Hop(p[i].nd, p[i].dir) /\ p[i].nd # n
      BY <2>1, <3>1 DEF Hops, Hop, Avoids
    <3> QED BY <2>1, <3>2, <1>2, <1>3 DEF Sw
  <2>2. CASE i = Len(p) + 1
    BY <2>2, <1>1, <1>2, <1>3 DEF Sw
  <2>3. ASSUME NEW j \in 1 .. Len(q), i = Len(p) + 1 + j PROVE t[i] = Hop(Sw(n, x, r[i].nd), r[i].dir)
    <3>1. q[j] \in Hops(X)
      OBVIOUS
    <3>2. q[j] = Hop(q[j].nd, q[j].dir) /\ q[j].nd # n
      BY <3>1 DEF Hops, Hop, Avoids
    <3> QED BY <2>3, <3>2, <1>2, <1>3 DEF Sw
  <2> QED BY <2>0, <2>1, <2>2, <2>3
<1>5. t = [i \in 1 .. Len(r) |-> t[i]]
  BY <1>2, <1>3
<1>6. [i \in 1 .. Len(r) |-> t[i]] = [i \in 1 .. Len(r) |-> Hop(Sw(n, x, r[i].nd), r[i].dir)]
  BY <1>4
<1> QED BY <1>5, <1>6 DEF RenamedPath

(* Nodes outside the tree are left alone. *)
Frame(h, h1, L) == \A y \in Nodes \ L : h1[y] = h[y]

(* Link changes no other node. *)
LEMMA LinkFrame ==
    ASSUME NEW h \in Heap, NEW n, NEW y \in Addr, y # n, NEW d, NEW m
    PROVE  Link(h, n, d, m)[y] = h[y]
<1>1. h = [a \in Addr |-> h[a]]
  BY DEF Heap
<1> QED BY <1>1 DEF Link

(* Paint changes no other node. *)
LEMMA PaintFrame ==
    ASSUME NEW h \in Heap, NEW n, NEW y \in Addr, y # n, NEW c
    PROVE  Paint(h, n, c)[y] = h[y]
<1>1. h = [a \in Addr |-> h[a]]
  BY DEF Heap
<1> QED BY <1>1 DEF Paint

(* What is left after HXrbtree_del has taken n out. *)
TakenOut(h, h1, L, n, p) ==
    /\ h1 \in Heap /\ SameEntries(h, h1) /\ Frame(h, h1, L)
    /\ GoodPath(SubOf(h1), L \ {n}, p)
    /\ IF h1[n].color = "BLACK" THEN \E T, B : Deleting(h1, L \ {n}, T, B, p)
                                ELSE (\E T : Tree(h1, L \ {n}, T)) /\ \E B : Settled(h1, L \ {n}, B)

(* Deleting a node with at most one child leaves a red-black tree, or one  *)
(* that lacks a black node at the end of the path.                         *)
LEMMA TakeOutOne ==
    ASSUME RbAssumption, NEW h \in Heap, NEW L, NEW T, Tree(h, L, T), Clean(h, L), NEW B, Settled(h, L, B),
           NEW p, GoodPath(SubOf(h), L, p), NEW n \in L, End(h, p) = n,
           NEW d \in Dirs, h[n].sub[Other(d)] = NULL, NEW m, h[n].sub[d] = m
    PROVE  TakenOut(h, Link(h, p[Len(p)].nd, p[Len(p)].dir, m), L, n, p)
<1> DEFINE a == p[Len(p)].nd
           e == p[Len(p)].dir
           h1 == Link(h, a, e, m)
<1>1. a \in Addr /\ e \in Dirs /\ m \in Nodes \cup {NULL} /\ n \in Addr /\ Slot(L, a, e)
  <2>1. Slot(L, a, e)
    BY PathHeap
  <2> QED BY <2>1, TreeSubs
<1>2. Linked(h, h1, a, e, m)
  BY <1>1, LinkIs
<1>3. Frame(h, h1, L)
  <2> SUFFICES ASSUME NEW y \in Nodes \ L PROVE h1[y] = h[y]
    BY DEF Frame
  <2>1. y # a /\ y \in Addr
    BY <1>1 DEF Slot, RbAssumption, Addr
  <2> HIDE DEF a, e
  <2> QED BY <2>1, LinkFrame
<1> HIDE DEF h1
<1>4. Tree(h1, L \ {n}, RemovedT(T, L, n)) /\ Unlinked(h, h1, L, p, n, m)
  BY <1>2, UnlinkTree
<1>5. h1[n].color = h[n].color /\ h1 \in Heap /\ SameEntries(h, h1) /\ h[n].color \in {"RED", "BLACK"}
  BY <1>1, <1>2, TreeSubs DEF Linked, SameColors
<1>5a. GoodPath(SubOf(h1), L \ {n}, p)
  BY <1>4 DEF Unlinked
<1>6. CASE h[n].color = "BLACK"
  <2>1. Deleting(h1, L \ {n}, RemovedT(T, L, n), UnlinkedB(B, L, n), p)
    BY <1>2, <1>4, <1>6, UnlinkBlack
  <2> QED BY <2>1, <1>3, <1>5, <1>5a, <1>6 DEF TakenOut, h1
<1>7. CASE h[n].color = "RED"
  <2>1. Settled(h1, L \ {n}, UnlinkedB(B, L, n))
    BY <1>2, <1>4, <1>7, UnlinkRed
  <2> QED BY <2>1, <1>3, <1>4, <1>5, <1>5a, <1>7 DEF TakenOut, h1
<1> QED BY <1>5, <1>6, <1>7

(* So does deleting a node with two children by way of its successor. *)
LEMMA TakeOutTwo ==
    ASSUME RbAssumption, NEW h \in Heap, NEW L, NEW T, Tree(h, L, T), Clean(h, L), NEW B, Settled(h, L, B),
           NEW p, GoodPath(SubOf(h), L, p), NEW n \in L, End(h, p) = n,
           NEW w, NEW io, NEW b, NEW g, NEW r, Descent(h, L, T, p, n, w, io, b, g, r),
           NEW h4, Moved(h, h4, p[Len(p)].nd, p[Len(p)].dir, n, io, b, Len(w) = 1), Frame(h, h4, L)
    PROVE  TakenOut(h, h4, L, n, RenamedPath(r, n, io))
<1> DEFINE m == h[io].sub[RBT_RIGHT]
           hm == Link(h, b, g, m)
           L1 == L \ {io}
           T1 == RemovedT(T, L, io)
           L2 == RenamedL(L1, n, io)
           T2 == ReplacedT(T1, L1, n, io)
<1>0. io \in L /\ b \in L /\ g \in Dirs /\ GoodPath(SubOf(h), L, r) /\ End(h, r) = io /\ io # n
      /\ h[io].sub[RBT_LEFT] = NULL
  BY DEF Descent
<1>1. b \in Addr /\ io \in Addr /\ io \in Nodes /\ n \in Addr /\ m \in Nodes \cup {NULL} /\ io # NULL /\ io # ROOT
      /\ RBT_RIGHT \in Dirs
  <2>1. RBT_RIGHT \in Dirs
    BY DEF Dirs
  <2> QED BY <2>1, <1>0, TreeSubs
<1>2. Linked(h, hm, b, g, m)
  BY <1>0, <1>1, LinkIs
<1> HIDE DEF hm
<1>3. Tree(hm, L1, T1) /\ Unlinked(h, hm, L, r, io, m) /\ Linked(h, hm, r[Len(r)].nd, r[Len(r)].dir, m)
  BY <1>2, MmUnlink
<1>4. MmSubs(h, hm, h4, L, p[Len(p)].nd, p[Len(p)].dir, n, io)
  BY <1>2, MmSubsIs
<1> HIDE DEF m, L1, T1
<1>5. Tree(h4, L2, T2) /\ Renamed(hm, h4, L1, n, io) /\ n \in L1
  <2>1. MmLess(L, T, io, L1, T1) /\ h[io].sub[RBT_RIGHT] = m
    BY DEF L1, T1, m, MmLess
  <2> QED BY ZenonT(30), <2>1, <1>2, <1>3, <1>4, MmTree DEF L2, T2
<1>6. L2 = L \ {n} /\ io \notin L1
  BY <1>0 DEF RenamedL, L1
<1> HIDE DEF L2, T2
<1>7. h4[n].color = h[io].color /\ h4 \in Heap /\ SameEntries(h, h4) /\ h[io].color \in {"RED", "BLACK"}
      /\ hm \in Heap
  BY <1>1, <1>2, TreeSubs DEF Moved, Linked
<1>7a. Other(RBT_RIGHT) = RBT_LEFT
  BY DEF Other, RBT_LEFT, RBT_RIGHT
<1>7b. GoodPath(SubOf(h4), L2, RenamedPath(r, n, io))
  <2>1. GoodPath(SubOf(hm), L1, r)
    BY <1>3 DEF Unlinked, L1
  <2>2. RenamedL(L1, n, io) \subseteq Nodes
    BY <1>5, <1>7, TreeSubs DEF L2
  <2> QED BY <2>1, <2>2, <1>1, <1>3, <1>5, <1>6, <1>7, RenamePath DEF L2
<1>8. CASE h[io].color = "BLACK"
  <2>1. Deleting(hm, L1, T1, UnlinkedB(B, L, io), r)
    BY <1>0, <1>1, <1>3, <1>8, UnlinkBlack DEF m, L1
  <2>2. Deleting(h4, L2, T2, RenamedB(UnlinkedB(B, L, io), L1, n, io), RenamedPath(r, n, io))
    BY <2>1, <1>1, <1>5, <1>6, RenameDeleting DEF L2
  <2> QED BY <2>2, <1>6, <1>7, <1>7b, <1>8 DEF TakenOut
<1>9. CASE h[io].color = "RED"
  <2>1. Settled(hm, L1, UnlinkedB(B, L, io))
    BY <1>0, <1>1, <1>3, <1>9, <1>7a, UnlinkRed DEF m, L1
  <2>2. Settled(h4, L2, RenamedB(UnlinkedB(B, L, io), L1, n, io))
    BY <2>1, <1>1, <1>3, <1>5, <1>6, <1>7, RenameSettled DEF L2
  <2> QED BY <2>2, <1>5, <1>6, <1>7, <1>7b, <1>9 DEF TakenOut
<1> QED BY <1>7, <1>8, <1>9

-----------------------------------------------------------------------------
(* HXrbtree_add: linking a node.                                           *)

(* h1 is h with the new red node n at the end of the path p. *)
Grown(h, h1, a, e, n, kk) ==
    /\ h1 \in Heap
    /\ \A y \in Addr : y # n => h1[y].key = h[y].key /\ h1[y].data = h[y].data /\ h1[y].color = h[y].color
    /\ h1[n].key = kk /\ h1[n].color = "RED" /\ \A f \in Dirs : h1[n].sub[f] = NULL
    /\ h1[a].sub[e] = n
    /\ \A y \in Addr, f \in Dirs : y # n /\ ~(y = a /\ f = e) => h1[y].sub[f] = h[y].sub[f]

Sprouted(h, h1, a, e, n, kk, v) ==
    /\ Grown(h, h1, a, e, n, kk) /\ h1[n].data = v
    /\ \A y \in Addr : y \notin {a, n} => h1[y] = h[y]

(* HXrbtree_add fills in one node and assigns one pointer. *)
LEMMA GrowIs ==
    ASSUME RbAssumption, NEW h \in Heap, NEW a \in Addr, NEW e \in Dirs, NEW n \in Nodes, a # n,
           NEW kk \in Keys, NEW v \in Data
    PROVE  Sprouted(h, Link([h EXCEPT ![n] = NewNode(kk, v)], a, e, n), a, e, n, kk, v)
<1> DEFINE x == NewNode(kk, v)
           g == [h EXCEPT ![n] = x]
           h1 == Link(g, a, e, n)
<1>0. n \in Addr
  BY DEF Addr
<1>1. x \in Node /\ x.key = kk /\ x.data = v /\ x.color = "RED" /\ \A f \in Dirs : x.sub[f] = NULL
  BY DEF NewNode, Node, Dirs
<1> HIDE DEF x
<1>2. g \in Heap /\ g[n] = x /\ \A y \in Addr : y # n => g[y] = h[y]
  BY <1>0, <1>1 DEF Heap
<1> HIDE DEF g
<1>3. Linked(g, h1, a, e, n)
  BY <1>2, LinkIs
<1>4. \A y \in Addr : y \notin {a, n} => h1[y] = h[y]
  BY <1>2, LinkFrame
<1> HIDE DEF h1
<1>5. /\ h1 \in Heap
      /\ \A y \in Addr : h1[y].key = g[y].key /\ h1[y].data = g[y].data /\ h1[y].color = g[y].color
      /\ h1[a].sub[e] = n
      /\ \A y \in Addr, f \in Dirs : ~(y = a /\ f = e) => h1[y].sub[f] = g[y].sub[f]
  BY <1>3 DEF Linked, SameEntries, SameColors
<1>6. Grown(h, h1, a, e, n, kk)
  BY <1>0, <1>1, <1>2, <1>5 DEF Grown
<1>7. h1[n].data = v
  BY <1>0, <1>1, <1>2, <1>5
<1> QED BY <1>4, <1>6, <1>7 DEF Sprouted, h1, g, x

GrownB(B, L, n) == [y \in L \cup {n, NULL} |-> IF y = n THEN 0 ELSE B[y]]

(* The new node is linked where its key belongs: the tree is a search tree *)
(* with one node more.                                                     *)
LEMMA GrowTree ==
    ASSUME RbAssumption, NEW h \in Heap, NEW L, NEW T, Tree(h, L, T), Clean(h, L),
           NEW kk \in Int, NEW p, Found(h, L, kk, p, NULL), NEW n \in Nodes, n \notin L,
           NEW h1, Grown(h, h1, p[Len(p)].nd, p[Len(p)].dir, n, kk)
    PROVE  Tree(h1, L \cup {n}, InsertedT(T, L, p[Len(p)].nd, n))
<1> DEFINE a == p[Len(p)].nd
           e == p[Len(p)].dir
           s == SubOf(h)
           s1 == SubOf(h1)
           k == KeyOf(h)
           k1 == KeyOf(h1)
<1>0. /\ L \subseteq Nodes /\ L \subseteq Addr /\ NULL \notin L /\ ROOT \notin L /\ IsFiniteSet(L) /\ Shape(k, s, L, T)
      /\ n \in Addr /\ n # NULL /\ n # ROOT
  BY TreeSubs DEF Tree, Addr, RbAssumption
<1>1. /\ h1 \in Heap
      /\ \A y \in Addr : s[y] = h[y].sub /\ s1[y] = h1[y].sub /\ k[y] = h[y].key /\ k1[y] = h1[y].key
      /\ s1 \in Subs
  BY HeapSubs DEF Grown
<1>2. GoodPath(s, L, p) /\ h[a].sub[e] = NULL
      /\ \A i \in 2 .. Len(p) : IF p[i].dir = RBT_LEFT THEN kk < h[p[i].nd].key ELSE kk > h[p[i].nd].key
  BY DEF Found
<1>3. /\ Len(p) \in Nat /\ Len(p) >= 1 /\ Len(p) \in 1 .. Len(p)
      /\ \A i \in 1 .. Len(p) : p[i].nd = ROOT <=> i = 1
      /\ Slot(L, a, e)
      /\ p[1].nd = ROOT
      /\ \A i \in 1 .. Len(p) : p[i].dir \in Dirs
  <2>1. p[1].nd = ROOT
    BY <1>2, PathHeap DEF Hop
  <2> QED BY <2>1, <1>2, PathHeap
<1>4. a \in Addr /\ e \in Dirs /\ a # n
  BY <1>0, <1>3, TreeSubs DEF Slot
<1> HIDE DEF a, e, s, s1, k, k1
<1>5. Inserted(s, s1, a, e, n)
  BY <1>0, <1>1, <1>4 DEF Grown, Inserted, a, e
<1>6. \A y \in L : k1[y] = k[y]
  BY <1>0, <1>1 DEF Grown
<1>6a. k1[n] = kk /\ \A y \in L : k[y] \in Int /\ k[y] = h[y].key
  BY <1>0, <1>1 DEF Grown, Shape
<1>7. ASSUME NEW i \in 1 .. Len(p), p[i].nd \in L PROVE Side(k1, p[i].dir, n, p[i].nd)
  <2>1. i \in 2 .. Len(p)
    BY <1>0, <1>3, <1>7
  <2>2. IF p[i].dir = RBT_LEFT THEN kk < k1[p[i].nd] ELSE kk > k1[p[i].nd]
    BY <2>1, <1>2, <1>6, <1>6a, <1>7
  <2>3. k1[p[i].nd] \in Int
    BY <1>6, <1>6a, <1>7
  <2> QED BY <2>2, <2>3, <1>6a DEF Side
<1>8. a \in L => Side(k1, e, n, a)
  BY <1>3, <1>7 DEF a, e
<1>9. \A m \in L, f \in Dirs : a \in T[s[m][f]] => Side(k1, f, n, m)
  <2> SUFFICES ASSUME NEW m \in L, NEW f \in Dirs, a \in T[s[m][f]] PROVE Side(k1, f, n, m)
    OBVIOUS
  <2>1. \E i \in 1 .. Len(p) - 1 : p[i].nd = m /\ p[i].dir = f
    BY <1>0, <1>2, <1>3, PathAncestors DEF a
  <2>2. PICK i \in 1 .. Len(p) - 1 : p[i].nd = m /\ p[i].dir = f
    BY <2>1
  <2>3. i \in 1 .. Len(p)
    BY <1>3
  <2> QED BY <2>2, <2>3, <1>7
<1>10. s[a][e] = NULL
  BY <1>1, <1>2, <1>4
<1>11. Shape(k1, s1, L \cup {n}, InsertedT(T, L, a, n))
  BY <1>0, <1>3, <1>5, <1>6, <1>6a, <1>8, <1>9, <1>10, InsertShape
<1>12. Outside(s1, L \cup {n})
  <2> SUFFICES ASSUME NEW y \in Nodes \ (L \cup {n}), NEW f \in Dirs PROVE s1[y][f] = NULL
    BY DEF Outside
  <2>1. y \in Addr /\ y # a /\ y # n
    BY <1>3 DEF Slot, RbAssumption, Addr
  <2>2. h1[y].sub[f] = h[y].sub[f]
    BY <2>1 DEF Grown, a
  <2>3. h[y].sub[f] = NULL
    BY DEF Clean
  <2> QED BY <2>1, <2>2, <2>3, <1>1
<1>13. IsFiniteSet(L \cup {n})
  BY <1>0, FS_AddElement
<1> QED BY <1>11, <1>12, <1>13 DEF Tree, a, k1, s1

(* The new node is red and changes no black height, so that HXrbtree_amov  *)
(* begins as it expects to.                                                *)
LEMMA GrowIsAdding ==
    ASSUME RbAssumption, NEW h \in Heap, NEW L, NEW T, Tree(h, L, T), NEW B, Settled(h, L, B),
           NEW kk \in Int, NEW p, Found(h, L, kk, p, NULL), NEW n \in Nodes, n \notin L,
           NEW h1, Grown(h, h1, p[Len(p)].nd, p[Len(p)].dir, n, kk), NEW T1, Tree(h1, L \cup {n}, T1)
    PROVE  Adding(h1, L \cup {n}, T1, GrownB(B, L, n), p)
<1> DEFINE a == p[Len(p)].nd
           e == p[Len(p)].dir
           L1 == L \cup {n}
           B1 == GrownB(B, L, n)
<1>0. /\ L \subseteq Addr /\ NULL \notin L /\ ROOT \notin L /\ ROOT \in Addr /\ n \in Addr /\ n # NULL /\ n # ROOT
      /\ \A y \in L, f \in Dirs : h[y].sub[f] \in L \cup {NULL}
      /\ RootOf(h) \in L \cup {NULL}
      /\ RBT_LEFT \in Dirs
  BY TreeSubs DEF Addr, RbAssumption, RootOf, Dirs
<1>1. GoodPath(SubOf(h), L, p) /\ h[a].sub[e] = NULL
  BY DEF Found
<1>2. /\ Len(p) \in Nat /\ Len(p) >= 1 /\ Len(p) \in 1 .. Len(p)
      /\ \A i \in 1 .. Len(p) : p[i].nd = ROOT => i = 1
      /\ \A i \in 1 .. Len(p) : Slot(L, p[i].nd, p[i].dir)
      /\ Slot(L, a, e)
      /\ \A i \in 2 .. Len(p) : p[i].nd \in L
  BY <1>1, PathHeap
<1>3. a \in Addr /\ e \in Dirs /\ a # n
  BY <1>0, <1>2, TreeSubs DEF Slot
<1>4. /\ h1 \in Heap
      /\ \A y \in L : h1[y].color = h[y].color
      /\ h1[n].color = "RED" /\ \A f \in Dirs : h1[n].sub[f] = NULL
      /\ h1[a].sub[e] = n
      /\ \A y \in Addr, f \in Dirs : y # n /\ ~(y = a /\ f = e) => h1[y].sub[f] = h[y].sub[f]
  BY <1>0 DEF Grown
<1>5. B \in [L \cup {NULL} -> Nat] /\ B[NULL] = 0
  BY DEF Settled, Balanced
<1>6. /\ B1 \in [L1 \cup {NULL} -> Nat] /\ B1[NULL] = 0 /\ B1[n] = 0
      /\ \A y \in L \cup {NULL} : B1[y] = B[y]
  BY <1>0, <1>5 DEF GrownB
<1> HIDE DEF a, e, B1
<1>7. Balanced(h1, L1, B1, {})
  <2> SUFFICES ASSUME NEW y \in L1, NEW f \in Dirs
               PROVE  B1[y] = B1[h1[y].sub[f]] + Wt(h1, y) + Gap({}, y, f)
    BY <1>6 DEF Balanced
  <2>0. Gap({}, y, f) = 0
    BY DEF Gap
  <2>1. CASE y = n
    BY <2>0, <2>1, <1>4, <1>6 DEF Wt
  <2>2. CASE y \in L
    <3>0. B[y] = B[h[y].sub[f]] + Wt(h, y) + Gap({}, y, f)
      BY <2>2 DEF Settled, Balanced
    <3>1. Wt(h1, y) = Wt(h, y) /\ y # n /\ y \in Addr
      BY <2>2, <1>0, <1>4 DEF Wt
    <3>2. CASE y = a /\ f = e
      <4>1. B1[h1[y].sub[f]] = 0 /\ B[h[y].sub[f]] = 0
        BY <3>2, <1>1, <1>4, <1>5, <1>6 DEF a, e
      <4> QED BY <2>2, <3>0, <3>1, <4>1, <1>6
    <3>3. CASE ~(y = a /\ f = e)
      <4>1. B1[h1[y].sub[f]] = B[h[y].sub[f]]
        BY <2>2, <3>1, <3>3, <1>0, <1>4, <1>6
      <4> QED BY <2>2, <3>0, <3>1, <4>1, <1>6
    <3> QED BY <3>2, <3>3
  <2> QED BY <2>1, <2>2
<1>8. End(h1, p) = n /\ IsRed(h1, n)
  BY <1>0, <1>4 DEF End, IsRed, a, e
<1>9. RedFree(h1, L1, {}, {n})
  <2> SUFFICES ASSUME NEW y \in L1, NEW f \in Dirs, IsRed(h1, y), IsRed(h1, h1[y].sub[f]), h1[y].sub[f] # n
               PROVE  FALSE
    BY DEF RedFree
  <2>1. y # n
    BY <1>4 DEF IsRed
  <2>2. y \in L /\ h1[y].sub[f] = h[y].sub[f] /\ h[y].sub[f] \in L \cup {NULL}
    BY <2>1, <1>0, <1>4
  <2>3. IsRed(h, y) /\ IsRed(h, h[y].sub[f])
    BY <2>2, <1>4 DEF IsRed
  <2> QED BY <2>2, <2>3 DEF Settled, RedFree
<1>10. GoodPath(SubOf(h1), L1, p)
  <2>1. \A i \in 2 .. Len(p) : p[i].nd \in L1
    BY <1>2
  <2>2. \A i \in 1 .. Len(p) - 1 : SubOf(h1)[p[i].nd][p[i].dir] = SubOf(h)[p[i].nd][p[i].dir]
    <3> SUFFICES ASSUME NEW i \in 1 .. Len(p) - 1
                 PROVE  SubOf(h1)[p[i].nd][p[i].dir] = SubOf(h)[p[i].nd][p[i].dir]
      OBVIOUS
    <3>1. i \in 1 .. Len(p) /\ i < Len(p)
      BY <1>2
    <3>2. p[i].nd # a
      BY <3>1, <1>1, <1>2, PathDistinct DEF a, Tree
    <3>3. Slot(L, p[i].nd, p[i].dir)
      BY <3>1, <1>2
    <3>4. p[i].nd \in Addr /\ p[i].dir \in Dirs /\ p[i].nd # n
      BY <3>3, <1>0, TreeSubs DEF Slot
    <3>5. h1[p[i].nd].sub[p[i].dir] = h[p[i].nd].sub[p[i].dir]
      BY <3>2, <3>4, <1>4
    <3> QED BY <3>4, <3>5 DEF SubOf
  <2> QED BY <2>1, <2>2, <1>1, PathKept
<1>11. IsRed(h1, h1[ROOT].sub[RBT_LEFT]) => Len(p) = 1
  <2> SUFFICES ASSUME IsRed(h1, h1[ROOT].sub[RBT_LEFT]), Len(p) # 1 PROVE FALSE
    OBVIOUS
  <2>1. a # ROOT
    BY <1>2 DEF a
  <2>2. h1[ROOT].sub[RBT_LEFT] = RootOf(h)
    BY <2>1, <1>0, <1>4 DEF RootOf
  <2>3. IsRed(h, RootOf(h))
    BY <2>2, <1>0, <1>4 DEF IsRed
  <2> QED BY <2>3 DEF Settled
<1> QED BY <1>4, <1>7, <1>8, <1>9, <1>10, <1>11 DEF Adding, B1

-----------------------------------------------------------------------------
(* The frames: nodes outside the tree are left alone.                      *)

(* A rotation changes no other node. *)
LEMMA RotateFrame ==
    ASSUME NEW h \in Heap, NEW a \in Addr, NEW e \in Dirs, NEW n \in Nodes, NEW d \in Dirs,
           NEW c \in Nodes, h[n].sub[d] = c, NEW y \in Addr, y \notin {a, n, c}
    PROVE  Rotate(h, Hop(a, e), n, d)[y] = h[y]
<1> DEFINE o == Other(d)
           x == h[c].sub[o]
           h1 == Link(h, n, d, x)
           h2 == Link(h1, c, o, n)
           h3 == Link(h2, a, e, c)
<1>0. o \in Dirs /\ n \in Addr /\ c \in Addr /\ x \in Nodes \cup {NULL}
  BY DirFacts, HeapSubs DEF Addr
<1>1. Rotate(h, Hop(a, e), n, d) = h3
  BY DEF Rotate, Hop
<1> HIDE DEF o, x
<1>2. Linked(h, h1, n, d, x)
  BY <1>0, LinkIs
<1>3. h1 \in Heap /\ h1[y] = h[y]
  BY <1>2, LinkFrame DEF Linked
<1> HIDE DEF h1
<1>4. Linked(h1, h2, c, o, n)
  BY <1>0, <1>3, LinkIs
<1>5. h2 \in Heap /\ h2[y] = h1[y]
  BY <1>3, <1>4, LinkFrame DEF Linked
<1> HIDE DEF h2
<1>6. h3[y] = h2[y]
  BY <1>5, LinkFrame
<1> QED BY <1>1, <1>3, <1>5, <1>6

(* The heap AddRotate makes. *)
AddRotateHeap(h, p, g, q, d) ==
    LET h4 == IF p[Len(p)].dir # d THEN Rotate(h, Hop(g, d), q, Other(d)) ELSE h
        top == h4[g].sub[d]
        h5 == Rotate(h4, p[Len(p) - 2], g, d)
    IN  Paint(Paint(h5, g, "RED"), top, "BLACK")

(* The black uncle cases of HXrbtree_amov, with one rotation or two, leave *)
(* a red-black tree.                                                       *)
LEMMA AddRotateIs ==
    ASSUME RbAssumption, NEW h, NEW L, NEW T, NEW B, NEW p, Adding(h, L, T, B, p), Len(p) >= 3,
           NEW q, NEW g, NEW d, NEW x, Family(h, L, p, q, g, d, x),
           ~IsRed(h, h[g].sub[Other(d)])
    PROVE  Rebalanced(h, AddRotateHeap(h, p, g, q, d), L) /\ Frame(h, AddRotateHeap(h, p, g, q, d), L)
<1> DEFINE a == p[Len(p) - 2].nd
           e == p[Len(p) - 2].dir
           h1 == AddRotateHeap(h, p, g, q, d)
<1>0. /\ h \in Heap /\ Tree(h, L, T) /\ GoodPath(SubOf(h), L, p)
      /\ q \in L /\ g \in L /\ x \in L /\ d \in Dirs /\ Other(d) \in Dirs /\ Other(d) # d
      /\ h[g].sub[d] = q /\ p[Len(p)].dir \in Dirs /\ h[q].sub[p[Len(p)].dir] = x
      /\ q # g /\ q # x /\ g # x
      /\ p[Len(p) - 2] = Hop(a, e) /\ Slot(L, a, e)
  BY DEF Adding, Family
<1>1. L \subseteq Nodes /\ L \subseteq Addr /\ a \in Addr /\ e \in Dirs /\ \A y \in Nodes \ L : y # a /\ y \in Addr
  BY <1>0, TreeSubs DEF Slot, RbAssumption, Addr
<1>2. CASE p[Len(p)].dir = d
  <2> DEFINE h5 == Rotate(h, p[Len(p) - 2], g, d)
  <2>1. h1 = Paint(Paint(h5, g, "RED"), q, "BLACK")
    BY <1>0, <1>2 DEF AddRotateHeap
  <2>2. Rebalanced(h, h1, L)
    <3>1. Rebalanced(h, Paint(Paint(h5, g, "RED"), q, "BLACK"), L)
      BY <1>2, AddOuter
    <3> QED BY <2>1, <3>1
  <2>3. Turned(h, h5, a, e, g, d, q)
    <3>1. h[a].sub[e] = g
      BY DEF Family
    <3> QED BY <3>1, <1>0, RotateTree
  <2>4. h5 \in Heap
    BY <2>3 DEF Turned
  <2>5. \A y \in Nodes \ L : h5[y] = h[y]
    BY <1>0, <1>1, RotateFrame
  <2> HIDE DEF h5
  <2>6. Paint(h5, g, "RED") \in Heap
    BY <2>4, <1>0, <1>1, PaintIs DEF Painted
  <2>7. \A y \in Nodes \ L : Paint(h5, g, "RED")[y] = h[y]
    BY <2>4, <2>5, <1>0, <1>1, PaintFrame
  <2>8. \A y \in Nodes \ L : Paint(Paint(h5, g, "RED"), q, "BLACK")[y] = h[y]
    BY <2>6, <2>7, <1>0, <1>1, PaintFrame
  <2> QED BY <2>1, <2>2, <2>8 DEF Frame
<1>3. CASE p[Len(p)].dir # d
  <2> DEFINE h4 == Rotate(h, Hop(g, d), q, Other(d))
             h5 == Rotate(h4, p[Len(p) - 2], g, d)
  <2>0. h[q].sub[Other(d)] = x
    BY <1>0, <1>3, DirFacts
  <2>1. h4[g].sub[d] = x /\ Rebalanced(h, Paint(Paint(h5, g, "RED"), x, "BLACK"), L)
    BY <1>3, AddInner
  <2>2. h1 = Paint(Paint(h5, g, "RED"), x, "BLACK")
    BY <2>1, <1>3 DEF AddRotateHeap
  <2>3. h4 \in Heap
    <3>1. Slot(L, g, d)
      BY <1>0 DEF Slot
    <3> QED BY <3>1, <2>0, <1>0, RotateTree DEF Turned
  <2>4. \A y \in Nodes \ L : h4[y] = h[y]
    <3> SUFFICES ASSUME NEW y \in Nodes \ L PROVE h4[y] = h[y]
      OBVIOUS
    <3>1. g \in Addr /\ q \in Nodes /\ x \in Nodes /\ y \in Addr /\ y \notin {g, q, x}
      BY <1>0, <1>1
    <3> QED BY <3>1, <2>0, <1>0, RotateFrame
  <2> HIDE DEF h4
  <2>5. h5 \in Heap
    <3>1. a # g /\ a # x /\ x # g
      <4>1. h[a].sub[e] = g
        BY DEF Family
      <4>2. a # g /\ a # q
        BY <4>1, <1>0, TreeGrand
      <4>3. a # x
        <5>1. \A f \in Dirs : h[x].sub[f] \notin {q, g, x}
          BY DEF Family
        <5> QED BY <5>1, <4>1, <1>0, <1>1
      <4> QED BY <4>2, <4>3, <1>0
    <3> QED BY <3>1, <2>1, <2>3, <1>0, <1>1, RotateIs DEF Turned
  <2>6. \A y \in Nodes \ L : h5[y] = h[y]
    <3> SUFFICES ASSUME NEW y \in Nodes \ L PROVE h5[y] = h[y]
      OBVIOUS
    <3>1. g \in Nodes /\ x \in Nodes /\ y \in Addr /\ y \notin {a, g, x}
      BY <1>0, <1>1
    <3> QED BY <3>1, <2>1, <2>3, <2>4, <1>0, <1>1, RotateFrame
  <2> HIDE DEF h5
  <2>7. Paint(h5, g, "RED") \in Heap
    BY <2>5, <1>0, <1>1, PaintIs DEF Painted
  <2>8. \A y \in Nodes \ L : Paint(h5, g, "RED")[y] = h[y]
    BY <2>5, <2>6, <1>0, <1>1, PaintFrame
  <2>9. \A y \in Nodes \ L : Paint(Paint(h5, g, "RED"), x, "BLACK")[y] = h[y]
    BY <2>7, <2>8, <1>0, <1>1, PaintFrame
  <2> QED BY <2>1, <2>2, <2>9 DEF Frame, h5
<1> QED BY <1>2, <1>3

(* The last rotation of HXrbtree_dmov changes no node outside the tree. *)
LEMMA FarFrame ==
    ASSUME RbAssumption, NEW h \in Heap, NEW L, L \subseteq Nodes, NEW a, NEW e, Slot(L, a, e),
           NEW q \in L, NEW o \in Dirs, NEW w \in L, h[q].sub[o] = w, NEW z \in L, h[w].sub[o] = z
    PROVE  Frame(h, Far(h, a, e, q, o, w), L)
<1> DEFINE c == h[q].color
           h1 == Paint(h, w, c)
           h2 == Paint(h1, q, "BLACK")
           h3 == Paint(h2, z, "BLACK")
<1> SUFFICES ASSUME NEW y \in Nodes \ L PROVE Far(h, a, e, q, o, w)[y] = h[y]
  BY DEF Frame
<1>0. /\ a \in Addr /\ e \in Dirs /\ q \in Addr /\ w \in Addr /\ z \in Addr /\ y \in Addr
      /\ y \notin {a, q, w, z} /\ q \in Nodes /\ w \in Nodes
  BY DEF Slot, RbAssumption, Addr, Dirs
<1>1. c \in {"RED", "BLACK"}
  BY <1>0 DEF Heap, Node
<1>2. Far(h, a, e, q, o, w) = Rotate(h3, Hop(a, e), q, o)
  BY DEF Far
<1> HIDE DEF c
<1>3. Painted(h, h1, w, c)
  BY <1>0, <1>1, PaintIs
<1>4. h1 \in Heap /\ h1[y] = h[y]
  BY <1>0, <1>3, PaintFrame DEF Painted
<1> HIDE DEF h1
<1>5. Painted(h1, h2, q, "BLACK")
  BY <1>0, <1>4, PaintIs
<1>6. h2 \in Heap /\ h2[y] = h1[y]
  BY <1>0, <1>4, <1>5, PaintFrame DEF Painted
<1> HIDE DEF h2
<1>7. Painted(h2, h3, z, "BLACK")
  BY <1>0, <1>6, PaintIs
<1>8. h3 \in Heap /\ h3[y] = h2[y]
  BY <1>0, <1>6, <1>7, PaintFrame DEF Painted
<1> HIDE DEF h3
<1>9. h3[q].sub[o] = w
  BY <1>0, <1>3, <1>5, <1>7 DEF Painted
<1>10. Rotate(h3, Hop(a, e), q, o)[y] = h3[y]
  BY <1>0, <1>8, <1>9, RotateFrame
<1> QED BY <1>2, <1>4, <1>6, <1>8, <1>10

(* Case 5 leaves its two nodes in line. *)
InLine(h, h5, L, q, o, c, w) ==
    /\ h5 \in Heap /\ Frame(h, h5, L)
    /\ h5[q].sub[o] = c /\ h5[c].sub[o] = w

(* Nor does the one before it, which leaves the near nephew as the         *)
(* sibling.                                                                *)
LEMMA NearFrame ==
    ASSUME RbAssumption, NEW h \in Heap, NEW L, L \subseteq Nodes,
           NEW q \in L, NEW d \in Dirs, NEW o \in Dirs, o = Other(d), NEW w \in L,
           NEW c \in L, h[w].sub[d] = c, q # w, q # c, c # w
    PROVE  InLine(h, Rotate(Paint(Paint(h, c, "BLACK"), w, "RED"), Hop(q, o), w, d), L, q, o, c, w)
<1> DEFINE h1 == Paint(h, c, "BLACK")
           h2 == Paint(h1, w, "RED")
           h3 == Rotate(h2, Hop(q, o), w, d)
<1>0. q \in Addr /\ w \in Addr /\ c \in Addr /\ q \in Nodes /\ w \in Nodes /\ c \in Nodes
  BY DEF Addr
<1>1. Painted(h, h1, c, "BLACK")
  BY <1>0, PaintIs
<1>2. h1 \in Heap
  BY <1>1 DEF Painted
<1>3. \A y \in Nodes \ L : h1[y] = h[y]
  BY <1>0, PaintFrame DEF Addr
<1> HIDE DEF h1
<1>4. Painted(h1, h2, w, "RED")
  BY <1>0, <1>2, PaintIs
<1>5. h2 \in Heap
  BY <1>4 DEF Painted
<1>6. \A y \in Nodes \ L : h2[y] = h[y]
  BY <1>0, <1>2, <1>3, PaintFrame DEF Addr
<1> HIDE DEF h2
<1>7. h2[w].sub[d] = c
  BY <1>0, <1>1, <1>4 DEF Painted
<1>8. Turned(h2, h3, q, o, w, d, c)
  BY <1>0, <1>5, <1>7, RotateIs
<1>9. Frame(h, h3, L)
  <2> SUFFICES ASSUME NEW y \in Nodes \ L PROVE h3[y] = h[y]
    BY DEF Frame
  <2>1. y \in Addr /\ y \notin {q, w, c}
    BY DEF Addr
  <2> QED BY <2>1, <1>0, <1>5, <1>6, <1>7, RotateFrame
<1> HIDE DEF h3
<1>10. h3 \in Heap /\ SubOf(h3)[q][o] = c /\ SubOf(h3)[c][o] = w
  BY <1>8 DEF Turned, Rotated
<1> QED BY <1>0, <1>9, <1>10, HeapSubs DEF InLine, h3, h2, h1

(* Cases 3 to 6 of HXrbtree_dmov, on the heap h. *)
LEMMA CloseFrame ==
    ASSUME RbAssumption, NEW h, NEW L, NEW T, NEW B, NEW p, Deleting(h, L, T, B, p), Len(p) >= 2,
           NEW q, NEW d, NEW a, NEW e, NEW w, Kin(h, L, p, q, d, a, e, w), \E f \in Dirs : IsRed(h, h[w].sub[f]),
           NEW h5, h5 = Near(h, q, d, w)
    PROVE  Frame(h, Far(h5, a, e, q, Other(d), h5[q].sub[Other(d)]), L)
<1> DEFINE o == Other(d)
<1>0. /\ h \in Heap /\ Tree(h, L, T) /\ q \in L /\ w \in L /\ d \in Dirs /\ o \in Dirs /\ o # d
      /\ Slot(L, a, e) /\ h[a].sub[e] = q /\ h[q].sub[o] = w
  BY DEF Deleting, Kin
<1>1. L \subseteq Nodes /\ \A f \in Dirs : h[w].sub[f] \in L \cup {NULL}
  BY <1>0, TreeSubs
<1>2. CASE IsRed(h, h[w].sub[o])
  <2>1. h5 = h
    BY <1>2 DEF Near
  <2>2. h[w].sub[o] \in L
    BY <1>0, <1>1, <1>2 DEF IsRed
  <2> QED BY <2>1, <2>2, <1>0, <1>1, FarFrame
<1>3. CASE ~IsRed(h, h[w].sub[o])
  <2> DEFINE c == h[w].sub[d]
  <2>1. IsRed(h, c)
    <3>1. PICK f \in Dirs : IsRed(h, h[w].sub[f])
      OBVIOUS
    <3>2. f = d
      BY <3>1, <1>0, <1>3, DirFacts
    <3> QED BY <3>1, <3>2
  <2>2. c \in L
    BY <2>1, <1>0, <1>1 DEF IsRed
  <2>3. h5 = Rotate(Paint(Paint(h, c, "BLACK"), w, "RED"), Hop(q, o), w, d)
    BY <1>3 DEF Near
  <2>4. q # w /\ q # c /\ c # w
    <3>1. Slot(L, q, o)
      BY <1>0 DEF Slot
    <3> QED BY <3>1, <2>2, <1>0, TreeGrand
  <2> HIDE DEF c, o
  <2>5. InLine(h, h5, L, q, o, c, w)
    <3>1. h[w].sub[d] = c /\ o = Other(d)
      BY DEF c, o
    <3>2. InLine(h, Rotate(Paint(Paint(h, c, "BLACK"), w, "RED"), Hop(q, o), w, d), L, q, o, c, w)
      BY <3>1, <2>2, <2>4, <1>0, <1>1, NearFrame
    <3> QED BY <3>2, <2>3
  <2>6. h5 \in Heap /\ Frame(h, h5, L) /\ h5[q].sub[o] = c /\ h5[c].sub[o] = w
    BY <2>5 DEF InLine
  <2>7. Frame(h5, Far(h5, a, e, q, o, c), L)
    BY <2>2, <2>6, <1>0, <1>1, FarFrame
  <2>8. Frame(h, Far(h5, a, e, q, o, c), L)
    BY <2>6, <2>7 DEF Frame
  <2> QED BY <2>6, <2>8 DEF o
<1> QED BY <1>2, <1>3

-----------------------------------------------------------------------------
(* The invariant, and that adding keeps it.                                *)

AllocOf(h) == {n \in Nodes : h[n].key # NULL}

InTreeOf(h, c) == AllocOf(h) \ (IF c.fn = "del" THEN {c.nd} ELSE {})

CallType ==
    [fn : {"none", "add", "del"}, pc : {"idle", "amov", "blacken", "dmov", "free"},
     key : Keys \cup {NULL}, val : Data, nd : Nodes \cup {NULL}, path : Paths]

(* Each call has its steps, and works on a node that is allocated. *)
CallOK(h, c) ==
    /\ c.pc = "idle" <=> c.fn = "none"
    /\ c.pc \in {"amov", "blacken"} <=> c.fn = "add"
    /\ c.pc \in {"dmov", "free"} <=> c.fn = "del"
    /\ c.pc # "idle" => c.nd \in AllocOf(h)

(* How far the tree is a red-black tree, at each of those steps. *)
Balance(h, L, c) ==
    /\ c.pc \in {"idle", "free"} => \E B : Settled(h, L, B)
    /\ c.pc = "amov" => \E T, B : Adding(h, L, T, B, c.path)
    /\ c.pc = "blacken" => (\E B : Balanced(h, L, B, {})) /\ RedFree(h, L, {}, {})
    /\ c.pc = "dmov" => \E T, B : Deleting(h, L, T, B, c.path)

(* Free memory is as Freed. *)
FreeMemory(h) == \A n \in Nodes : n \notin AllocOf(h) => h[n] = Freed

Good(h, c, it) ==
    /\ h \in Heap /\ c \in CallType
    /\ FreeMemory(h)
    /\ CallOK(h, c)
    /\ \E T : Tree(h, InTreeOf(h, c), T)
    /\ it = Cardinality(InTreeOf(h, c))
    /\ Balance(h, InTreeOf(h, c), c)

(* What free memory looks like in the model. *)
LEMMA FreedIs == Freed.key = NULL /\ Freed.data = NULL /\ Freed.color = "RED"
                 /\ (\A f \in Dirs : Freed.sub[f] = NULL) /\ Freed \in Node
  BY DEF Freed, NewNode, Node, Dirs, Data

(* Free memory has no pointers into the tree. *)
LEMMA GoodClean ==
    ASSUME NEW h, FreeMemory(h)
    PROVE  Clean(h, AllocOf(h))
  BY FreedIs DEF Clean, FreeMemory

(* A step that keeps entries, and touches only nodes of the tree,          *)
(* allocates and frees nothing.                                            *)
LEMMA Carried ==
    ASSUME NEW h, NEW h1, SameEntries(h, h1), NEW L, L \subseteq AllocOf(h), Frame(h, h1, L), FreeMemory(h)
    PROVE  FreeMemory(h1) /\ AllocOf(h1) = AllocOf(h)
<1>1. AllocOf(h1) = AllocOf(h)
  BY DEF AllocOf, SameEntries, Addr
<1> QED BY <1>1 DEF Frame, FreeMemory

(* A path of the tree has the type of paths. *)
LEMMA GoodPathType ==
    ASSUME RbAssumption, NEW s, NEW L, L \subseteq Nodes, NEW p, GoodPath(s, L, p)
    PROVE  p \in Paths
<1>1. Hops(L \cup {ROOT}) \subseteq [nd : Addr, dir : {RBT_LEFT, RBT_RIGHT}]
  BY DEF Hops, Addr, Dirs
<1>2. p \in Seq(Hops(L \cup {ROOT}))
  BY DEF GoodPath
<1> QED BY <1>1, <1>2, SeqWider DEF Paths

(* A step of the call under way that leaves the same nodes in the tree. *)
LEMMA GoodStep ==
    ASSUME NEW h, NEW c, NEW it, Good(h, c, it), NEW h1 \in Heap, NEW c1 \in CallType,
           SameEntries(h, h1), Frame(h, h1, InTreeOf(h, c)), c1.fn = c.fn, c1.nd = c.nd, CallOK(h, c1),
           \E T : Tree(h1, InTreeOf(h, c), T), Balance(h1, InTreeOf(h, c), c1)
    PROVE  Good(h1, c1, it)
<1>1. FreeMemory(h1) /\ AllocOf(h1) = AllocOf(h)
  <2>1. InTreeOf(h, c) \subseteq AllocOf(h)
    BY DEF InTreeOf
  <2> QED BY <2>1, Carried DEF Good
<1>2. InTreeOf(h1, c1) = InTreeOf(h, c)
  BY <1>1 DEF InTreeOf
<1>3. CallOK(h1, c1)
  BY <1>1 DEF CallOK
<1> QED BY <1>1, <1>2, <1>3 DEF Good

(* The data of an entry is replaced. *)
LEMMA GoodData ==
    ASSUME RbAssumption, NEW h, NEW c, NEW it, Good(h, c, it), NEW n \in AllocOf(h), NEW v \in Data, c.pc = "idle"
    PROVE  Good([h EXCEPT ![n].data = v], c, it)
<1> DEFINE h1 == [h EXCEPT ![n].data = v]
           L == InTreeOf(h, c)
<1>0. h \in Heap /\ c \in CallType /\ n \in Addr /\ n \in Nodes /\ FreeMemory(h) /\ CallOK(h, c)
  BY DEF Good, AllocOf, Addr
<1>1. h1 \in Heap /\ \A y \in Addr : h1[y].key = h[y].key /\ h1[y].sub = h[y].sub /\ h1[y].color = h[y].color
  BY <1>0 DEF Heap, Node
<1>2. \A y \in Addr : y # n => h1[y] = h[y]
  BY <1>0 DEF Heap
<1> HIDE DEF h1
<1>3. AllocOf(h1) = AllocOf(h)
  BY <1>1 DEF AllocOf, Addr
<1>4. InTreeOf(h1, c) = L
  BY <1>3 DEF InTreeOf
<1>5. FreeMemory(h1)
  BY <1>0, <1>2, <1>3 DEF FreeMemory, Addr
<1>6. CallOK(h1, c)
  BY <1>0, <1>3 DEF CallOK
<1>7. KeyOf(h1) = KeyOf(h) /\ SubOf(h1) = SubOf(h)
  BY <1>1 DEF KeyOf, SubOf
<1>8. PICK T : Tree(h, L, T)
  BY DEF Good
<1>9. Tree(h1, L, T)
  BY <1>7, <1>8 DEF Tree
<1>10. L \subseteq Addr /\ ROOT \in Addr /\ \A y \in L, f \in Dirs : h[y].sub[f] \in L \cup {NULL}
  BY <1>0, <1>8, TreeSubs
<1>10a. RootOf(h) \in L \cup {NULL}
  BY <1>0, <1>8, TreeSubs DEF RootOf
<1>11. PICK B : Settled(h, L, B)
  BY DEF Good, Balance
<1> HIDE DEF L
<1>12. Settled(h1, L, B)
  <2>1. \A y \in L : h1[y].sub = h[y].sub /\ Wt(h1, y) = Wt(h, y)
    BY <1>1, <1>10 DEF Wt
  <2>2. \A y \in L \cup {NULL} : IsRed(h1, y) = IsRed(h, y)
    BY <1>1, <1>10 DEF IsRed
  <2>3. RootOf(h1) = RootOf(h)
    BY <1>1, <1>10 DEF RootOf
  <2>4. Balanced(h1, L, B, {})
    BY <2>1, <1>11 DEF Settled, Balanced
  <2>5. RedFree(h1, L, {}, {})
    BY <2>1, <2>2, <1>10, <1>11 DEF Settled, RedFree
  <2> QED BY <2>2, <2>3, <2>4, <2>5, <1>10a, <1>11 DEF Settled
<1>13. Balance(h1, L, c)
  BY <1>12 DEF Balance
<1> QED BY <1>0, <1>1, <1>4, <1>5, <1>6, <1>9, <1>13 DEF Good, h1, L

(* HXrbtree_add that links a node establishes what HXrbtree_amov expects. *)
LEMMA GoodAdd ==
    ASSUME RbAssumption, NEW c, NEW it, Good(node, c, it), c.pc = "idle", NEW k \in Keys, NEW v \in Data,
           HXrbtree_find(k) = NULL, NEW n \in Nodes, n \notin AllocOf(node), NEW p, p = PathTo(k)
    PROVE  Good(Link([node EXCEPT ![n] = NewNode(k, v)], Last(p).nd, Last(p).dir, n),
                [fn |-> "add", pc |-> "amov", key |-> k, val |-> v, nd |-> n, path |-> p], it + 1)
<1> DEFINE h == node
           a == p[Len(p)].nd
           e == p[Len(p)].dir
           h1 == Link([h EXCEPT ![n] = NewNode(k, v)], a, e, n)
           c1 == [fn |-> "add", pc |-> "amov", key |-> k, val |-> v, nd |-> n, path |-> p]
           L == AllocOf(h)
<1>0. h \in Heap /\ c \in CallType /\ FreeMemory(h) /\ c.fn = "none" /\ k \in Int /\ k # NULL
  BY DEF Good, CallOK, RbAssumption
<1>1. InTreeOf(h, c) = L
  BY <1>0 DEF InTreeOf
<1>2. PICK T : Tree(h, L, T)
  BY <1>1 DEF Good
<1>3. PICK B : Settled(h, L, B)
  BY <1>1 DEF Good, Balance
<1>4. Found(h, L, k, p, NULL) /\ Last(p) = p[Len(p)]
  BY <1>0, <1>2, PathToIs
<1>5. Clean(h, L)
  BY <1>0, GoodClean
<1>6. GoodPath(SubOf(h), L, p)
  BY <1>4 DEF Found
<1>7. Slot(L, a, e) /\ a \in Addr /\ e \in Dirs /\ a # n /\ n \in Addr /\ L \subseteq Nodes /\ n # ROOT
  <2>1. Slot(L, a, e)
    BY <1>0, <1>2, <1>6, PathHeap
  <2>2. n # ROOT /\ n \in Addr
    BY DEF RbAssumption, Addr
  <2>3. a # n
    BY <2>1, <2>2 DEF Slot
  <2> QED BY <2>1, <2>2, <2>3, <1>0, <1>2, TreeSubs
<1> HIDE DEF a, e
<1>8. /\ Grown(h, h1, a, e, n, k) /\ h1[n].data = v
      /\ \A y \in Addr : y \notin {a, n} => h1[y] = h[y]
  <2>1. Sprouted(h, Link([h EXCEPT ![n] = NewNode(k, v)], a, e, n), a, e, n, k, v)
    BY <1>0, <1>7, GrowIs
  <2> QED BY <2>1 DEF Sprouted
<1> HIDE DEF h1, L
<1>9. PICK T1 : Tree(h1, L \cup {n}, T1)
  BY <1>0, <1>2, <1>4, <1>5, <1>8, GrowTree DEF L, a, e
<1>10. Adding(h1, L \cup {n}, T1, GrownB(B, L, n), p)
  BY <1>0, <1>2, <1>3, <1>4, <1>8, <1>9, GrowIsAdding DEF L, a, e
<1>11. h1 \in Heap
  BY <1>8 DEF Grown
<1>12. AllocOf(h1) = L \cup {n}
  BY <1>0, <1>8 DEF AllocOf, Grown, Addr, L
<1>13. FreeMemory(h1)
  <2> SUFFICES ASSUME NEW y \in Nodes, y \notin AllocOf(h1) PROVE h1[y] = Freed
    BY DEF FreeMemory
  <2>1. y \notin L /\ y # n /\ y \in Addr
    BY <1>12 DEF Addr
  <2>2. y # a
    BY <2>1, <1>7 DEF Slot, RbAssumption
  <2> QED BY <2>1, <2>2, <1>0, <1>8 DEF FreeMemory, L
<1>14. p \in Paths
  BY <1>6, <1>7, GoodPathType DEF L
<1>15. c1 \in CallType /\ c1.fn = "add" /\ c1.pc = "amov" /\ c1.nd = n /\ c1.path = p
  BY <1>14 DEF CallType
<1> HIDE DEF c1
<1>16. InTreeOf(h1, c1) = L \cup {n}
  BY <1>12, <1>15 DEF InTreeOf
<1>17. CallOK(h1, c1)
  BY <1>12, <1>15 DEF CallOK
<1>18. Balance(h1, L \cup {n}, c1)
  BY <1>10, <1>15 DEF Balance
<1>19. it + 1 = Cardinality(L \cup {n})
  <2>1. IsFiniteSet(L) /\ it = Cardinality(L) /\ n \notin L
    BY <1>1, <1>2 DEF Tree, Good, L
  <2> QED BY <2>1, FS_AddElement
<1>20. Good(h1, c1, it + 1)
  BY <1>9, <1>11, <1>13, <1>15, <1>16, <1>17, <1>18, <1>19 DEF Good
<1> QED BY <1>4, <1>20 DEF h1, c1, a, e

(* Taking out node n, one way or the other. *)
LEMMA GoodTake ==
    ASSUME RbAssumption, NEW h, NEW c, NEW it, Good(h, c, it), c.pc = "idle", NEW n \in AllocOf(h),
           NEW k \in Keys \cup {NULL}, NEW v \in Data, NEW h1, NEW p, TakenOut(h, h1, AllocOf(h), n, p),
           NEW c1, c1 = [fn |-> "del", key |-> k, val |-> v,
                         pc |-> IF h1[n].color = "BLACK" THEN "dmov" ELSE "free", nd |-> n, path |-> p]
    PROVE  Good(h1, c1, it - 1)
<1> DEFINE L == AllocOf(h)
<1>0. h \in Heap /\ c \in CallType /\ FreeMemory(h) /\ c.fn = "none" /\ n \in Nodes
  BY DEF Good, CallOK, AllocOf
<1>1. InTreeOf(h, c) = L
  BY <1>0 DEF InTreeOf
<1>2. h1 \in Heap /\ SameEntries(h, h1) /\ Frame(h, h1, L)
  BY DEF TakenOut
<1>3. FreeMemory(h1) /\ AllocOf(h1) = L
  BY <1>0, <1>2, Carried
<1>3a. p \in Paths
  <2>1. GoodPath(SubOf(h1), L \ {n}, p) /\ L \ {n} \subseteq Nodes
    BY DEF TakenOut, AllocOf
  <2> QED BY <2>1, GoodPathType
<1>4. /\ c1 \in CallType /\ c1.fn = "del" /\ c1.nd = n /\ c1.path = p
      /\ c1.pc = IF h1[n].color = "BLACK" THEN "dmov" ELSE "free"
  BY <1>0, <1>3a DEF CallType
<1>5. InTreeOf(h1, c1) = L \ {n}
  BY <1>3, <1>4 DEF InTreeOf
<1>6. CallOK(h1, c1)
  BY <1>3, <1>4 DEF CallOK
<1>7. (\E T : Tree(h1, L \ {n}, T)) /\ Balance(h1, L \ {n}, c1)
  <2>1. CASE h1[n].color = "BLACK"
    <3>1. \E T, B : Deleting(h1, L \ {n}, T, B, p)
      BY <2>1 DEF TakenOut
    <3>2. c1.pc = "dmov"
      BY <2>1, <1>4
    <3> QED BY <3>1, <3>2, <1>4 DEF Balance, Deleting
  <2>2. CASE h1[n].color # "BLACK"
    <3>1. (\E T : Tree(h1, L \ {n}, T)) /\ \E B : Settled(h1, L \ {n}, B)
      BY <2>2 DEF TakenOut
    <3>2. c1.pc = "free"
      BY <2>2, <1>4
    <3> QED BY <3>1, <3>2 DEF Balance
  <2> QED BY <2>1, <2>2
<1>8. it - 1 = Cardinality(L \ {n})
  <2>1. IsFiniteSet(L) /\ it = Cardinality(L)
    BY <1>1 DEF Tree, Good
  <2> QED BY <2>1, FS_RemoveElement
<1> QED BY <1>2, <1>3, <1>4, <1>5, <1>6, <1>7, <1>8 DEF Good

-----------------------------------------------------------------------------
(* Deleting keeps the invariant.                                           *)

(* The heap of HXrbtree_del_mm, in steps. *)
MmLinks(h, a, e, n, io, b, direct) ==
    LET h1 == Link(h, a, e, io)
        h2 == IF direct THEN h1 ELSE Link(h1, b, RBT_LEFT, h[io].sub[RBT_RIGHT])
    IN  Link(Link(h2, io, RBT_LEFT, h[n].sub[RBT_LEFT]), io, RBT_RIGHT,
             IF direct THEN h[io].sub[RBT_RIGHT] ELSE h[n].sub[RBT_RIGHT])

MmHeap(h, a, e, n, io, b, direct) ==
    Paint(Paint(MmLinks(h, a, e, n, io, b, direct), io, h[n].color), n, h[io].color)

(* MmHeap is the effect of HXrbtree_del_mm described by Moved. *)
LEMMA MmHeapIs ==
    ASSUME NEW h \in Heap, NEW a \in Addr, NEW e \in Dirs, NEW n \in Nodes, NEW io \in Nodes, NEW b \in Addr,
           NEW direct \in BOOLEAN, a # io, a # b, b # io, n # io
    PROVE  Moved(h, MmHeap(h, a, e, n, io, b, direct), a, e, n, io, b, direct)
<1>1. MovedSubs(h, MmLinks(h, a, e, n, io, b, direct), a, e, n, io, b, direct)
  BY MoveSubs DEF MmLinks
<1> QED BY <1>1, MoveIs DEF MmHeap

(* HXrbtree_del_mm changes no other node. *)
LEMMA MmHeapFrame ==
    ASSUME NEW h \in Heap, NEW a \in Addr, NEW e \in Dirs, NEW n \in Nodes, NEW io \in Nodes, NEW b \in Addr,
           NEW direct \in BOOLEAN, NEW y \in Addr, y \notin {a, n, io}, direct \/ y # b
    PROVE  MmHeap(h, a, e, n, io, b, direct)[y] = h[y]
<1> DEFINE l == h[n].sub[RBT_LEFT]
           c == h[io].sub[RBT_RIGHT]
           right == IF direct THEN c ELSE h[n].sub[RBT_RIGHT]
           h1 == Link(h, a, e, io)
           h2 == IF direct THEN h1 ELSE Link(h1, b, RBT_LEFT, c)
           h3 == Link(h2, io, RBT_LEFT, l)
           h4 == Link(h3, io, RBT_RIGHT, right)
           h5 == Paint(h4, io, h[n].color)
           h6 == Paint(h5, n, h[io].color)
<1>0. /\ RBT_LEFT \in Dirs /\ RBT_RIGHT \in Dirs /\ n \in Addr /\ io \in Addr
      /\ l \in Nodes \cup {NULL} /\ c \in Nodes \cup {NULL} /\ right \in Nodes \cup {NULL}
      /\ h[n].color \in {"RED", "BLACK"}
  <2>1. RBT_LEFT \in Dirs /\ RBT_RIGHT \in Dirs /\ n \in Addr /\ io \in Addr
    BY DEF Dirs, Addr
  <2> QED BY <2>1, HeapSubs DEF Heap, Node
<1>1. MmHeap(h, a, e, n, io, b, direct) = h6
  BY DEF MmHeap, MmLinks
<1> HIDE DEF l, c, right
<1>2. Linked(h, h1, a, e, io)
  BY LinkIs
<1>3. h1 \in Heap /\ h1[y] = h[y]
  BY <1>2, LinkFrame DEF Linked
<1> HIDE DEF h1
<1>4. h2 \in Heap /\ h2[y] = h1[y]
  <2>1. CASE direct
    BY <2>1, <1>3
  <2>2. CASE ~direct
    <3>1. h2 = Link(h1, b, RBT_LEFT, c)
      BY <2>2
    <3>2. Linked(h1, Link(h1, b, RBT_LEFT, c), b, RBT_LEFT, c)
      BY <1>0, <1>3, LinkIs
    <3>3. Link(h1, b, RBT_LEFT, c)[y] = h1[y]
      BY <2>2, <1>3, LinkFrame
    <3> QED BY <3>1, <3>2, <3>3 DEF Linked
  <2> QED BY <2>1, <2>2
<1> HIDE DEF h2
<1>5. Linked(h2, h3, io, RBT_LEFT, l)
  BY <1>0, <1>4, LinkIs
<1>6. h3 \in Heap /\ h3[y] = h2[y]
  BY <1>4, <1>5, LinkFrame DEF Linked
<1> HIDE DEF h3
<1>7. Linked(h3, h4, io, RBT_RIGHT, right)
  BY <1>0, <1>6, LinkIs
<1>8. h4 \in Heap /\ h4[y] = h3[y]
  BY <1>6, <1>7, LinkFrame DEF Linked
<1> HIDE DEF h4
<1>9. Painted(h4, h5, io, h[n].color)
  BY <1>0, <1>8, PaintIs
<1>10. h5 \in Heap /\ h5[y] = h4[y]
  BY <1>8, <1>9, PaintFrame DEF Painted
<1> HIDE DEF h5
<1>11. h6[y] = h5[y]
  BY <1>10, PaintFrame
<1> QED BY <1>1, <1>3, <1>4, <1>6, <1>8, <1>10, <1>11

(* The elements of Front(w). *)
LEMMA FrontFacts ==
    ASSUME NEW X, NEW w \in Seq(X), w # <<>>
    PROVE  /\ Front(w) \in Seq(X) /\ Len(Front(w)) = Len(w) - 1 /\ Len(w) \in Nat /\ Len(w) >= 1
           /\ \A i \in 1 .. Len(w) - 1 : Front(w)[i] = w[i]
<1>1. Len(w) \in Nat /\ Len(w) >= 1
  OBVIOUS
<1>2. CASE Len(w) = 1
  <2>1. Front(w) = <<>>
    BY <1>2 DEF Front
  <2> QED BY <2>1, <1>1, <1>2
<1>3. CASE Len(w) # 1
  <2>1. Len(w) >= 2 /\ Len(w) \in Nat
    BY <1>1, <1>3, MoreThanOne
  <2>2. Front(w) \in Seq(X) /\ Len(Front(w)) = Len(w) - 1 /\ \A i \in 1 .. Len(w) - 1 : Front(w)[i] = w[i]
    BY <2>1 DEF Front
  <2> QED BY <2>2, <1>1
<1> QED BY <1>2, <1>3

(* HXrbtree_del_mm takes the node out and leaves what HXrbtree_dmov        *)
(* expects.                                                                *)
LEMMA MmIs ==
    ASSUME RbAssumption, node \in Heap, NEW L, NEW T, Tree(node, L, T), Clean(node, L), NEW B, Settled(node, L, B),
           NEW p, GoodPath(SubOf(node), L, p), NEW n \in L, End(node, p) = n,
           node[n].sub[RBT_RIGHT] # NULL
    PROVE  TakenOut(node, HXrbtree_del_mm(p, n).heap, L, n, HXrbtree_del_mm(p, n).path)
<1> DEFINE c == node[n].sub[RBT_RIGHT]
           w == Spine(c)
           io == w[Len(w)].nd
           a == p[Len(p)].nd
           e == p[Len(p)].dir
           direct == Len(w) = 1
           b == IF Len(w) = 1 THEN n ELSE w[Len(w) - 1].nd
           g == IF Len(w) = 1 THEN RBT_RIGHT ELSE RBT_LEFT
           r == p \o <<Hop(n, RBT_RIGHT)>> \o Front(w)
           h4 == MmHeap(node, a, e, n, io, b, direct)
           mm == HXrbtree_del_mm(p, n)
<1>0. c \in L /\ L \subseteq Addr /\ L \subseteq Nodes /\ ROOT \notin L /\ n \in Addr /\ RBT_RIGHT \in Dirs
  <2>1. RBT_RIGHT \in Dirs
    BY DEF Dirs
  <2> QED BY <2>1, TreeSubs
<1>1. LeftSpine(KeyOf(node), SubOf(node), L, T, c, w)
  BY <1>0, SpineIs
<1> HIDE DEF w
<1>2. Descent(node, L, T, p, n, w, io, b, g, r)
  BY <1>0, <1>1, DescentIs
<1>3. /\ Slot(L, a, e) /\ a \in Addr /\ e \in Dirs /\ Last(p) = p[Len(p)]
      /\ p \in Seq(Hops(L \cup {ROOT})) /\ \A i \in 1 .. Len(p) : Slot(L, p[i].nd, p[i].dir)
  <2>1. /\ Len(p) \in 1 .. Len(p) /\ Last(p) = p[Len(p)]
        /\ \A i \in 1 .. Len(p) : Slot(L, p[i].nd, p[i].dir)
    BY PathHeap
  <2>2. Slot(L, a, e)
    BY <2>1
  <2> HIDE DEF a, e
  <2>3. a \in Addr /\ e \in Dirs
    BY <2>2, TreeSubs
  <2>4. p \in Seq(Hops(L \cup {ROOT}))
    BY DEF GoodPath
  <2> QED BY <2>1, <2>2, <2>3, <2>4
<1>4. /\ w \in Seq(Hops(L)) /\ w # <<>> /\ Len(w) \in Nat /\ Len(w) >= 1
      /\ \A i \in 1 .. Len(w) : w[i].nd \in T[c]
  <2>1. w \in Seq(Hops(L)) /\ w # <<>>
    BY <1>1 DEF LeftSpine, Chain
  <2>2. Len(w) \in Nat /\ Len(w) >= 1
    BY <2>1
  <2> QED BY <1>1, <2>1, <2>2 DEF LeftSpine
<1>5. Last(w) = w[Len(w)]
  BY <1>4 DEF Last
<1>6. mm = [heap |-> h4, path |-> p \o <<Hop(io, RBT_RIGHT)>> \o Front(w)]
  <2>1. Spine(node[n].sub[RBT_RIGHT]) = w
    BY DEF w
  <2>2. ~direct => b = w[Len(w) - 1].nd
    OBVIOUS
  <2>3. MmLinks(node, a, e, n, io, b, direct) =
            LET h1 == Link(node, a, e, io)
                h2 == IF direct THEN h1 ELSE Link(h1, w[Len(w) - 1].nd, RBT_LEFT, node[io].sub[RBT_RIGHT])
            IN  Link(Link(h2, io, RBT_LEFT, node[n].sub[RBT_LEFT]), io, RBT_RIGHT,
                     IF direct THEN node[io].sub[RBT_RIGHT] ELSE node[n].sub[RBT_RIGHT])
    BY <2>2 DEF MmLinks
  <2> QED BY <2>1, <2>3, <1>3, <1>5 DEF HXrbtree_del_mm, MmHeap
<1>7. io \in L /\ b \in L /\ io # n /\ io # b /\ a \notin {n, io, b} /\ io \in T[c]
  BY <1>2 DEF Descent
<1> HIDE DEF io, b, g, r, a, e, direct, mm, h4
<1>8. Moved(node, h4, a, e, n, io, b, direct)
  <2>1. direct \in BOOLEAN /\ n \in Nodes /\ io \in Nodes /\ b \in Addr
    BY <1>0, <1>7 DEF direct
  <2> QED BY <2>1, <1>3, <1>7, MmHeapIs DEF h4
<1>9. Frame(node, h4, L)
  <2> SUFFICES ASSUME NEW y \in Nodes \ L PROVE h4[y] = node[y]
    BY DEF Frame
  <2>1. direct \in BOOLEAN /\ n \in Nodes /\ io \in Nodes /\ b \in Addr /\ y \in Addr /\ y \notin {a, n, io} /\ y # b
    BY <1>0, <1>3, <1>7 DEF direct, Slot, RbAssumption, Addr
  <2> QED BY <2>1, <1>3, MmHeapFrame DEF h4
<1>10. TakenOut(node, h4, L, n, RenamedPath(r, n, io))
  BY <1>2, <1>8, <1>9, TakeOutTwo DEF a, e, direct
<1>11. RenamedPath(r, n, io) = p \o <<Hop(io, RBT_RIGHT)>> \o Front(w)
  <2> DEFINE X == L \cup {ROOT}
             q == Front(w)
  <2>1. /\ Len(q) = Len(w) - 1 /\ q \in Seq(Hops(L)) /\ \A i \in 1 .. Len(q) : q[i] = w[i]
    BY <1>4, FrontFacts
  <2>2. q \in Seq(Hops(X))
    <3>1. Hops(L) \subseteq Hops(X)
      BY DEF Hops
    <3> QED BY <3>1, <2>1, SeqWider
  <2>3. n \notin T[c]
    <3>1. SubOf(node)[n][RBT_RIGHT] = c /\ Shape(KeyOf(node), SubOf(node), L, T)
      BY <1>0 DEF SubOf, Tree
    <3> QED BY <3>1, <1>0, SubtreeOf
  <2>4. \A i \in 1 .. Len(q) : q[i].nd # n
    <3> SUFFICES ASSUME NEW i \in 1 .. Len(q) PROVE q[i].nd # n
      OBVIOUS
    <3>1. i \in 1 .. Len(w)
      BY <1>4, <2>1
    <3> QED BY <3>1, <2>1, <2>3, <1>4
  <2>5. \A i \in 1 .. Len(p) : p[i].nd # n
    <3>1. /\ GoodPath(SubOf(node), L, r) /\ \A i \in 1 .. Len(p) : r[i] = p[i]
          /\ r[Len(p) + 1].nd = n /\ Len(p) \in Nat /\ Len(r) = Len(p) + 1 + Len(q) /\ Len(q) \in Nat
      <4>1. Hop(n, RBT_RIGHT) \in Hops(X) /\ Hop(n, RBT_RIGHT).nd = n
        BY <1>0 DEF Hop, Hops
      <4> HIDE DEF q, X
      <4>2. /\ Len(p) \in Nat /\ Len(q) \in Nat
            /\ \A i \in 1 .. Len(p) : r[i] = p[i]
            /\ r[Len(p) + 1] = Hop(n, RBT_RIGHT)
            /\ Len(r) = Len(p) + 1 + Len(q)
        BY <4>1, <2>2, <1>3, ThreeParts DEF r, X, q
      <4> QED BY <4>1, <4>2, <1>2 DEF Descent
    <3> SUFFICES ASSUME NEW i \in 1 .. Len(p) PROVE p[i].nd # n
      OBVIOUS
    <3>2. i \in 1 .. Len(r) /\ Len(p) + 1 \in 1 .. Len(r) /\ i < Len(p) + 1
      BY <3>1
    <3>3. r[i].nd # r[Len(p) + 1].nd
      BY <3>1, <3>2, PathDistinct DEF Tree
    <3> QED BY <3>1, <3>3
  <2>6. n \in X /\ io \in X
    BY <1>7
  <2> HIDE DEF X, q
  <2>7. p \in Seq(Hops(X))
    BY <1>3 DEF X
  <2>8. Avoids(p, n) /\ Avoids(q, n)
    BY <2>4, <2>5 DEF Avoids
  <2> DEFINE t == p \o <<Hop(io, RBT_RIGHT)>> \o q
  <2>9. Route(p, n, RBT_RIGHT, q, r) /\ Route(p, io, RBT_RIGHT, q, t)
    BY DEF Route, r, q
  <2> HIDE DEF t
  <2>10. RenamedPath(r, n, io) = t
    BY <2>2, <2>6, <2>7, <2>8, <2>9, <1>0, RenamedPathIs
  <2> QED BY <2>10 DEF t, q
<1> QED BY <1>6, <1>10, <1>11 DEF mm

(* HXrbtree_del that finds its key unlinks the node and establishes what   *)
(* HXrbtree_dmov expects.                                                  *)
LEMMA DelGood ==
    ASSUME RbAssumption, Good(node, call, items), call.pc = "idle", NEW k \in Keys,
           HXrbtree_find(k) # NULL, DelUnlink(PathTo(k), HXrbtree_find(k))
    PROVE  Good(node', call', items') /\ SameEntries(node, node')
<1> DEFINE p == PathTo(k)
           n == HXrbtree_find(k)
           L == AllocOf(node)
           Replace(m) == [heap |-> Link(node, Last(p).nd, Last(p).dir, m), path |-> p]
           mm == IF node[n].sub[RBT_RIGHT] = NULL THEN Replace(node[n].sub[RBT_LEFT])
                 ELSE IF node[n].sub[RBT_LEFT] = NULL THEN Replace(node[n].sub[RBT_RIGHT])
                 ELSE HXrbtree_del_mm(p, n)
<1>0. node \in Heap /\ call \in CallType /\ FreeMemory(node) /\ call.fn = "none" /\ k \in Int
  BY DEF Good, CallOK, RbAssumption
<1>1. InTreeOf(node, call) = L
  BY <1>0 DEF InTreeOf
<1>2. PICK T : Tree(node, L, T)
  BY <1>1 DEF Good
<1>3. PICK B : Settled(node, L, B)
  BY <1>1 DEF Good, Balance
<1>4. Found(node, L, k, p, n) /\ Last(p) = p[Len(p)]
  BY <1>0, <1>2, PathToIs
<1>5. Clean(node, L)
  BY <1>0, GoodClean
<1>6. GoodPath(SubOf(node), L, p) /\ n \in L /\ End(node, p) = n /\ n \in Addr
  BY <1>0, <1>2, <1>4, TreeSubs DEF Found, End
<1>7. /\ node' = mm.heap
      /\ call' = [fn |-> "del", key |-> node[n].key, val |-> node[n].data,
                  pc |-> IF mm.heap[n].color = "BLACK" THEN "dmov" ELSE "free",
                  nd |-> n, path |-> mm.path]
      /\ items' = items - 1
  BY DEF DelUnlink
<1> HIDE DEF p, n, L
<1>8. TakenOut(node, mm.heap, L, n, mm.path)
  <2>0. RBT_LEFT \in Dirs /\ RBT_RIGHT \in Dirs /\ Other(RBT_LEFT) = RBT_RIGHT /\ Other(RBT_RIGHT) = RBT_LEFT
    BY DEF Dirs, Other, RBT_LEFT, RBT_RIGHT
  <2>1. CASE node[n].sub[RBT_RIGHT] = NULL
    <3> DEFINE m == node[n].sub[RBT_LEFT]
    <3>1. mm.heap = Link(node, p[Len(p)].nd, p[Len(p)].dir, m) /\ mm.path = p
      BY <2>1, <1>4
    <3>2. node[n].sub[Other(RBT_LEFT)] = NULL
      BY <2>0, <2>1
    <3> HIDE DEF mm
    <3>3. TakenOut(node, Link(node, p[Len(p)].nd, p[Len(p)].dir, m), L, n, p)
      BY <3>2, <2>0, <1>0, <1>2, <1>3, <1>5, <1>6, TakeOutOne
    <3> QED BY <3>1, <3>3
  <2>2. CASE node[n].sub[RBT_RIGHT] # NULL /\ node[n].sub[RBT_LEFT] = NULL
    <3> DEFINE m == node[n].sub[RBT_RIGHT]
    <3>1. mm.heap = Link(node, p[Len(p)].nd, p[Len(p)].dir, m) /\ mm.path = p
      BY <2>2, <1>4
    <3>2. node[n].sub[Other(RBT_RIGHT)] = NULL
      BY <2>0, <2>2
    <3> HIDE DEF mm
    <3>3. TakenOut(node, Link(node, p[Len(p)].nd, p[Len(p)].dir, m), L, n, p)
      BY <3>2, <2>0, <1>0, <1>2, <1>3, <1>5, <1>6, TakeOutOne
    <3> QED BY <3>1, <3>3
  <2>3. CASE node[n].sub[RBT_RIGHT] # NULL /\ node[n].sub[RBT_LEFT] # NULL
    <3>1. mm = HXrbtree_del_mm(p, n)
      BY <2>3
    <3> HIDE DEF mm
    <3>2. TakenOut(node, HXrbtree_del_mm(p, n).heap, L, n, HXrbtree_del_mm(p, n).path)
      BY <2>3, <1>0, <1>2, <1>3, <1>5, <1>6, MmIs
    <3> QED BY <3>1, <3>2
  <2> QED BY <2>1, <2>2, <2>3
<1> HIDE DEF mm
<1>9. node[n].key \in Keys \cup {NULL} /\ node[n].data \in Data
  BY <1>0, <1>6 DEF Heap, Node
<1>10. SameEntries(node, node')
  BY <1>7, <1>8 DEF TakenOut
<1> QED BY <1>6, <1>7, <1>8, <1>9, <1>10, GoodTake DEF L

(* One turn of HXrbtree_amov. *)
LEMMA AmovGood ==
    ASSUME RbAssumption, Good(node, call, items), HXrbtree_amov
    PROVE  Good(node', call', items') /\ SameEntries(node, node')
<1> DEFINE p == call.path
           h == node
           L == InTreeOf(h, call)
           q == p[Len(p)].nd
           g == p[Len(p) - 1].nd
           d == p[Len(p) - 1].dir
           x == End(h, p)
           u == h[g].sub[Other(d)]
<1>0. h \in Heap /\ call \in CallType /\ call.pc = "amov" /\ call.fn = "add" /\ L \subseteq AllocOf(h)
      /\ FreeMemory(h) /\ CallOK(h, call) /\ items' = items
  BY DEF Good, CallOK, HXrbtree_amov, InTreeOf
<1>1. PICK T, B : Adding(h, L, T, B, p)
  BY <1>0 DEF Good, Balance
<1>2. Tree(h, L, T) /\ GoodPath(SubOf(h), L, p)
  BY <1>1 DEF Adding
<1>3. Last(p) = p[Len(p)] /\ Len(p) \in Nat
  BY <1>0, <1>2, PathHeap
<1>4. Len(p) >= 3 /\ IsRed(h, q)
  BY <1>3 DEF HXrbtree_amov, RedRed
<1>5. Family(h, L, p, q, g, d, x)
  BY <1>1, <1>4, Relatives
<1>6. L \subseteq Addr /\ L \subseteq Nodes /\ \A n \in L, f \in Dirs : h[n].sub[f] \in L \cup {NULL}
  BY <1>0, <1>2, TreeSubs
<1>7. \/ IsRed(h, u) /\ Recolor(p, g, q, u)
      \/ ~IsRed(h, u) /\ AddRotate(p, g, q, d)
  BY <1>3 DEF HXrbtree_amov
<1> HIDE DEF h, q, g, d, x, u, L, p
<1>8. CASE IsRed(h, u) /\ Recolor(p, g, q, u)
  <2>0. q \in L /\ g \in L /\ q # g /\ u # g /\ u \in L /\ q \in Addr /\ g \in Addr /\ u \in Addr
    <3>1. u \in L
      BY <1>5, <1>6, <1>8 DEF Family, u, IsRed
    <3> QED BY <3>1, <1>5, <1>6 DEF Family, u
  <2> DEFINE h1 == Paint(Paint(Paint(h, q, "BLACK"), u, "BLACK"), g, "RED")
             p1 == SubSeq(p, 1, Len(p) - 2)
             c1 == [call EXCEPT !.path = p1]
  <2>1. node' = h1 /\ call' = c1
    BY <1>8 DEF Recolor, h
  <2>2. Recolored(h, h1, q, u, g)
    BY <2>0, <1>0, PaintThree
  <2>3. Frame(h, h1, L)
    <3> SUFFICES ASSUME NEW y \in Nodes \ L PROVE h1[y] = h[y]
      BY DEF Frame
    <3> DEFINE ha == Paint(h, q, "BLACK")
               hb == Paint(ha, u, "BLACK")
    <3>0. y \in Addr /\ y \notin {q, u, g}
      BY <2>0 DEF Addr
    <3>1. ha \in Heap /\ ha[y] = h[y]
      BY <2>0, <3>0, <1>0, PaintIs, PaintFrame DEF Painted
    <3> HIDE DEF ha
    <3>2. hb \in Heap /\ hb[y] = ha[y]
      BY <2>0, <3>0, <3>1, PaintIs, PaintFrame DEF Painted
    <3> HIDE DEF hb
    <3>3. Paint(hb, g, "RED")[y] = hb[y]
      BY <3>0, <3>2, PaintFrame
    <3> QED BY <3>1, <3>2, <3>3 DEF ha, hb
  <2> HIDE DEF h1
  <2>4. h[g].sub[Other(d)] = u
    BY DEF u
  <2>5. Adding(h1, L, T, RecolorB(B, q, u), p1)
    BY <2>2, <2>4, <1>1, <1>4, <1>5, <1>8, RecolorIs
  <2>6. p1 \in Paths
    BY <2>5, <1>6, GoodPathType DEF Adding
  <2> HIDE DEF p1
  <2>7. /\ c1 \in CallType /\ c1.pc = "amov" /\ c1.fn = call.fn /\ c1.nd = call.nd /\ c1.path = p1
    BY <2>6, <1>0 DEF CallType
  <2>8. CallOK(h, c1)
    BY <2>7, <1>0 DEF CallOK
  <2>9. h1 \in Heap /\ SameEntries(h, h1)
    BY <2>2 DEF Recolored
  <2>10. Balance(h1, L, c1) /\ Tree(h1, L, T)
    BY <2>5, <2>7 DEF Balance, Adding
  <2> HIDE DEF c1
  <2>11. Good(h1, c1, items)
    BY <2>3, <2>7, <2>8, <2>9, <2>10, <1>0, GoodStep DEF L, h
  <2> QED BY <2>1, <2>9, <2>11, <1>0 DEF h
<1>9. CASE ~IsRed(h, u) /\ AddRotate(p, g, q, d)
  <2> DEFINE h1 == AddRotateHeap(h, p, g, q, d)
             c1 == [call EXCEPT !.pc = "blacken"]
  <2>1. node' = h1 /\ call' = c1
    BY <1>3, <1>9 DEF AddRotate, AddRotateHeap, h
  <2>2. Rebalanced(h, h1, L) /\ Frame(h, h1, L)
    BY <1>1, <1>4, <1>5, <1>9, AddRotateIs DEF u
  <2> HIDE DEF h1
  <2>3. /\ c1 \in CallType /\ c1.pc = "blacken" /\ c1.fn = call.fn /\ c1.nd = call.nd
    BY <1>0 DEF CallType
  <2>4. CallOK(h, c1)
    BY <2>3, <1>0 DEF CallOK
  <2>5. h1 \in Heap /\ SameEntries(h, h1) /\ (\E T1 : Tree(h1, L, T1))
    BY <2>2 DEF Rebalanced
  <2>6. Balance(h1, L, c1)
    BY <2>2, <2>3 DEF Balance, Rebalanced
  <2> HIDE DEF c1
  <2>7. Good(h1, c1, items)
    BY <2>2, <2>3, <2>4, <2>5, <2>6, <1>0, GoodStep DEF L, h
  <2> QED BY <2>1, <2>5, <2>7, <1>0 DEF h
<1> QED BY <1>7, <1>8, <1>9

-----------------------------------------------------------------------------
(* The steps of the rebalancing loops keep the invariant.                  *)

RootB(h, B) == [B EXCEPT ![RootOf(h)] = B[RootOf(h)] + 1 - Wt(h, RootOf(h))]

(* The end of HXrbtree_add: only the root may be red above a red node, and *)
(* it is painted black.                                                    *)
LEMMA BlackRoot ==
    ASSUME RbAssumption, NEW h \in Heap, NEW L, NEW T, Tree(h, L, T), NEW B, Balanced(h, L, B, {}),
           RootOf(h) \in L, RedFree(h, L, {RootOf(h)}, {}),
           NEW h1, Painted(h, h1, RootOf(h), "BLACK")
    PROVE  Tree(h1, L, T) /\ Settled(h1, L, RootB(h, B))
<1> DEFINE r == RootOf(h)
           B1 == RootB(h, B)
<1>1. L \subseteq Addr /\ ROOT \in Addr /\ ROOT \notin L /\ NULL \notin L /\ r \in Addr
      /\ \A x \in L, f \in Dirs : h[x].sub[f] \in L \cup {NULL}
  BY TreeSubs
<1>2. \A x \in L, f \in Dirs : h[x].sub[f] # r
  <2> SUFFICES ASSUME NEW x \in L, NEW f \in Dirs, h[x].sub[f] = r PROVE FALSE
    OBVIOUS
  <2>1. Slot(L, x, f) /\ Slot(L, ROOT, RBT_LEFT) /\ h[ROOT].sub[RBT_LEFT] = h[x].sub[f] /\ h[x].sub[f] # NULL
    BY <1>1 DEF Slot, RootOf
  <2>2. ROOT = x
    BY <2>1, TreeSubs
  <2> QED BY <2>2, <1>1
<1>3. h1 \in Heap /\ SameEntries(h, h1) /\ (\A a \in Addr : h1[a].sub = h[a].sub)
      /\ h1[r].color = "BLACK" /\ \A a \in Addr : a # r => h1[a].color = h[a].color
  BY DEF Painted
<1>4. Tree(h1, L, T)
  BY <1>3, SameTree
<1>5. r \in L
  OBVIOUS
<1>6. RootOf(h1) = r
  BY <1>1, <1>3 DEF RootOf
<1>7. \A n \in L : Wt(h, n) \in {0, 1}
  BY DEF Wt
<1>8. B \in [L \cup {NULL} -> Nat] /\ B[NULL] = 0
      /\ \A n \in L, d \in Dirs : B[n] = B[h[n].sub[d]] + Wt(h, n) + Gap({}, n, d)
  BY DEF Balanced
<1>9. Wt(h, r) \in {0, 1} /\ B[r] \in Nat
  BY <1>5, <1>7, <1>8
<1> HIDE DEF r
<1>10. B[r] + 1 - Wt(h, r) \in Nat
  BY <1>9
<1>11. B1 = [B EXCEPT ![r] = B[r] + 1 - Wt(h, r)]
  BY DEF RootB, r
<1> HIDE DEF B1
<1>12. B1 \in [L \cup {NULL} -> Nat] /\ B1[r] = B[r] + 1 - Wt(h, r) /\ \A n \in L \cup {NULL} : n # r => B1[n] = B[n]
  BY <1>5, <1>8, <1>10, <1>11
<1>13. Balanced(h1, L, B1, {})
  <2>1. B1[NULL] = 0
    BY <1>1, <1>5, <1>8, <1>12
  <2> SUFFICES ASSUME NEW n \in L, NEW d \in Dirs
               PROVE  B1[n] = B1[h1[n].sub[d]] + Wt(h1, n) + Gap({}, n, d)
    BY <1>12, <2>1 DEF Balanced
  <2>2. h1[n].sub[d] = h[n].sub[d] /\ h[n].sub[d] # r /\ h[n].sub[d] \in L \cup {NULL}
    BY <1>1, <1>2, <1>3
  <2>3. B1[h1[n].sub[d]] = B[h[n].sub[d]] /\ B[h[n].sub[d]] \in Nat
    BY <2>2, <1>8, <1>12
  <2>4. B[n] = B[h[n].sub[d]] + Wt(h, n) + Gap({}, n, d) /\ Gap({}, n, d) = 0
    BY <1>8 DEF Gap
  <2>5. CASE n = r
    <3>1. Wt(h1, n) = 1
      BY <1>3, <2>5 DEF Wt
    <3> QED BY <3>1, <2>3, <2>4, <2>5, <1>9, <1>12
  <2>6. CASE n # r
    <3>1. Wt(h1, n) = Wt(h, n)
      BY <1>1, <1>3, <2>6 DEF Wt
    <3>2. B1[n] = B[n]
      BY <2>6, <1>12
    <3> QED BY <3>1, <3>2, <2>3, <2>4
  <2> QED BY <2>5, <2>6
<1>14. RedFree(h1, L, {}, {})
  <2> SUFFICES ASSUME NEW n \in L, NEW d \in Dirs, IsRed(h1, n), IsRed(h1, h1[n].sub[d])
               PROVE  FALSE
    BY DEF RedFree
  <2>1. n # r
    BY <1>3 DEF IsRed
  <2>2. IsRed(h, n)
    BY <2>1, <1>1, <1>3 DEF IsRed
  <2>3. h1[n].sub[d] = h[n].sub[d] /\ h[n].sub[d] # r /\ h[n].sub[d] \in L \cup {NULL}
    BY <1>1, <1>2, <1>3
  <2>4. IsRed(h, h[n].sub[d])
    BY <2>3, <1>1, <1>3 DEF IsRed
  <2> QED BY <2>1, <2>2, <2>4 DEF RedFree, r
<1>15. ~IsRed(h1, RootOf(h1))
  BY <1>3, <1>6 DEF IsRed
<1> QED BY <1>4, <1>13, <1>14, <1>15 DEF Settled, B1

(* Arithmetic on path lengths. *)
LEMMA AtLeastThree ==
    ASSUME NEW i \in Nat, i >= 1, i # 1, i # 2
    PROVE  i >= 3
OBVIOUS

(* When the loop of HXrbtree_amov ends, only the root may be red. *)
LEMMA AmovDone ==
    ASSUME RbAssumption, NEW h, NEW L, NEW T, NEW B, NEW p, Adding(h, L, T, B, p),
           ~(Len(p) >= 3 /\ IsRed(h, Last(p).nd))
    PROVE  RedFree(h, L, {RootOf(h)}, {})
<1> SUFFICES ASSUME NEW n \in L, NEW d \in Dirs, IsRed(h, n), IsRed(h, h[n].sub[d]), n # RootOf(h)
             PROVE  FALSE
  BY DEF RedFree
<1>0. h \in Heap /\ Tree(h, L, T) /\ GoodPath(SubOf(h), L, p) /\ RedFree(h, L, {}, {End(h, p)})
  BY DEF Adding
<1>1. h[n].sub[d] = End(h, p) /\ h[n].sub[d] # NULL
  BY <1>0 DEF RedFree, IsRed
<1>2. Len(p) \in Nat /\ Len(p) >= 1 /\ Last(p) = p[Len(p)] /\ Len(p) \in 1 .. Len(p)
  BY <1>0, PathHeap
<1>3. Slot(L, p[Len(p)].nd, p[Len(p)].dir)
  BY <1>0, <1>2, PathHeap
<1>4. n = p[Len(p)].nd
  <2>1. Slot(L, n, d)
    BY DEF Slot
  <2> QED BY <2>1, <1>0, <1>1, <1>3, TreeSubs DEF End
<1>5. ROOT \notin L /\ p[1] = Hop(ROOT, RBT_LEFT) /\ \A i \in 1 .. Len(p) - 1 : h[p[i].nd].sub[p[i].dir] = p[i + 1].nd
  BY <1>0, TreeSubs, PathHeap
<1>6. Len(p) # 1
  BY <1>4, <1>5 DEF Hop
<1>7. Len(p) # 2
  <2> SUFFICES ASSUME Len(p) = 2 PROVE FALSE
    OBVIOUS
  <2>1. h[p[1].nd].sub[p[1].dir] = p[2].nd
    BY <1>5
  <2> QED BY <2>1, <1>4, <1>5 DEF Hop, RootOf
<1>8. Len(p) >= 3
  BY <1>2, <1>6, <1>7, AtLeastThree
<1>9. Last(p).nd = n
  BY <1>2, <1>4
<1> QED BY <1>8, <1>9

(* Painting the root black ends an add with a red-black tree. *)
LEMMA AddEndGood ==
    ASSUME RbAssumption, Good(node, call, items), AddEnd
    PROVE  Good(node', call', items') /\ SameEntries(node, node')
<1> DEFINE h == node
           L == InTreeOf(h, call)
           h1 == Paint(h, RootOf(h), "BLACK")
<1>0. /\ h \in Heap /\ call \in CallType /\ call.fn = "add" /\ call.pc \in {"amov", "blacken"}
      /\ FreeMemory(h) /\ CallOK(h, call) /\ items' = items /\ call' = Idle /\ call.nd \in AllocOf(h)
      /\ items = Cardinality(L) /\ L = AllocOf(h)
  BY DEF Good, CallOK, AddEnd, InTreeOf
<1>1. node' = h1
  BY DEF AddEnd, Root, RootOf
<1>2. \E T, B : Tree(h, L, T) /\ Balanced(h, L, B, {}) /\ RedFree(h, L, {RootOf(h)}, {})
  <2>1. CASE call.pc = "blacken"
    <3>1. PICK T : Tree(h, L, T)
      BY DEF Good
    <3>2. PICK B : Balanced(h, L, B, {})
      BY <2>1 DEF Good, Balance
    <3>3. RedFree(h, L, {}, {})
      BY <2>1 DEF Good, Balance
    <3> HIDE DEF L, h
    <3>4. RedFree(h, L, {RootOf(h)}, {})
      BY <3>3 DEF RedFree
    <3> QED BY <3>1, <3>2, <3>4
  <2>2. CASE call.pc = "amov" /\ ~RedRed(call.path)
    <3>1. PICK T, B : Adding(h, L, T, B, call.path)
      BY <2>2 DEF Good, Balance
    <3>2. ~(Len(call.path) >= 3 /\ IsRed(h, Last(call.path).nd))
      BY <2>2 DEF RedRed
    <3> HIDE DEF L, h
    <3>3. RedFree(h, L, {RootOf(h)}, {})
      BY <3>1, <3>2, AmovDone
    <3> QED BY <3>1, <3>3 DEF Adding
  <2> QED BY <2>1, <2>2 DEF AddEnd
<1> HIDE DEF L, h
<1>3. PICK T, B : Tree(h, L, T) /\ Balanced(h, L, B, {}) /\ RedFree(h, L, {RootOf(h)}, {})
  BY <1>2
<1>4. RootOf(h) \in L
  <2>1. RootOf(h) \in L \cup {NULL}
    BY <1>0, <1>3, TreeSubs DEF RootOf
  <2>2. T[SubOf(h)[ROOT][RBT_LEFT]] = L /\ T[NULL] = {} /\ SubOf(h)[ROOT] = h[ROOT].sub
    BY <1>3 DEF Tree, Shape, Subtrees, SubOf, Addr
  <2> QED BY <2>1, <2>2, <1>0 DEF RootOf
<1>5. RootOf(h) \in Addr
  BY <1>4, <1>0, <1>3, TreeSubs
<1>6. Painted(h, h1, RootOf(h), "BLACK")
  BY <1>0, <1>5, PaintIs
<1>7. Frame(h, h1, L)
  BY <1>0, <1>4, PaintFrame DEF Frame, Addr
<1> HIDE DEF h1
<1>8. Tree(h1, L, T) /\ Settled(h1, L, RootB(h, B))
  BY <1>0, <1>3, <1>4, <1>6, BlackRoot
<1>9. FreeMemory(h1) /\ AllocOf(h1) = AllocOf(h)
  BY <1>0, <1>6, <1>7, Carried DEF Painted
<1>10. Idle \in CallType /\ Idle.pc = "idle" /\ Idle.fn = "none"
  <2>1. <<>> \in Paths
    BY DEF Paths
  <2> QED BY <2>1 DEF Idle, CallType, Data
<1>11. InTreeOf(h1, Idle) = L /\ CallOK(h1, Idle)
  BY <1>0, <1>9, <1>10 DEF InTreeOf, CallOK
<1>12. Balance(h1, L, Idle)
  BY <1>8, <1>10 DEF Balance
<1>13. h1 \in Heap
  BY <1>6 DEF Painted
<1>14. Good(h1, Idle, items)
  BY <1>0, <1>8, <1>9, <1>10, <1>11, <1>12, <1>13 DEF Good
<1>15. SameEntries(h, h1)
  BY <1>6 DEF Painted
<1> QED BY <1>0, <1>1, <1>14, <1>15 DEF h

(* A step of HXrbtree_dmov: the loop is left with a red-black tree, or the *)
(* gap has moved.                                                          *)
Dmoved(h, h1, L, c, c1) ==
    /\ h1 \in Heap /\ SameEntries(h, h1) /\ Frame(h, h1, L)
    /\ \/ c1 = [c EXCEPT !.pc = "free"] /\ RedBlackTree(h, h1, L)
       \/ \E p1, T, B : c1 = [c EXCEPT !.path = p1] /\ Deleting(h1, L, T, B, p1)

(* A heap that is a red-black tree, in the two parts Good asks for. *)
LEMMA SettledIs ==
    ASSUME NEW h, NEW h1, NEW L, RedBlackTree(h, h1, L)
    PROVE  (\E T : Tree(h1, L, T)) /\ \E B : Settled(h1, L, B)
  BY DEF RedBlackTree, Rebalanced, Settled

(* A heap and call as Dmoved describes them satisfy the invariant. *)
LEMMA DmovedGood ==
    ASSUME RbAssumption, NEW h, NEW c, NEW it, Good(h, c, it), c.pc = "dmov",
           NEW h1, NEW c1, Dmoved(h, h1, InTreeOf(h, c), c, c1)
    PROVE  Good(h1, c1, it)
<1> DEFINE L == InTreeOf(h, c)
<1>0. /\ c \in CallType /\ CallOK(h, c) /\ h1 \in Heap /\ SameEntries(h, h1) /\ Frame(h, h1, L) /\ c.fn = "del"
      /\ L \subseteq Nodes
  BY DEF Good, Dmoved, CallOK, InTreeOf, AllocOf
<1>1. CASE c1 = [c EXCEPT !.pc = "free"] /\ RedBlackTree(h, h1, L)
  <2>1. c1 \in CallType /\ c1.fn = c.fn /\ c1.nd = c.nd /\ c1.pc = "free"
    BY <1>0, <1>1 DEF CallType
  <2>2. CallOK(h, c1)
    BY <1>0, <2>1 DEF CallOK
  <2>3. (\E T : Tree(h1, L, T)) /\ \E B : Settled(h1, L, B)
    BY <1>1, SettledIs
  <2>4. Balance(h1, L, c1)
    BY <2>1, <2>3 DEF Balance
  <2> QED BY <1>0, <2>1, <2>2, <2>3, <2>4, GoodStep
<1>2. ASSUME NEW p1, NEW T, NEW B, c1 = [c EXCEPT !.path = p1], Deleting(h1, L, T, B, p1)
      PROVE  Good(h1, c1, it)
  <2>0. p1 \in Paths
    BY <1>0, <1>2, GoodPathType DEF Deleting
  <2>1. c1 \in CallType /\ c1.fn = c.fn /\ c1.nd = c.nd /\ c1.pc = "dmov" /\ c1.path = p1
    BY <1>0, <1>2, <2>0 DEF CallType
  <2>2. CallOK(h, c1)
    BY <1>0, <2>1 DEF CallOK
  <2>3. Tree(h1, L, T)
    BY <1>2 DEF Deleting
  <2>4. Balance(h1, L, c1)
    BY <1>2, <2>1 DEF Balance
  <2> QED BY <1>0, <2>1, <2>2, <2>3, <2>4, GoodStep
<1> QED BY <1>1, <1>2 DEF Dmoved

(* Cases 3 to 6. *)
LEMMA Cases36Is ==
    ASSUME RbAssumption, NEW h, NEW L, NEW T, NEW B, NEW p, Deleting(h, L, T, B, p), Len(p) >= 2,
           NEW q, NEW d, NEW a, NEW e, NEW w, Kin(h, L, p, q, d, a, e, w), ~IsRed(h, End(h, p)),
           ~IsRed(h, w), Cases36(h, p, w)
    PROVE  Dmoved(h, node', L, call, call')
<1>0. /\ h \in Heap /\ Tree(h, L, T) /\ GoodPath(SubOf(h), L, p)
  BY DEF Deleting
<1>1. /\ p[Len(p)] = Hop(q, d) /\ q \in L /\ d \in Dirs /\ Other(d) \in Dirs /\ Other(d) # d
      /\ p[Len(p) - 1] = Hop(a, e) /\ w \in L /\ h[q].sub[Other(d)] = w
  BY DEF Kin
<1>2. Last(p) = p[Len(p)]
  BY <1>0, PathHeap
<1>3. Last(p).nd = q /\ Last(p).dir = d /\ {d, Other(d)} = Dirs
  BY <1>1, <1>2, DirFacts DEF Hop
<1>4. L \subseteq Addr /\ NULL \notin L /\ \A x \in Addr : h[x].color \in {"RED", "BLACK"}
  BY <1>0, TreeSubs
<1>5. CASE /\ \A f \in Dirs : ~IsRed(h, h[w].sub[f])
           /\ node' = Paint(h, w, "RED") /\ call' = [call EXCEPT !.path = Front(p)]
  <2>1. Painted(h, Paint(h, w, "RED"), w, "RED")
    BY <1>0, <1>1, <1>4, PaintIs
  <2>2. Frame(h, node', L)
    BY <1>0, <1>1, <1>5, PaintFrame DEF Frame, Addr
  <2>3. h[w].color = "BLACK"
    BY <1>1, <1>4 DEF IsRed
  <2>4. Painted(h, node', w, "RED")
    BY <2>1, <1>5
  <2>5. Deleting(node', L, T, ShortB(B, q, w), Front(p))
    BY <2>3, <2>4, <1>5, MoveUp
  <2>6. node' \in Heap /\ SameEntries(h, node')
    BY <2>4 DEF Painted
  <2> QED BY <2>2, <2>5, <2>6, <1>5 DEF Dmoved
<1>6. CASE /\ \E f \in Dirs : IsRed(h, h[w].sub[f])
           /\ call' = [call EXCEPT !.pc = "free"]
           /\ node' = Far(Near(h, q, d, w), a, e, q, Other(d), Near(h, q, d, w)[q].sub[Other(d)])
  <2> DEFINE h5 == Near(h, q, d, w)
  <2>1. RedBlackTree(h, Far(h5, a, e, q, Other(d), h5[q].sub[Other(d)]), L)
    BY <1>6, CloseUp
  <2>2. Frame(h, Far(h5, a, e, q, Other(d), h5[q].sub[Other(d)]), L)
    BY <1>6, CloseFrame
  <2>3. RedBlackTree(h, node', L) /\ Frame(h, node', L)
    BY <2>1, <2>2, <1>6
  <2>4. node' \in Heap /\ SameEntries(h, node')
    BY <2>3 DEF RedBlackTree, Rebalanced
  <2> QED BY <2>3, <2>4, <1>6 DEF Dmoved
<1>7. \/ /\ \A f \in Dirs : ~IsRed(h, h[w].sub[f])
         /\ node' = Paint(h, w, "RED") /\ call' = [call EXCEPT !.path = Front(p)]
      \/ /\ \E f \in Dirs : IsRed(h, h[w].sub[f])
         /\ call' = [call EXCEPT !.pc = "free"]
         /\ node' = Far(Near(h, q, d, w), a, e, q, Other(d), Near(h, q, d, w)[q].sub[Other(d)])
  BY ZenonT(30), <1>1, <1>3 DEF Cases36, DmovEnd, Near, Far
<1> QED BY <1>5, <1>6, <1>7

(* Dmoved after a step that keeps entries and touches only nodes of the    *)
(* tree.                                                                   *)
LEMMA FrameTrans ==
    ASSUME NEW h, NEW h1, NEW h2, NEW L, NEW c, NEW c1, Dmoved(h1, h2, L, c, c1), Frame(h, h1, L), SameEntries(h, h1)
    PROVE  Dmoved(h, h2, L, c, c1)
<1>1. SameEntries(h, h2) /\ Frame(h, h2, L)
  BY DEF Dmoved, SameEntries, Frame
<1>2. RedBlackTree(h1, h2, L) => RedBlackTree(h, h2, L)
  BY <1>1 DEF RedBlackTree, Rebalanced
<1> QED BY <1>1, <1>2 DEF Dmoved

(* Case 2 on the heap h. *)
TurnHeap(h, a, e, q, d, w) == Rotate(Paint(Paint(h, w, "BLACK"), q, "RED"), Hop(a, e), q, Other(d))

(* The rotation for a red sibling changes no node outside the tree. *)
LEMMA TurnFrame ==
    ASSUME RbAssumption, NEW h \in Heap, NEW L, L \subseteq Nodes, NEW a, NEW e, Slot(L, a, e),
           NEW q \in L, NEW d \in Dirs, NEW w \in L, h[q].sub[Other(d)] = w
    PROVE  Frame(h, TurnHeap(h, a, e, q, d, w), L)
<1> SUFFICES ASSUME NEW y \in Nodes \ L PROVE TurnHeap(h, a, e, q, d, w)[y] = h[y]
  BY DEF Frame
<1> DEFINE h1 == Paint(h, w, "BLACK")
           h2 == Paint(h1, q, "RED")
           o == Other(d)
<1>0. /\ y \in Addr /\ y \notin {a, q, w} /\ q \in Addr /\ w \in Addr /\ q \in Nodes /\ w \in Nodes
      /\ a \in Addr /\ e \in Dirs /\ o \in Dirs /\ h[q].sub[o] = w
  BY DirFacts DEF Addr, Slot, RbAssumption, Dirs
<1>1. Painted(h, h1, w, "BLACK")
  BY <1>0, PaintIs
<1>2. h1 \in Heap /\ h1[y] = h[y] /\ h1[q].sub = h[q].sub
  BY <1>0, <1>1, PaintFrame DEF Painted
<1> HIDE DEF h1
<1>3. Painted(h1, h2, q, "RED")
  BY <1>0, <1>2, PaintIs
<1>4. h2 \in Heap /\ h2[y] = h1[y] /\ h2[q].sub = h1[q].sub
  BY <1>0, <1>2, <1>3, PaintFrame DEF Painted
<1> HIDE DEF h2, o
<1>5. h2[q].sub[o] = w
  BY <1>0, <1>2, <1>4
<1>6. Rotate(h2, Hop(a, e), q, o)[y] = h2[y]
  BY <1>0, <1>4, <1>5, RotateFrame
<1> QED BY <1>2, <1>4, <1>6 DEF TurnHeap, h1, h2, o

(* An iteration of HXrbtree_dmov ends the rebalancing or leaves what the   *)
(* next one expects, in each of its cases.                                 *)
LEMMA DmovStep ==
    ASSUME RbAssumption, NEW L, NEW T, NEW B, Deleting(node, L, T, B, call.path), HXrbtree_dmov
    PROVE  Dmoved(node, node', L, call, call')
<1> DEFINE p == call.path
           h == node
           q == p[Len(p)].nd
           d == p[Len(p)].dir
           a == p[Len(p) - 1].nd
           e == p[Len(p) - 1].dir
           w == h[q].sub[Other(d)]
           x == End(h, p)
           h2 == TurnHeap(h, a, e, q, d, w)
           p2 == RedSiblingPath(p, q, d, w)
<1>0. /\ h \in Heap /\ Tree(h, L, T) /\ GoodPath(SubOf(h), L, p) /\ Deleting(h, L, T, B, p)
  BY DEF Deleting
<1>1. Last(p) = p[Len(p)] /\ Len(p) \in Nat /\ Len(p) >= 1 /\ End(h, p) \in L \cup {NULL}
  BY <1>0, PathHeap
<1>2. L \subseteq Addr /\ L \subseteq Nodes /\ NULL \notin L /\ ROOT \notin L
  BY <1>0, TreeSubs
<1>3. Len(p) >= 2 => p[Len(p) - 1] = Hop(a, e)
  <2> SUFFICES ASSUME Len(p) >= 2 PROVE p[Len(p) - 1] = Hop(a, e)
    OBVIOUS
  <2>1. Kin(h, L, p, q, d, a, e, w)
    BY <1>0, KinIs
  <2> QED BY <2>1 DEF Kin
<1>4. \/ IsRed(h, x) /\ node' = Paint(h, x, "BLACK") /\ call' = [call EXCEPT !.pc = "free"]
      \/ ~IsRed(h, x) /\ Len(p) < 2 /\ node' = h /\ call' = [call EXCEPT !.pc = "free"]
      \/ ~IsRed(h, x) /\ Len(p) >= 2 /\ ~IsRed(h, w) /\ Cases36(h, p, w)
      \/ ~IsRed(h, x) /\ Len(p) >= 2 /\ IsRed(h, w) /\ Cases36(h2, p2, h2[q].sub[Other(d)])
  BY <1>1, <1>3 DEF HXrbtree_dmov, DmovEnd, End, TurnHeap, RedSiblingPath
<1> HIDE DEF h, q, d, a, e, w, x, h2, p2, p
<1>5. CASE IsRed(h, x) /\ node' = Paint(h, x, "BLACK") /\ call' = [call EXCEPT !.pc = "free"]
  <2>1. x \in L /\ x = End(h, p) /\ x \in Addr
    BY <1>1, <1>2, <1>5 DEF x, IsRed
  <2>2. Painted(h, node', x, "BLACK")
    BY <2>1, <1>0, <1>5, PaintIs
  <2>3. RedBlackTree(h, node', L)
    BY <2>1, <2>2, <1>0, <1>5, PaintEnd
  <2>4. Frame(h, node', L)
    BY <2>1, <1>0, <1>5, PaintFrame DEF Frame, Addr
  <2>5. node' \in Heap /\ SameEntries(h, node')
    BY <2>2 DEF Painted
  <2> QED BY <2>3, <2>4, <2>5, <1>5 DEF Dmoved, h
<1>6. CASE ~IsRed(h, x) /\ Len(p) < 2 /\ node' = h /\ call' = [call EXCEPT !.pc = "free"]
  <2>1. RedBlackTree(h, h, L)
    BY <1>0, <1>6, EndAtRoot DEF x
  <2>2. Frame(h, h, L) /\ SameEntries(h, h)
    BY DEF Frame, SameEntries
  <2> QED BY <2>1, <2>2, <1>0, <1>6 DEF Dmoved, h
<1>7. ASSUME ~IsRed(h, x), Len(p) >= 2
      PROVE  Kin(h, L, p, q, d, a, e, w) /\ ~IsRed(h, End(h, p)) /\ RedFree(h, L, {}, {})
  BY <1>0, <1>7, KinIs DEF q, d, a, e, w, x
<1>8. CASE ~IsRed(h, x) /\ Len(p) >= 2 /\ ~IsRed(h, w) /\ Cases36(h, p, w)
  BY <1>0, <1>7, <1>8, Cases36Is DEF h
<1>9. CASE ~IsRed(h, x) /\ Len(p) >= 2 /\ IsRed(h, w) /\ Cases36(h2, p2, h2[q].sub[Other(d)])
  <2>1. Kin(h, L, p, q, d, a, e, w) /\ ~IsRed(h, End(h, p)) /\ RedFree(h, L, {}, {})
    BY <1>7, <1>9
  <2>2. /\ q \in L /\ d \in Dirs /\ Other(d) \in Dirs /\ Slot(L, a, e) /\ h[a].sub[e] = q
        /\ h[q].sub[Other(d)] = w /\ w \in L
    BY <2>1 DEF Kin
  <2>3. h[q].color = "BLACK"
    <3>1. h[q].color \in {"RED", "BLACK"}
      BY <2>2, <1>0, <1>2, TreeSubs
    <3>2. ~IsRed(h, q)
      BY <2>1, <2>2, <1>9 DEF RedFree
    <3> QED BY <3>1, <3>2, <2>2, <1>2 DEF IsRed
  <2>4. Swung(h, h2, L, a, e, q, Other(d), w)
    BY <2>2, <2>3, <1>0, PaintThenRotate DEF h2, TurnHeap
  <2>5. Frame(h, h2, L)
    BY <2>2, <1>0, <1>2, TurnFrame DEF h2
  <2>6. RedSiblingDone(h, h2, L, p2, q, d, w)
    BY <2>1, <2>3, <2>4, <1>0, <1>9, RedSibling DEF p2
  <2>7. PICK T2, B2 : Deleting(h2, L, T2, B2, p2)
    BY <2>6 DEF RedSiblingDone
  <2>8. Len(p2) = Len(p) + 1 /\ p2[Len(p) + 1] = Hop(q, d) /\ p2[Len(p)] = Hop(w, d)
    <3>1. h2 \in Heap /\ Rotated(SubOf(h), SubOf(h2), a, e, q, Other(d), w)
      BY <2>4 DEF Swung
    <3>2. p[Len(p)] = Hop(q, d) /\ p[Len(p) - 1] = Hop(a, e)
      BY <2>1 DEF Kin
    <3> QED BY <3>1, <3>2, <2>2, <1>0, <1>9, TurnPath DEF p2
  <2>9. Len(p2) >= 2 /\ p2[Len(p2)].nd = q /\ p2[Len(p2)].dir = d /\ p2[Len(p2) - 1].nd = w /\ p2[Len(p2) - 1].dir = d
    <3>1. Len(p) + 1 - 1 = Len(p) /\ Len(p) + 1 >= 2
      BY <1>1
    <3> QED BY <3>1, <2>8 DEF Hop
  <2>10. Kin(h2, L, p2, q, d, w, d, h2[q].sub[Other(d)])
    BY <2>7, <2>9, KinIs
  <2>11. ~IsRed(h2, End(h2, p2)) /\ ~IsRed(h2, h2[q].sub[Other(d)]) /\ SameEntries(h, h2)
    BY <2>6 DEF RedSiblingDone
  <2>12. Dmoved(h2, node', L, call, call')
    BY <2>7, <2>9, <2>10, <2>11, <1>9, Cases36Is
  <2>13. Dmoved(h, node', L, call, call')
    BY <2>5, <2>11, <2>12, FrameTrans
  <2> QED BY <2>13 DEF h
<1> QED BY <1>4, <1>5, <1>6, <1>8, <1>9

(* An iteration of HXrbtree_dmov keeps the invariant and every entry. *)
LEMMA DmovGood ==
    ASSUME RbAssumption, Good(node, call, items), HXrbtree_dmov
    PROVE  Good(node', call', items') /\ SameEntries(node, node')
<1>1. call.pc = "dmov" /\ items' = items
  BY DEF HXrbtree_dmov
<1>2. PICK T, B : Deleting(node, InTreeOf(node, call), T, B, call.path)
  BY <1>1 DEF Good, Balance
<1>3. Dmoved(node, node', InTreeOf(node, call), call, call')
  BY <1>2, DmovStep
<1>4. SameEntries(node, node')
  BY <1>3 DEF Dmoved
<1> QED BY <1>1, <1>3, <1>4, DmovedGood

(* No call under way. *)
LEMMA IdleIs == Idle \in CallType /\ Idle.pc = "idle" /\ Idle.fn = "none"
<1>1. <<>> \in Paths
  BY DEF Paths
<1> QED BY <1>1 DEF Idle, CallType, Data

(* The end of HXrbtree_del. *)
LEMMA DelEndGood ==
    ASSUME RbAssumption, Good(node, call, items), DelEnd
    PROVE  Good(node', call', items')
<1> DEFINE h == node
           n == call.nd
           L == InTreeOf(h, call)
           h1 == [h EXCEPT ![n] = Freed]
<1>0. /\ h \in Heap /\ call \in CallType /\ call.pc = "free" /\ call.fn = "del" /\ items' = items /\ call' = Idle
      /\ FreeMemory(h) /\ CallOK(h, call) /\ items = Cardinality(L) /\ n \in AllocOf(h)
      /\ node' = h1 /\ L = AllocOf(h) \ {n}
  BY DEF Good, DelEnd, CallOK, InTreeOf
<1>1. PICK T : Tree(h, L, T)
  BY DEF Good
<1>2. PICK B : Settled(h, L, B)
  BY <1>0 DEF Good, Balance
<1> HIDE DEF h, n, L
<1>3. /\ n \in Nodes /\ n \in Addr /\ n \notin L /\ L \subseteq Addr /\ ROOT \in Addr /\ n # ROOT /\ L \subseteq Nodes
      /\ RootOf(h) \in L \cup {NULL}
      /\ \A y \in L, f \in Dirs : h[y].sub[f] \in L \cup {NULL}
  BY <1>0, <1>1, TreeSubs DEF AllocOf, Addr, RbAssumption, RootOf
<1>4. h1 \in Heap /\ h1[n] = Freed /\ \A y \in Addr : y # n => h1[y] = h[y]
  BY <1>0, <1>3, FreedIs DEF Heap
<1> HIDE DEF h1
<1>5. AllocOf(h1) = L /\ FreeMemory(h1)
  BY <1>0, <1>3, <1>4, FreedIs DEF AllocOf, FreeMemory, Addr
<1>6. InTreeOf(h1, Idle) = L /\ CallOK(h1, Idle)
  BY <1>5, IdleIs DEF InTreeOf, CallOK
<1>7. Tree(h1, L, T)
  <2>0. /\ \A y \in Addr : y # n => KeyOf(h1)[y] = KeyOf(h)[y] /\ SubOf(h1)[y] = SubOf(h)[y]
        /\ \A f \in Dirs : SubOf(h1)[n][f] = NULL
        /\ SubOf(h1) \in Subs
    <3>1. SubOf(h1) \in Subs
      BY <1>4, HeapSubs
    <3>2. \A y \in Addr : y # n => KeyOf(h1)[y] = KeyOf(h)[y] /\ SubOf(h1)[y] = SubOf(h)[y]
      BY <1>4 DEF KeyOf, SubOf
    <3>3. SubOf(h1)[n] = Freed.sub
      BY <1>3, <1>4 DEF SubOf
    <3> QED BY <3>1, <3>2, <3>3, FreedIs
  <2> DEFINE k == KeyOf(h)
             k1 == KeyOf(h1)
             s == SubOf(h)
             s1 == SubOf(h1)
  <2>1. Shape(k, s, L, T) /\ Outside(s, L) /\ IsFiniteSet(L)
    BY <1>1 DEF Tree
  <2>2. \A y \in L \cup {ROOT} : k1[y] = k[y] /\ s1[y] = s[y]
    BY <2>0, <1>3
  <2>2a. \A y \in Nodes : y # n => s1[y] = s[y]
    BY <2>0 DEF Addr
  <2>2b. \A f \in Dirs : s1[n][f] = NULL
    BY <2>0
  <2>2c. s1 \in Subs
    BY <2>0
  <2> HIDE DEF k, k1, s, s1
  <2>3. Subtrees(s1, L, T)
    BY <2>1, <2>2 DEF Shape, Subtrees
  <2>4. Ordered(k1, s1, L, T)
    <3> SUFFICES ASSUME NEW y \in L, NEW f \in Dirs, NEW m \in T[s1[y][f]] PROVE Side(k1, f, m, y)
      BY DEF Ordered
    <3>1. s1[y][f] = s[y][f] /\ k1[y] = k[y]
      BY <2>2
    <3>2. m \in L
      BY <3>1, <2>1 DEF Shape, Subtrees
    <3>3. Side(k, f, m, y)
      BY <3>1, <2>1 DEF Shape, Ordered
    <3> QED BY <3>1, <3>2, <3>3, <2>2 DEF Side
  <2>5. Parents(s1, L, T)
    BY <2>1, <2>2 DEF Shape, Parents
  <2>6. Shape(k1, s1, L, T)
    BY <2>1, <2>2, <2>2c, <2>3, <2>4, <2>5 DEF Shape
  <2>7. Outside(s1, L)
    BY <2>1, <2>2a, <2>2b DEF Outside
  <2> QED BY <2>1, <2>6, <2>7 DEF Tree, k1, s1
<1>8. Settled(h1, L, B)
  <2>1. \A y \in L : h1[y] = h[y]
    BY <1>3, <1>4
  <2>2. \A y \in L : Wt(h1, y) = Wt(h, y)
    BY <2>1 DEF Wt
  <2>3. \A y \in L \cup {NULL} : IsRed(h1, y) = IsRed(h, y)
    BY <2>1 DEF IsRed
  <2>4. RootOf(h1) = RootOf(h)
    BY <1>3, <1>4 DEF RootOf
  <2>5. Balanced(h1, L, B, {})
    BY <2>1, <2>2, <1>2 DEF Settled, Balanced
  <2>6. RedFree(h1, L, {}, {})
    BY <2>1, <2>3, <1>2, <1>3 DEF Settled, RedFree
  <2> QED BY <2>3, <2>4, <2>5, <2>6, <1>2, <1>3 DEF Settled
<1>9. Balance(h1, L, Idle)
  BY <1>8, IdleIs DEF Balance
<1>10. Good(h1, Idle, items)
  BY <1>0, <1>4, <1>5, <1>6, <1>7, <1>9, IdleIs DEF Good
<1> QED BY <1>0, <1>10

-----------------------------------------------------------------------------
(* The inductive invariant of the specification, and what follows from it. *)

(* A sorted sequence holds each node once. *)
LEMMA SortedLen ==
    ASSUME NEW k, NEW q, NEW X, Sorted(k, q, X), \A x \in X : k[x] \in Int
    PROVE  Range(q) = X /\ Len(q) \in Nat /\ Len(q) = Cardinality(X) /\ IsFiniteSet(X)
<1>1. q \in Seq(X) /\ X = {q[i] : i \in 1 .. Len(q)} /\ \A i, j \in 1 .. Len(q) : i < j => k[q[i]] < k[q[j]]
  BY DEF Sorted
<1>2. Len(q) \in Nat /\ DOMAIN q = 1 .. Len(q) /\ q \in [1 .. Len(q) -> X]
  BY <1>1
<1>3. Range(q) = X
  BY <1>1, <1>2 DEF Range
<1>4. \A i, j \in 1 .. Len(q) : q[i] = q[j] => i = j
  <2> SUFFICES ASSUME NEW i \in 1 .. Len(q), NEW j \in 1 .. Len(q), q[i] = q[j], i # j PROVE FALSE
    OBVIOUS
  <2>1. k[q[i]] \in Int /\ k[q[j]] \in Int
    BY <1>2
  <2>2. i < j \/ j < i
    BY <1>2
  <2> QED BY SMTT(30), <2>1, <2>2, <1>1
<1>5. q \in Injection(1 .. Len(q), X)
  BY <1>2, <1>4 DEF Injection, IsInjective
<1>6. q \in Surjection(1 .. Len(q), X)
  BY <1>1, <1>2 DEF Surjection
<1>7. q \in Bijection(1 .. Len(q), X)
  BY <1>5, <1>6 DEF Bijection
<1>8. ExistsBijection(1 .. Len(q), X)
  BY <1>7 DEF ExistsBijection
<1>9. IsFiniteSet(1 .. Len(q)) /\ Cardinality(1 .. Len(q)) = Len(q)
  <2>1. 1 \in Int /\ Len(q) \in Int
    BY <1>2
  <2>2. IsFiniteSet(1 .. Len(q)) /\ Cardinality(1 .. Len(q)) = IF 1 > Len(q) THEN 0 ELSE Len(q) - 1 + 1
    BY <2>1, FS_Interval
  <2> QED BY <2>2, <1>2
<1>10. IsFiniteSet(X) /\ Cardinality(X) = Cardinality(1 .. Len(q))
  BY <1>8, <1>9, FS_Bijection
<1> QED BY <1>2, <1>3, <1>9, <1>10

(* What the tree read in order is. *)
LEMMA InOrderIs ==
    ASSUME RbAssumption, node \in Heap, NEW L, NEW T, Tree(node, L, T)
    PROVE  /\ Sorted(KeyOf(node), InOrder(Root), L)
           /\ Range(InOrder(Root)) = L /\ Len(InOrder(Root)) \in Nat /\ Len(InOrder(Root)) = Cardinality(L)
<1>1. Root \in L \cup {NULL}
  BY TreeSubs DEF Root
<1>2. T[Root] = L
  <2>1. T[SubOf(node)[ROOT][RBT_LEFT]] = L
    BY DEF Tree, Shape
  <2>2. SubOf(node)[ROOT] = node[ROOT].sub
    BY DEF SubOf, Addr
  <2> QED BY <2>1, <2>2 DEF Root
<1>3. Sorted(KeyOf(node), InOrder(Root), L)
  BY <1>1, <1>2, InOrderSorted
<1>4. \A x \in L : KeyOf(node)[x] \in Int
  BY DEF Tree, Shape
<1> QED BY <1>3, <1>4, SortedLen

(* A tree of no nodes. *)
LEMMA EmptyGood ==
    ASSUME RbAssumption, NEW c \in CallType, c.pc = "idle", c.fn = "none"
    PROVE  Good([a \in Addr |-> Freed], c, 0) /\ AllocOf([a \in Addr |-> Freed]) = {}
<1> DEFINE h == [a \in Addr |-> Freed]
           T == [m \in {NULL} |-> {}]
           B == [m \in {NULL} |-> 0]
<1>1. h \in Heap /\ \A a \in Addr : h[a] = Freed
  BY FreedIs DEF Heap
<1>2. h[ROOT] = Freed /\ (\A a \in Nodes : h[a] = Freed) /\ ROOT \in Addr
  BY <1>1 DEF Addr
<1> HIDE DEF h
<1>3. AllocOf(h) = {} /\ InTreeOf(h, c) = {} /\ FreeMemory(h)
  BY <1>2, FreedIs DEF AllocOf, InTreeOf, FreeMemory
<1>4. CallOK(h, c)
  BY DEF CallOK
<1>5. RootOf(h) = NULL
  BY <1>2, FreedIs DEF RootOf, Dirs
<1>6. Tree(h, {}, T)
  <2>1. SubOf(h) \in Subs /\ SubOf(h)[ROOT][RBT_LEFT] = NULL
    <3>1. SubOf(h)[ROOT] = h[ROOT].sub
      BY <1>2 DEF SubOf
    <3> QED BY <3>1, <1>1, <1>5, HeapSubs DEF RootOf
  <2>2. Outside(SubOf(h), {})
    <3> SUFFICES ASSUME NEW n \in Nodes, NEW f \in Dirs PROVE SubOf(h)[n][f] = NULL
      BY DEF Outside
    <3>1. SubOf(h)[n] = Freed.sub
      BY <1>2 DEF SubOf, Addr
    <3> QED BY <3>1, FreedIs
  <2>3. T \in [{} \cup {NULL} -> SUBSET {}] /\ T[NULL] = {}
    OBVIOUS
  <2> HIDE DEF T
  <2>4. Subtrees(SubOf(h), {}, T)
    BY <2>3 DEF Subtrees
  <2>5. Shape(KeyOf(h), SubOf(h), {}, T)
    BY <2>1, <2>3, <2>4 DEF Shape, Ordered, Nested, Parents
  <2>6. IsFiniteSet({})
    BY FS_EmptySet
  <2> QED BY <2>2, <2>5, <2>6 DEF Tree
<1>7. Settled(h, {}, B)
  <2>1. B \in [{} \cup {NULL} -> Nat] /\ B[NULL] = 0
    OBVIOUS
  <2> HIDE DEF B
  <2>2. Balanced(h, {}, B, {}) /\ RedFree(h, {}, {}, {})
    BY <2>1 DEF Balanced, RedFree
  <2>3. ~IsRed(h, RootOf(h))
    BY <1>5 DEF IsRed
  <2> QED BY <2>2, <2>3 DEF Settled
<1>8. Balance(h, {}, c)
  BY <1>7 DEF Balance
<1>9. Cardinality({}) = 0
  BY FS_EmptySet
<1> QED BY <1>1, <1>3, <1>4, <1>6, <1>8, <1>9 DEF Good, h

(* HXrbtree_free reaches every node. *)
LEMMA FreeGood ==
    ASSUME RbAssumption, Good(node, call, items), HXrbtree_free
    PROVE  Good(node', call', items') /\ AllocOf(node') = {}
<1>0. call.pc = "idle" /\ call.fn = "none" /\ call' = call /\ items' = 0 /\ call \in CallType /\ node \in Heap /\ FreeMemory(node)
  BY DEF Good, CallOK, HXrbtree_free, Ready
<1>1. InTreeOf(node, call) = AllocOf(node)
  BY <1>0 DEF InTreeOf
<1>2. PICK T : Tree(node, AllocOf(node), T)
  BY <1>1 DEF Good
<1>3. Range(InOrder(Root)) = AllocOf(node)
  BY <1>0, <1>2, InOrderIs
<1>4. node' = [a \in Addr |-> Freed]
  <2>1. node' = [a \in Addr |-> IF a = ROOT \/ a \in AllocOf(node) THEN Freed ELSE node[a]]
    BY <1>3 DEF HXrbtree_free
  <2>2. \A a \in Addr : a = ROOT \/ a \in AllocOf(node) \/ node[a] = Freed
    BY <1>0 DEF FreeMemory, Addr
  <2> QED BY <2>1, <2>2
<1> QED BY <1>0, <1>4, EmptyGood

(* The inductive invariant. *)
RbInv ==
    /\ Good(node, call, items)
    /\ alive \in BOOLEAN
    /\ ~alive => AllocOf(node) = {} /\ call.pc = "idle"

(* The invariant holds initially. *)
LEMMA InitInv == RbAssumption /\ Init => RbInv
<1> SUFFICES ASSUME RbAssumption, Init PROVE RbInv
  OBVIOUS
<1>1. call \in CallType /\ call.pc = "idle" /\ call.fn = "none" /\ items = 0 /\ node = [a \in Addr |-> Freed] /\ alive = FALSE
  BY IdleIs DEF Init
<1> QED BY <1>1, EmptyGood DEF RbInv

(* HXmap_add, in each of its outcomes, keeps the invariant. *)
LEMMA AddGood ==
    ASSUME RbAssumption, Good(node, call, items), NEW k \in Keys, NEW v \in Data, HXmap_add(k, v)
    PROVE  Good(node', call', items')
<1>0. call.pc = "idle" /\ call.fn = "none" /\ node \in Heap /\ InTreeOf(node, call) = AllocOf(node)
  BY DEF Good, CallOK, HXmap_add, Ready, InTreeOf
<1>1. CASE node' = node /\ call' = call /\ items' = items
  BY <1>1
<1>2. CASE HXrbtree_find(k) # NULL /\ HXrbtree_replace(HXrbtree_find(k), k, v) /\ call' = call /\ items' = items
  <2>1. CASE node' = node
    BY <2>1, <1>2
  <2>2. CASE node' = [node EXCEPT ![HXrbtree_find(k)].data = v]
    <3>1. PICK T : Tree(node, AllocOf(node), T)
      BY <1>0 DEF Good
    <3>2. k \in Int
      BY DEF RbAssumption
    <3>3. HXrbtree_find(k) \in AllocOf(node)
      BY <3>1, <3>2, <1>2, PathToIs DEF Found
    <3>4. Good([node EXCEPT ![HXrbtree_find(k)].data = v], call, items)
      BY <3>3, <1>0, GoodData
    <3> QED BY <3>4, <2>2, <1>2
  <2> QED BY <2>1, <2>2, <1>2 DEF HXrbtree_replace
<1>3. CASE HXrbtree_find(k) = NULL /\ AddLink(k, v)
  <2> DEFINE p == PathTo(k)
  <2>1. PICK n \in Malloc[k] \ Allocated :
           /\ node' = Link([node EXCEPT ![n] = NewNode(k, v)], Last(p).nd, Last(p).dir, n)
           /\ call' = [fn |-> "add", pc |-> "amov", key |-> k, val |-> v, nd |-> n, path |-> p]
    BY <1>3 DEF AddLink
  <2>2. n \in Nodes /\ n \notin AllocOf(node) /\ items' = items + 1
    BY <2>1, <1>3 DEF AddLink, RbAssumption, Allocated, AllocOf
  <2>3. Good(Link([node EXCEPT ![n] = NewNode(k, v)], Last(p).nd, Last(p).dir, n),
             [fn |-> "add", pc |-> "amov", key |-> k, val |-> v, nd |-> n, path |-> p], items + 1)
    BY <2>2, <1>0, <1>3, GoodAdd
  <2> QED BY <2>1, <2>2, <2>3
<1> QED BY <1>1, <1>2, <1>3 DEF HXmap_add, AddNoMem

(* HXmap_del, in each of its outcomes, keeps the invariant. *)
LEMMA DelCallGood ==
    ASSUME RbAssumption, Good(node, call, items), NEW k \in Keys, HXmap_del(k)
    PROVE  Good(node', call', items')
<1>0. call.pc = "idle"
  BY DEF HXmap_del, Ready
<1>1. CASE node' = node /\ call' = call /\ items' = items
  BY <1>1
<1>2. CASE HXrbtree_find(k) # NULL /\ DelUnlink(PathTo(k), HXrbtree_find(k))
  BY <1>0, <1>2, DelGood
<1> QED BY <1>1, <1>2 DEF HXmap_del

(* Every step keeps the invariant. *)
LEMMA NextInv == RbAssumption /\ RbInv /\ [Next]_vars => RbInv'
<1> SUFFICES ASSUME RbAssumption, RbInv, [Next]_vars PROVE RbInv'
  OBVIOUS
<1>0. Good(node, call, items) /\ alive \in BOOLEAN /\ (~alive => AllocOf(node) = {} /\ call.pc = "idle")
  BY DEF RbInv
<1>1. ASSUME Good(node', call', items'), alive' = alive, alive PROVE RbInv'
  BY <1>1 DEF RbInv
<1>2. ASSUME node' = node, call' = call, items' = items, alive' \in BOOLEAN, alive' = alive \/ alive' PROVE RbInv'
  BY <1>0, <1>2 DEF RbInv
<1>3. CASE HXrbtree_init4
  BY <1>0, <1>2, <1>3 DEF HXrbtree_init4
<1>4. CASE SetFlags
  BY <1>0, <1>2, <1>4 DEF SetFlags
<1>5. ASSUME NEW k \in Keys, HXmap_get(k) PROVE RbInv'
  BY <1>0, <1>2, <1>5 DEF HXmap_get
<1>6. ASSUME NEW k \in Keys, HXmap_del(k) PROVE RbInv'
  <2>1. alive /\ alive' = alive
    BY <1>6 DEF HXmap_del, Ready
  <2> QED BY <2>1, <1>0, <1>1, <1>6, DelCallGood
<1>7. ASSUME NEW k \in Keys, NEW v \in Data, HXmap_add(k, v) PROVE RbInv'
  <2>1. alive /\ alive' = alive
    BY <1>7 DEF HXmap_add, Ready
  <2> QED BY <2>1, <1>0, <1>1, <1>7, AddGood
<1>8. CASE HXrbtree_amov
  <2>1. alive /\ alive' = alive
    BY <1>0, <1>8 DEF HXrbtree_amov
  <2> QED BY <2>1, <1>0, <1>1, <1>8, AmovGood
<1>9. CASE AddEnd
  <2>1. alive /\ alive' = alive
    BY <1>0, <1>9 DEF AddEnd
  <2> QED BY <2>1, <1>0, <1>1, <1>9, AddEndGood
<1>10. CASE HXrbtree_dmov
  <2>1. alive /\ alive' = alive
    BY <1>0, <1>10 DEF HXrbtree_dmov
  <2> QED BY <2>1, <1>0, <1>1, <1>10, DmovGood
<1>11. CASE DelEnd
  <2>1. alive /\ alive' = alive
    BY <1>0, <1>11 DEF DelEnd
  <2> QED BY <2>1, <1>0, <1>1, <1>11, DelEndGood
<1>12. ASSUME NEW t \in Travs, HXmap_travinit(t) \/ HXrbtree_traverse(t) \/ HXmap_travfree(t) PROVE RbInv'
  <2>1. node' = node /\ call' = call /\ items' = items /\ alive' = alive
    BY <1>12 DEF HXmap_travinit, HXrbtree_traverse, HXmap_travfree
  <2> QED BY <2>1, <1>0, <1>2
<1>13. CASE HXrbtree_free
  <2>1. Good(node', call', items') /\ AllocOf(node') = {}
    BY <1>0, <1>13, FreeGood
  <2>2. alive' = FALSE /\ call'.pc = "idle"
    BY <1>13 DEF HXrbtree_free, Ready
  <2> QED BY <2>1, <2>2 DEF RbInv
<1>14. CASE UNCHANGED vars
  <2>1. node' = node /\ call' = call /\ items' = items /\ alive' = alive
    BY <1>14 DEF vars
  <2> QED BY <2>1, <1>0, <1>2
<1> QED BY <1>3, <1>4, <1>5, <1>6, <1>7, <1>8, <1>9, <1>10, <1>11, <1>12, <1>13, <1>14 DEF Next

(* RbInv holds throughout: at every step of every add and delete the nodes *)
(* form a search tree over exactly the allocated nodes, the recorded path  *)
(* leads where the loops of HXrbtree_amov and HXrbtree_dmov take it to     *)
(* lead, and the tree is red-black but for the one place they are at work  *)
(* on.                                                                     *)
THEOREM Invariant == Spec => []RbInv
<1>1. Init => RbInv
  BY InitInv, RbAssumption
<1>2. RbInv /\ [Next]_vars => RbInv'
  BY NextInv, RbAssumption
<1> QED BY <1>1, <1>2, PTL DEF Spec

(* The invariant implies that the tree is ordered and holds each allocated *)
(* node once.                                                              *)
LEMMA InvTreeOK == RbAssumption /\ RbInv => SearchOrder /\ NothingLost
<1> SUFFICES ASSUME RbAssumption, RbInv PROVE SearchOrder /\ NothingLost
  OBVIOUS
<1> DEFINE L == InTreeOf(node, call)
           ns == InOrder(Root)
<1>1. node \in Heap /\ items = Cardinality(L)
  BY DEF RbInv, Good
<1>2. PICK T : Tree(node, L, T)
  BY DEF RbInv, Good
<1>3. L = Allocated \ (IF call.fn = "del" THEN {call.nd} ELSE {}) /\ (~alive => Allocated = {})
  BY DEF InTreeOf, AllocOf, Allocated, RbInv
<1> HIDE DEF L
<1>4. Sorted(KeyOf(node), ns, L) /\ Range(ns) = L /\ Len(ns) \in Nat /\ Len(ns) = Cardinality(L)
  BY <1>1, <1>2, InOrderIs
<1>5. SearchOrder
  <2>1. DOMAIN ns = 1 .. Len(ns) /\ (\A i, j \in 1 .. Len(ns) : i < j => KeyOf(node)[ns[i]] < KeyOf(node)[ns[j]])
        /\ \A i \in 1 .. Len(ns) : ns[i] \in L
    <3> HIDE DEF ns
    <3>1. ns \in Seq(L)
      BY <1>4 DEF Sorted
    <3>2. DOMAIN ns = 1 .. Len(ns) /\ \A i \in 1 .. Len(ns) : ns[i] \in L
      BY <3>1
    <3>3. \A i, j \in 1 .. Len(ns) : i < j => KeyOf(node)[ns[i]] < KeyOf(node)[ns[j]]
      BY <1>4 DEF Sorted
    <3> QED BY <3>2, <3>3
  <2>2. \A x \in L : KeyOf(node)[x] = node[x].key
    BY <1>1, <1>2, TreeSubs, HeapSubs
  <2> HIDE DEF ns
  <2>3. \A i, j \in DOMAIN ns : i < j => node[ns[i]].key < node[ns[j]].key
    <3> SUFFICES ASSUME NEW i \in 1 .. Len(ns), NEW j \in 1 .. Len(ns), i < j PROVE node[ns[i]].key < node[ns[j]].key
      BY <2>1
    <3>1. KeyOf(node)[ns[i]] < KeyOf(node)[ns[j]]
      BY <2>1
    <3> QED BY <3>1, <2>1, <2>2
  <2> QED BY <2>3 DEF SearchOrder, ns
<1>6. NothingLost
  BY <1>1, <1>3, <1>4 DEF NothingLost
<1> QED BY <1>5, <1>6

HeightStep(l, r, c) == IF l = r /\ l # -1 THEN l + (IF c = "BLACK" THEN 1 ELSE 0) ELSE -1

HeightFcn ==
    CHOOSE bh : bh = [m \in Nodes \cup {NULL} |->
            IF m = NULL THEN 0
            ELSE HeightStep(bh[node[m].sub[RBT_LEFT]], bh[node[m].sub[RBT_RIGHT]], node[m].color)]

(* BlackHeight is what its recursive definition says. *)
LEMMA HeightUnfolds ==
    ASSUME RbAssumption, NEW L, NEW T, Tree(node, L, T)
    PROVE  \A m \in Nodes \cup {NULL} :
             BlackHeight(m) = IF m = NULL THEN 0
                              ELSE HeightStep(BlackHeight(node[m].sub[RBT_LEFT]),
                                              BlackHeight(node[m].sub[RBT_RIGHT]), node[m].color)
<1> DEFINE S == Nodes \cup {NULL}
           V == Int
           s == SubOf(node)
           a == [m \in S |-> IF m = NULL THEN NULL ELSE s[m][RBT_LEFT]]
           b == [m \in S |-> IF m = NULL THEN NULL ELSE s[m][RBT_RIGHT]]
           G == [x \in V \X V \X S |-> HeightStep(x[1], x[2], node[x[3]].color)]
<1>0. /\ NULL \notin Nodes /\ RBT_LEFT \in Dirs /\ RBT_RIGHT \in Dirs
      /\ \A m \in Nodes : s[m] = node[m].sub
  BY DEF RbAssumption, Dirs, SubOf, Addr
<1> HIDE DEF s
<1>1a. PICK R \in Nat : \E rank \in [S -> 0 .. R] :
         \A m \in Nodes, d \in Dirs : s[m][d] \in S /\ rank[s[m][d]] < rank[m]
  BY Ranked DEF Tree, s
<1>1. PICK rank \in [S -> 0 .. R] :
         \A m \in Nodes, d \in Dirs : s[m][d] \in S /\ rank[s[m][d]] < rank[m]
  BY <1>1a
<1>2. a \in [S -> S] /\ b \in [S -> S]
  BY <1>0, <1>1
<1>3. \A m \in S : m \notin {NULL} => rank[a[m]] < rank[m] /\ rank[b[m]] < rank[m]
  BY <1>0, <1>1
<1>4a. \A l, r \in Int : \A c : HeightStep(l, r, c) \in Int
  BY DEF HeightStep
<1>4. G \in [V \X V \X S -> V] /\ 0 \in V
  BY <1>4a
<1> DEFINE E == {NULL}
           nil == 0
<1>5a. nil \in V /\ (\A m \in S : m \notin E => rank[a[m]] < rank[m] /\ rank[b[m]] < rank[m])
  BY <1>3, <1>4
<1> HIDE DEF a, b, G, S, V, E, nil
<1>5b. \E f : Recursive(f, S, V, E, nil, a, b, G)
  BY <1>1, <1>2, <1>4, <1>5a, RecExists
<1>5. PICK f \in [S -> V] :
        \A m \in S : f[m] = IF m \in E THEN nil ELSE G[<<f[a[m]], f[b[m]], m>>]
  BY <1>5b DEF Recursive
<1> USE DEF E, nil, V
<1>6. ASSUME NEW m \in S
      PROVE  f[m] = IF m = NULL THEN 0
                    ELSE HeightStep(f[node[m].sub[RBT_LEFT]], f[node[m].sub[RBT_RIGHT]], node[m].color)
  <2>1. CASE m = NULL
    BY <2>1, <1>5
  <2>2. CASE m # NULL
    <3>1. f[m] = G[<<f[a[m]], f[b[m]], m>>]
      BY <2>2, <1>5
    <3>2. f[a[m]] \in V /\ f[b[m]] \in V
      BY <1>2
    <3>3. G[<<f[a[m]], f[b[m]], m>>] = HeightStep(f[a[m]], f[b[m]], node[m].color)
      BY <3>2 DEF G
    <3>4. a[m] = node[m].sub[RBT_LEFT] /\ b[m] = node[m].sub[RBT_RIGHT]
      BY <2>2, <1>0 DEF a, b, S
    <3> QED BY <2>2, <3>1, <3>3, <3>4
  <2> QED BY <2>1, <2>2
<1>7. f = [m \in S |-> IF m = NULL THEN 0
                    ELSE HeightStep(f[node[m].sub[RBT_LEFT]], f[node[m].sub[RBT_RIGHT]], node[m].color)]
  BY <1>6
<1>8. HeightFcn = [m \in S |-> IF m = NULL THEN 0
            ELSE HeightStep(HeightFcn[node[m].sub[RBT_LEFT]], HeightFcn[node[m].sub[RBT_RIGHT]], node[m].color)]
  BY <1>7, Zenon DEF HeightFcn, S
<1>9. \A m : BlackHeight(m) = HeightFcn[m]
  BY Zenon DEF BlackHeight, HeightFcn, HeightStep
<1> HIDE DEF HeightFcn
<1>10. \A m \in S : HeightFcn[m] = IF m = NULL THEN 0
            ELSE HeightStep(HeightFcn[node[m].sub[RBT_LEFT]], HeightFcn[node[m].sub[RBT_RIGHT]], node[m].color)
  BY <1>8
<1> QED BY <1>9, <1>10 DEF S

(* In a tree balanced by B, the black height is B. *)
LEMMA HeightIs ==
    ASSUME RbAssumption, node \in Heap, NEW L, NEW T, Tree(node, L, T), NEW B, Balanced(node, L, B, {}),
           NEW n \in L \cup {NULL}
    PROVE  BlackHeight(n) = B[n]
<1> DEFINE S == L \cup {NULL}
           s == SubOf(node)
           P == {m \in S : BlackHeight(m) = B[m]}
<1>0. /\ NULL \notin L /\ L \subseteq Nodes
      /\ (\A m \in Nodes : s[m] = node[m].sub)
      /\ \A m \in L, d \in Dirs : node[m].sub[d] \in S
  BY TreeSubs DEF SubOf, Addr
<1>00. RBT_LEFT \in Dirs /\ RBT_RIGHT \in Dirs
  BY DEF Dirs
<1> HIDE DEF s
<1>1a. PICK R \in Nat : \E rank \in [Nodes \cup {NULL} -> 0 .. R] :
         \A m \in Nodes, d \in Dirs : s[m][d] \in Nodes \cup {NULL} /\ rank[s[m][d]] < rank[m]
  BY Ranked DEF Tree, s
<1>1. PICK rank0 \in [Nodes \cup {NULL} -> 0 .. R] :
         \A m \in Nodes, d \in Dirs : s[m][d] \in Nodes \cup {NULL} /\ rank0[s[m][d]] < rank0[m]
  BY <1>1a
<1> DEFINE rank == [m \in S |-> rank0[m]]
<1>2. rank \in [S -> Nat]
  BY <1>0
<1>3. ASSUME NEW m \in S, \A x \in S : rank[x] < rank[m] => x \in P
      PROVE  m \in P
  <2>1. CASE m = NULL
    <3>1. BlackHeight(NULL) = 0
      BY HeightUnfolds
    <3>2. B[NULL] = 0
      BY DEF Balanced
    <3> QED BY <2>1, <3>1, <3>2
  <2>2. CASE m \in L
    <3> DEFINE l == node[m].sub[RBT_LEFT]
               r == node[m].sub[RBT_RIGHT]
    <3>1. l \in S /\ r \in S
      BY <2>2, <1>0, <1>00
    <3>2. rank[l] < rank[m] /\ rank[r] < rank[m]
      BY <3>1, <2>2, <1>0, <1>00, <1>1
    <3>3. BlackHeight(l) = B[l] /\ BlackHeight(r) = B[r]
      BY <3>1, <3>2, <1>3
    <3>4. BlackHeight(m) = HeightStep(BlackHeight(l), BlackHeight(r), node[m].color)
      BY <2>2, <1>0, HeightUnfolds
    <3>5. /\ B[m] = B[l] + Wt(node, m) + Gap({}, m, RBT_LEFT)
          /\ B[m] = B[r] + Wt(node, m) + Gap({}, m, RBT_RIGHT)
          /\ B[l] \in Nat /\ B[r] \in Nat
      BY <2>2, <3>1, <1>00 DEF Balanced
    <3>6. Gap({}, m, RBT_LEFT) = 0 /\ Gap({}, m, RBT_RIGHT) = 0
      BY DEF Gap
    <3>7. HeightStep(B[l], B[r], node[m].color) = B[m]
      <4> HIDE DEF l, r
      <4>1. Wt(node, m) = IF node[m].color = "BLACK" THEN 1 ELSE 0
        BY DEF Wt
      <4>2. B[l] = B[r] /\ B[l] # -1
        BY <3>5, <3>6, <4>1
      <4> QED BY <3>5, <3>6, <4>1, <4>2 DEF HeightStep
    <3> QED BY <2>2, <3>3, <3>4, <3>7
  <2> QED BY <2>1, <2>2
<1> HIDE DEF P, S, rank
<1>4. \A m \in S : m \in P
  BY <1>2, <1>3, RankInd
<1> QED BY <1>4 DEF P, S

(* The invariant implies that between calls the tree is a red-black tree. *)
LEMMA InvRedBlack == RbAssumption /\ RbInv => RedBlack
<1> SUFFICES ASSUME RbAssumption, RbInv, Ready
             PROVE  /\ ~IsRed(node, Root)
                    /\ \A n \in Allocated : IsRed(node, n) =>
                           \A d \in {RBT_LEFT, RBT_RIGHT} : ~IsRed(node, node[n].sub[d])
                    /\ BlackHeight(Root) # -1
  BY DEF RedBlack
<1>1. call.pc = "idle" /\ call.fn = "none" /\ node \in Heap
  BY DEF Ready, RbInv, Good, CallOK
<1>2. InTreeOf(node, call) = Allocated
  BY <1>1 DEF InTreeOf, AllocOf, Allocated
<1>3. PICK T : Tree(node, Allocated, T)
  BY <1>2 DEF RbInv, Good
<1>4. PICK B : Settled(node, Allocated, B)
  BY <1>1, <1>2 DEF RbInv, Good, Balance
<1>5. Root \in Allocated \cup {NULL} /\ Root = RootOf(node)
  BY <1>1, <1>3, TreeSubs DEF Root, RootOf
<1>6. BlackHeight(Root) = B[Root] /\ B[Root] \in Nat
  <2>1. Balanced(node, Allocated, B, {})
    BY <1>4 DEF Settled
  <2>2. B \in [Allocated \cup {NULL} -> Nat]
    BY <2>1 DEF Balanced
  <2>3. BlackHeight(Root) = B[Root]
    BY <2>1, <1>1, <1>3, <1>5, HeightIs
  <2> QED BY <2>2, <2>3, <1>5
<1>7. \A n \in Allocated, d \in Dirs : ~(IsRed(node, n) /\ IsRed(node, node[n].sub[d]))
  BY <1>4 DEF Settled, RedFree
<1>8. ~IsRed(node, Root)
  BY <1>4, <1>5 DEF Settled
<1> QED BY <1>6, <1>7, <1>8 DEF Dirs

(* For all keys, nodes and call sequences: at every step of every call,    *)
(* rebalancing included, the tree is ordered by key and holds each         *)
(* allocated node once, and items counts them.                             *)
THEOREM TreeOKHolds == Spec => []TreeOK
<1>1. RbAssumption /\ RbInv => TreeOK
  BY InvTreeOK DEF TreeOK
<1>2. QED
  BY <1>1, RbAssumption, Invariant, PTL

(* For all keys, nodes and call sequences: between calls the tree is a     *)
(* red-black tree, so that HXrbtree_amov and HXrbtree_dmov restore what    *)
(* linking and unlinking a node disturb.                                   *)
THEOREM RedBlackHolds == Spec => []RedBlack
<1>1. RbAssumption /\ RbInv => RedBlack
  BY InvRedBlack
<1>2. QED
  BY <1>1, RbAssumption, Invariant, PTL

-----------------------------------------------------------------------------
(* The entries: one node per key, none changed by rebalancing.             *)

(* No key is held twice, and a call knows the entry of its node. *)
Entries(h, c) ==
    /\ \A m, n \in AllocOf(h) : h[m].key = h[n].key => m = n
    /\ c.pc # "idle" => c.key = h[c.nd].key /\ c.val = h[c.nd].data
    /\ c.fn = "add" => (Singular => c.val = NULL)

(* Heaps with the same entries have the same nodes, keys and data. *)
LEMMA SameAlloc ==
    ASSUME NEW h, NEW h1, SameEntries(h, h1)
    PROVE  AllocOf(h1) = AllocOf(h) /\ \A n \in AllocOf(h) : h1[n].key = h[n].key /\ h1[n].data = h[n].data
  BY DEF AllocOf, SameEntries, Addr

(* A step of a call that has begun. *)
SameCall(c, c1) == c1.key = c.key /\ c1.val = c.val /\ c1.nd = c.nd /\ c1.fn = c.fn

(* A step of a call that keeps entries keeps Entries. *)
LEMMA EntriesKept ==
    ASSUME NEW h, NEW c, CallOK(h, c), Entries(h, c), c.pc # "idle", NEW h1, SameEntries(h, h1),
           NEW c1, SameCall(c, c1) \/ (c1.pc = "idle" /\ c1.fn = "none")
    PROVE  Entries(h1, c1)
<1>1. AllocOf(h1) = AllocOf(h) /\ \A n \in AllocOf(h) : h1[n].key = h[n].key /\ h1[n].data = h[n].data
  BY SameAlloc
<1>2. c.nd \in AllocOf(h)
  BY DEF CallOK
<1> QED BY <1>1, <1>2 DEF Entries, SameCall

(* HXrbtree_amov goes on with the same call. *)
LEMMA AmovCall ==
    ASSUME Good(node, call, items), HXrbtree_amov
    PROVE  SameCall(call, call') /\ call.pc = "amov"
<1>1. call \in CallType
  BY DEF Good
<1>2. \/ \E p : call' = [call EXCEPT !.path = p]
      \/ call' = [call EXCEPT !.pc = "blacken"]
  BY DEF HXrbtree_amov, Recolor, AddRotate
<1>3. call.pc = "amov"
  BY DEF HXrbtree_amov
<1> QED BY <1>1, <1>2, <1>3 DEF SameCall, CallType

(* HXrbtree_dmov goes on with the same call. *)
LEMMA DmovCall ==
    ASSUME Good(node, call, items), HXrbtree_dmov
    PROVE  SameCall(call, call') /\ call.pc = "dmov"
<1>1. call \in CallType
  BY DEF Good
<1>2. \/ \E p : call' = [call EXCEPT !.path = p]
      \/ call' = [call EXCEPT !.pc = "free"]
  BY DEF HXrbtree_dmov, Cases36, DmovEnd
<1>3. call.pc = "dmov"
  BY DEF HXrbtree_dmov
<1> QED BY <1>1, <1>2, <1>3 DEF SameCall, CallType

(* What a new node changes. *)
NewEntry(h, h1, n, k, v) ==
    /\ h1[n].key = k /\ h1[n].data = v
    /\ \A y \in Addr : y # n => h1[y].key = h[y].key /\ h1[y].data = h[y].data
    /\ AllocOf(h1) = AllocOf(h) \cup {n} /\ n \notin AllocOf(h)

(* The add that links a node adds one entry, for a key the tree did not    *)
(* have.                                                                   *)
LEMMA AddLinkIs ==
    ASSUME RbAssumption, Good(node, call, items), call.pc = "idle", NEW k \in Keys, NEW v \in Data,
           HXrbtree_find(k) = NULL, AddLink(k, v)
    PROVE  /\ \A y \in AllocOf(node) : node[y].key # k
           /\ call'.fn = "add" /\ call'.pc = "amov" /\ call'.key = k /\ call'.val = v
           /\ NewEntry(node, node', call'.nd, k, v)
<1> DEFINE p == PathTo(k)
           a == p[Len(p)].nd
           e == p[Len(p)].dir
<1>0. node \in Heap /\ call.fn = "none" /\ InTreeOf(node, call) = AllocOf(node) /\ k \in Int
  BY DEF Good, CallOK, InTreeOf, RbAssumption
<1>1. PICK T : Tree(node, AllocOf(node), T)
  BY <1>0 DEF Good
<1>2. Found(node, AllocOf(node), k, p, NULL) /\ Last(p) = p[Len(p)]
  BY <1>0, <1>1, PathToIs
<1>3. GoodPath(SubOf(node), AllocOf(node), p) /\ \A y \in AllocOf(node) : node[y].key # k
  BY <1>2 DEF Found
<1>4. Slot(AllocOf(node), a, e)
  BY <1>0, <1>1, <1>3, PathHeap
<1>5. PICK n \in Malloc[k] \ Allocated :
         /\ node' = Link([node EXCEPT ![n] = NewNode(k, v)], a, e, n)
         /\ call' = [fn |-> "add", pc |-> "amov", key |-> k, val |-> v, nd |-> n, path |-> p]
  BY <1>2 DEF AddLink
<1>6. n \in Nodes /\ n \notin AllocOf(node) /\ n \in Addr
  BY <1>5 DEF RbAssumption, Allocated, AllocOf, Addr
<1> HIDE DEF p, a, e
<1>7. a \in Addr /\ e \in Dirs /\ a # n
  BY <1>4, <1>6 DEF Slot, Addr, AllocOf, RbAssumption, Dirs
<1>8. Sprouted(node, node', a, e, n, k, v)
  BY <1>0, <1>5, <1>6, <1>7, GrowIs
<1>9. /\ node'[n].key = k /\ node'[n].data = v
      /\ \A y \in Addr : y # n => node'[y].key = node[y].key /\ node'[y].data = node[y].data
  BY <1>8 DEF Sprouted, Grown
<1>10. AllocOf(node') = AllocOf(node) \cup {n}
  <2>1. k # NULL
    BY DEF RbAssumption
  <2> QED BY <2>1, <1>6, <1>9 DEF AllocOf, Addr
<1>11. call'.nd = n /\ call'.fn = "add" /\ call'.pc = "amov" /\ call'.key = k /\ call'.val = v
  BY <1>5
<1> QED BY <1>3, <1>6, <1>9, <1>10, <1>11 DEF NewEntry

(* Every step keeps Entries: one node per key, and the call under way is   *)
(* for the node it says.                                                   *)
LEMMA NextEntries ==
    ASSUME RbAssumption, RbInv, Entries(node, call), [Next]_vars
    PROVE  Entries(node', call')
<1>0. Good(node, call, items) /\ CallOK(node, call) /\ node \in Heap /\ call \in CallType
  BY DEF RbInv, Good
<1>1. CASE node' = node /\ call' = call
  BY <1>1
<1>2. ASSUME NEW k \in Keys, HXmap_del(k), HXrbtree_find(k) # NULL, DelUnlink(PathTo(k), HXrbtree_find(k))
      PROVE  Entries(node', call')
  <2> DEFINE n == HXrbtree_find(k)
  <2>1. call.pc = "idle" /\ call.fn = "none"
    BY <1>0, <1>2 DEF HXmap_del, Ready, CallOK
  <2>2. SameEntries(node, node')
    BY <1>0, <1>2, <2>1, DelGood
  <2>3. call'.key = node[n].key /\ call'.val = node[n].data /\ call'.nd = n /\ call'.fn = "del"
    BY <1>2 DEF DelUnlink
  <2>4. n \in AllocOf(node)
    <3>1. PICK T : Tree(node, AllocOf(node), T)
      BY <1>0, <2>1 DEF Good, InTreeOf
    <3>2. k \in Int
      BY DEF RbAssumption
    <3> QED BY <3>1, <3>2, <1>2, PathToIs DEF Found
  <2> HIDE DEF n
  <2> QED BY <2>2, <2>3, <2>4, SameAlloc DEF Entries
<1>3. ASSUME NEW k \in Keys, HXmap_del(k) PROVE Entries(node', call')
  BY <1>1, <1>2, <1>3 DEF HXmap_del
<1>4. ASSUME NEW k \in Keys, NEW v \in Data, HXmap_add(k, v) PROVE Entries(node', call')
  <2>0. call.pc = "idle" /\ call.fn = "none"
    BY <1>0, <1>4 DEF HXmap_add, Ready, CallOK
  <2>1. CASE HXrbtree_find(k) # NULL /\ HXrbtree_replace(HXrbtree_find(k), k, v) /\ call' = call
    <3> DEFINE n == HXrbtree_find(k)
    <3>1. CASE node' = node
      BY <1>1, <2>1, <3>1
    <3>2. CASE node' = [node EXCEPT ![n].data = v]
      <4> HIDE DEF n
      <4>1. \A y \in Addr : node'[y].key = node[y].key
        BY <1>0, <3>2 DEF Heap, Node
      <4>2. AllocOf(node') = AllocOf(node) /\ \A y \in AllocOf(node) : node'[y].key = node[y].key
        BY <4>1 DEF AllocOf, Addr
      <4> QED BY <4>2, <2>0, <2>1 DEF Entries
    <3> QED BY <2>1, <3>1, <3>2 DEF HXrbtree_replace
  <2>2. CASE HXrbtree_find(k) = NULL /\ AddLink(k, v) /\ (Singular => v = NULL)
    <3>1. /\ \A y \in AllocOf(node) : node[y].key # k
          /\ call'.fn = "add" /\ call'.pc = "amov" /\ call'.key = k /\ call'.val = v
          /\ NewEntry(node, node', call'.nd, k, v)
      BY <1>0, <2>0, <2>2, AddLinkIs
    <3>2. \A y \in AllocOf(node) : y \in Addr
      BY DEF AllocOf, Addr
    <3>3. \A m, n \in AllocOf(node') : node'[m].key = node'[n].key => m = n
      <4> SUFFICES ASSUME NEW m \in AllocOf(node'), NEW n \in AllocOf(node'), node'[m].key = node'[n].key PROVE m = n
        OBVIOUS
      <4>0. \A y \in AllocOf(node) : y # call'.nd /\ node'[y].key = node[y].key
        BY <3>1, <3>2 DEF NewEntry
      <4>1. m = call'.nd \/ m \in AllocOf(node)
        BY <3>1 DEF NewEntry
      <4>2. n = call'.nd \/ n \in AllocOf(node)
        BY <3>1 DEF NewEntry
      <4> QED BY <3>1, <4>0, <4>1, <4>2 DEF NewEntry, Entries
    <3> QED BY <3>1, <3>3, <2>2 DEF Entries, NewEntry
  <2> QED BY <1>1, <1>4, <2>1, <2>2 DEF HXmap_add, AddNoMem
<1>5. CASE HXrbtree_amov
  BY <1>0, <1>5, AmovCall, AmovGood, EntriesKept
<1>6. CASE HXrbtree_dmov
  BY <1>0, <1>6, DmovCall, DmovGood, EntriesKept
<1>7. CASE AddEnd
  <2>1. call'.pc = "idle" /\ call'.fn = "none" /\ call.pc # "idle"
    BY <1>7, IdleIs DEF AddEnd
  <2> QED BY <1>0, <1>7, <2>1, AddEndGood, EntriesKept
<1>8. CASE DelEnd
  <2>1. call'.pc = "idle" /\ call'.fn = "none" /\ call.pc # "idle" /\ call.nd \in AllocOf(node)
    BY <1>0, <1>8, IdleIs DEF DelEnd, CallOK
  <2>2. \A y \in Addr : y # call.nd => node'[y] = node[y]
    BY <1>0, <1>8 DEF DelEnd, Heap
  <2>3. node'[call.nd] = Freed
    BY <1>0, <1>8, <2>1 DEF DelEnd, Heap, AllocOf, Addr
  <2>4. AllocOf(node') \subseteq AllocOf(node) \ {call.nd}
    BY <2>2, <2>3, FreedIs DEF AllocOf, Addr
  <2>5. \A y \in AllocOf(node') : node'[y] = node[y]
    BY <2>2, <2>4 DEF AllocOf, Addr
  <2> QED BY <2>1, <2>4, <2>5 DEF Entries
<1>9. CASE HXrbtree_free
  <2>1. AllocOf(node') = {} /\ call' = call /\ call.pc = "idle" /\ call.fn = "none"
    BY <1>0, <1>9, FreeGood DEF HXrbtree_free, Ready, CallOK
  <2> QED BY <2>1 DEF Entries
<1>10. CASE HXrbtree_init4 \/ SetFlags \/ (\E k \in Keys : HXmap_get(k)) \/ UNCHANGED vars
            \/ \E t \in Travs : HXmap_travinit(t) \/ HXrbtree_traverse(t) \/ HXmap_travfree(t)
  BY <1>1, <1>10 DEF HXrbtree_init4, SetFlags, HXmap_get, vars, HXmap_travinit, HXrbtree_traverse, HXmap_travfree
<1> QED BY <1>3, <1>4, <1>5, <1>6, <1>7, <1>8, <1>9, <1>10 DEF Next

=============================================================================
