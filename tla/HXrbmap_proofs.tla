--------------------------- MODULE HXrbmap_proofs ---------------------------
(***************************************************************************)
(* What the users of the tree see of it, for every set of keys, nodes and  *)
(* traversers: a traverser returns the successor in the present tree, the  *)
(* tree implements the dictionary HXmap, and the path arrays are large     *)
(* enough.                                                                 *)
(*                                                                         *)
(* TravInv says of each traverser that its path, when it is in step with   *)
(* tid, leads to its node.  FitInv bounds the path by the number of        *)
(* entries; only the calls that begin have to establish it, by counting    *)
(* the nodes of a red-black tree, since no iteration makes the path        *)
(* longer.                                                                 *)
(***************************************************************************)
EXTENDS HXrbtree_proofs

-----------------------------------------------------------------------------
(* Traversers: what the left turns of a path promise.                      *)

(* The hops w, in the search for what follows key kk, pass every node of M *)
(* with a greater key at a left turn or above it; those of Z are still     *)
(* below.                                                                  *)
LeftTurn(h, T, M, w, kk, Z, i) ==
    /\ kk < h[w[i].nd].key
    /\ Z \subseteq T[h[w[i].nd].sub[RBT_LEFT]]
    /\ \A j \in 1 .. Len(w) : i < j => w[j].nd \in T[h[w[i].nd].sub[RBT_LEFT]]

Passed(h, T, w, y) ==
    \E i \in 1 .. Len(w) : w[i].dir = RBT_LEFT /\ (y = w[i].nd \/ y \in T[h[w[i].nd].sub[RBT_RIGHT]])

Turns(h, L, T, M, w, kk, Z) ==
    /\ w \in Seq(Hops(L))
    /\ \A i \in 1 .. Len(w) : w[i].nd \in M
    /\ \A i \in 1 .. Len(w) : w[i].dir = RBT_LEFT => LeftTurn(h, T, M, w, kk, Z, i)
    /\ \A y \in M : y \notin Z /\ kk < h[y].key => Passed(h, T, w, y)

(* A search tree, as the traversers see it. *)
LEMMA TreeSides ==
    ASSUME RbAssumption, NEW h \in Heap, NEW L, NEW T, Tree(h, L, T), NEW m \in L
    PROVE  /\ T[m] = {m} \cup T[h[m].sub[RBT_LEFT]] \cup T[h[m].sub[RBT_RIGHT]]
           /\ h[m].sub[RBT_LEFT] \in L \cup {NULL} /\ h[m].sub[RBT_RIGHT] \in L \cup {NULL}
           /\ T[h[m].sub[RBT_LEFT]] \subseteq L /\ T[h[m].sub[RBT_RIGHT]] \subseteq L
           /\ \A y \in T[h[m].sub[RBT_LEFT]] : h[y].key < h[m].key
           /\ \A y \in T[h[m].sub[RBT_RIGHT]] : h[m].key < h[y].key
           /\ \A y \in T[m] : T[y] \subseteq T[m]
           /\ T[m] \subseteq L /\ m \in T[m] /\ T[NULL] = {}
<1> DEFINE k == KeyOf(h)
           s == SubOf(h)
<1>0. L \subseteq Addr /\ NULL \notin L
  BY TreeSubs
<1>1. (\A y \in L : k[y] = h[y].key /\ s[y] = h[y].sub) /\ Shape(k, s, L, T) /\ \A y \in L : k[y] \in Int
  BY <1>0, HeapSubs DEF Tree, Shape
<1>2. RBT_LEFT \in Dirs /\ RBT_RIGHT \in Dirs
  BY DEF Dirs
<1> HIDE DEF k, s
<1>3. /\ T[m] = {m} \cup T[s[m][RBT_LEFT]] \cup T[s[m][RBT_RIGHT]] /\ T \in [L \cup {NULL} -> SUBSET L] /\ T[NULL] = {}
      /\ s[m][RBT_LEFT] \in L \cup {NULL} /\ s[m][RBT_RIGHT] \in L \cup {NULL}
  BY <1>1, <1>2 DEF Shape, Subtrees
<1>4. /\ \A y \in T[s[m][RBT_LEFT]] : Side(k, RBT_LEFT, y, m)
      /\ \A y \in T[s[m][RBT_RIGHT]] : Side(k, RBT_RIGHT, y, m)
  BY <1>1, <1>2 DEF Shape, Ordered
<1>5. \A y \in T[m] : T[y] \subseteq T[m]
  BY <1>1 DEF Shape, Nested
<1>6. T[s[m][RBT_LEFT]] \subseteq L /\ T[s[m][RBT_RIGHT]] \subseteq L
  BY <1>3
<1>7. \A y \in T[s[m][RBT_LEFT]] : k[y] < k[m]
  BY <1>4 DEF Side
<1>8. \A y \in T[s[m][RBT_RIGHT]] : k[m] < k[y]
  BY <1>1, <1>4, <1>6 DEF Side, RBT_LEFT, RBT_RIGHT
<1> QED BY <1>1, <1>3, <1>5, <1>6, <1>7, <1>8

(* The keys, the root and the nodes of a tree. *)
LEMMA TreeKeys ==
    ASSUME RbAssumption, NEW h \in Heap, NEW L, NEW T, Tree(h, L, T)
    PROVE  (\A y \in L : h[y].key \in Int) /\ (L = {} \/ RootOf(h) \in L) /\ T[RootOf(h)] = L
           /\ RootOf(h) \in L \cup {NULL} /\ T[NULL] = {}
<1> DEFINE k == KeyOf(h)
           s == SubOf(h)
<1>0. L \subseteq Addr /\ NULL \notin L /\ ROOT \in Addr /\ h[ROOT].sub[RBT_LEFT] \in L \cup {NULL}
  BY TreeSubs
<1>1. (\A y \in L : k[y] = h[y].key) /\ s[ROOT] = h[ROOT].sub /\ Shape(k, s, L, T) /\ \A y \in L : k[y] \in Int
  BY <1>0, HeapSubs DEF Tree, Shape
<1> HIDE DEF k, s
<1>2. T[s[ROOT][RBT_LEFT]] = L /\ T[NULL] = {}
  BY <1>1 DEF Shape, Subtrees
<1> QED BY <1>0, <1>1, <1>2 DEF RootOf

(* Induction along the tree. *)
LEMMA TreeInd ==
    ASSUME RbAssumption, NEW h \in Heap, NEW L, NEW T, Tree(h, L, T), NEW P,
           NULL \in P,
           \A m \in L : h[m].sub[RBT_LEFT] \in P /\ h[m].sub[RBT_RIGHT] \in P => m \in P
    PROVE  \A m \in L \cup {NULL} : m \in P
<1> DEFINE S == L \cup {NULL}
           s == SubOf(h)
<1>0. /\ NULL \notin L /\ L \subseteq Nodes
      /\ (\A m \in Nodes : s[m] = h[m].sub)
      /\ \A m \in L, d \in Dirs : h[m].sub[d] \in S
  BY TreeSubs DEF SubOf, Addr
<1>00. RBT_LEFT \in Dirs /\ RBT_RIGHT \in Dirs
  BY DEF Dirs
<1> HIDE DEF s
<1>1a. PICK R \in Nat : \E rank \in [Nodes \cup {NULL} -> 0 .. R] :
         \A m \in Nodes, d \in Dirs : s[m][d] \in Nodes \cup {NULL} /\ rank[s[m][d]] < rank[m]
  BY Ranked DEF Tree, s
<1>1. PICK rank0 \in [Nodes \cup {NULL} -> 0 .. R] :
         \A m \in Nodes, d \in Dirs : s[m][d] \in Nodes \cup {NULL} /\ rank0[s[m][d]] < rank0[m]
  BY <1>1a
<1> DEFINE rank == [m \in S |-> rank0[m]]
<1>2. rank \in [S -> Nat]
  BY <1>0
<1>3. ASSUME NEW m \in S, \A x \in S : rank[x] < rank[m] => x \in P
      PROVE  m \in P
  <2>1. CASE m \in L
    <3>1. h[m].sub[RBT_LEFT] \in S /\ h[m].sub[RBT_RIGHT] \in S
      BY <2>1, <1>0, <1>00
    <3>2. rank[h[m].sub[RBT_LEFT]] < rank[m] /\ rank[h[m].sub[RBT_RIGHT]] < rank[m]
      BY <2>1, <3>1, <1>0, <1>00, <1>1
    <3> QED BY <2>1, <3>1, <3>2, <1>3
  <2> QED BY <2>1
<1> HIDE DEF S, rank
<1>4. \A m \in S : m \in P
  BY <1>2, <1>3, RankInd
<1> QED BY <1>4 DEF S

(* A path without left turns promises nothing greater. *)
LEMMA NoTurns ==
    ASSUME NEW h, NEW L, NEW T, NEW M, NEW kk, NEW Z, \A y \in M : y \in Z \/ ~(kk < h[y].key)
    PROVE  Turns(h, L, T, M, <<>>, kk, Z)
<1>1. <<>> \in Seq(Hops(L)) /\ Len(<<>>) = 0
  OBVIOUS
<1>2. 1 .. 0 = {}
  OBVIOUS
<1> QED BY <1>1, <1>2 DEF Turns

(* One more left turn above. *)
LEMMA TurnsLeft ==
    ASSUME RbAssumption, NEW h \in Heap, NEW L, NEW T, Tree(h, L, T), NEW m \in L, NEW kk, kk < h[m].key,
           NEW w, NEW Z, Turns(h, L, T, T[h[m].sub[RBT_LEFT]], w, kk, Z), Z \subseteq T[h[m].sub[RBT_LEFT]]
    PROVE  Turns(h, L, T, T[m], <<Hop(m, RBT_LEFT)>> \o w, kk, Z)
<1> DEFINE l == h[m].sub[RBT_LEFT]
           r == h[m].sub[RBT_RIGHT]
           x == Hop(m, RBT_LEFT)
           v == <<x>> \o w
<1>1. /\ T[m] = {m} \cup T[l] \cup T[r] /\ m \in T[m] /\ T[l] \subseteq T[m]
      /\ T[l] \subseteq L /\ T[r] \subseteq L
  BY TreeSides
<1>2. x \in Hops(L) /\ x.nd = m /\ x.dir = RBT_LEFT
  BY DEF Hop, Hops, Dirs
<1>3. w \in Seq(Hops(L)) /\ (\A i \in 1 .. Len(w) : w[i].nd \in T[l])
      /\ (\A i \in 1 .. Len(w) : w[i].dir = RBT_LEFT => LeftTurn(h, T, T[l], w, kk, Z, i))
      /\ \A y \in T[l] : y \notin Z /\ kk < h[y].key => Passed(h, T, w, y)
  BY DEF Turns
<1> HIDE DEF x, l, r
<1>4. v \in Seq(Hops(L)) /\ Len(v) = Len(w) + 1 /\ v[1] = x /\ (\A i \in 1 .. Len(w) : v[i + 1] = w[i]) /\ Len(w) \in Nat
  BY <1>2, <1>3, ConsIs
<1> HIDE DEF v
<1>5. \A i \in 1 .. Len(v) : i = 1 \/ \E j \in 1 .. Len(w) : i = j + 1
  <2> SUFFICES ASSUME NEW i \in 1 .. Len(v), i # 1 PROVE \E j \in 1 .. Len(w) : i = j + 1
    OBVIOUS
  <2>1. i - 1 \in 1 .. Len(w) /\ i = (i - 1) + 1
    BY <1>4
  <2> QED BY <2>1
<1>6. \A i \in 1 .. Len(v) : v[i].nd \in T[m]
  <2> SUFFICES ASSUME NEW i \in 1 .. Len(v) PROVE v[i].nd \in T[m]
    OBVIOUS
  <2>1. CASE i = 1
    BY <2>1, <1>1, <1>2, <1>4
  <2>2. ASSUME NEW j \in 1 .. Len(w), i = j + 1 PROVE v[i].nd \in T[m]
    <3>1. v[i] = w[j] /\ w[j].nd \in T[l]
      BY <2>2, <1>3, <1>4
    <3> QED BY <3>1, <1>1
  <2> QED BY <2>1, <2>2, <1>5
<1>7. ASSUME NEW i \in 1 .. Len(v), v[i].dir = RBT_LEFT PROVE LeftTurn(h, T, T[m], v, kk, Z, i)
  <2>1. CASE i = 1
    <3>1. v[i].nd = m /\ h[v[i].nd].sub[RBT_LEFT] = l
      BY <2>1, <1>2, <1>4 DEF l
    <3>2. \A j \in 1 .. Len(v) : i < j => v[j].nd \in T[l]
      <4> SUFFICES ASSUME NEW j \in 1 .. Len(v), i < j PROVE v[j].nd \in T[l]
        OBVIOUS
      <4>1. j # 1
        BY <2>1
      <4>2. PICK t \in 1 .. Len(w) : j = t + 1
        BY <4>1, <1>5
      <4> QED BY <4>2, <1>3, <1>4
    <3> QED BY <3>1, <3>2 DEF LeftTurn, l
  <2>2. ASSUME NEW t \in 1 .. Len(w), i = t + 1 PROVE LeftTurn(h, T, T[m], v, kk, Z, i)
    <3>1. v[i] = w[t]
      BY <2>2, <1>4
    <3>2. LeftTurn(h, T, T[l], w, kk, Z, t)
      BY <3>1, <1>3, <1>7
    <3>3. \A j \in 1 .. Len(v) : i < j => v[j].nd \in T[h[w[t].nd].sub[RBT_LEFT]]
      <4> SUFFICES ASSUME NEW j \in 1 .. Len(v), i < j PROVE v[j].nd \in T[h[w[t].nd].sub[RBT_LEFT]]
        OBVIOUS
      <4>1. j # 1 /\ t \in Nat
        BY <2>2
      <4>2. PICK u \in 1 .. Len(w) : j = u + 1
        BY <4>1, <1>5
      <4>3. t < u
        BY <4>1, <4>2, <2>2
      <4> QED BY <4>2, <4>3, <3>2, <1>4 DEF LeftTurn
    <3> QED BY <3>1, <3>2, <3>3 DEF LeftTurn
  <2> QED BY <2>1, <2>2, <1>5
<1>8. ASSUME NEW y \in T[m], y \notin Z, kk < h[y].key PROVE Passed(h, T, v, y)
  <2>1. CASE y = m \/ y \in T[r]
    <3>1. 1 \in 1 .. Len(v) /\ v[1].dir = RBT_LEFT /\ v[1].nd = m /\ h[v[1].nd].sub[RBT_RIGHT] = r
      BY <1>2, <1>4 DEF r
    <3> QED BY <2>1, <3>1 DEF Passed
  <2>2. CASE y \in T[l]
    <3>1. PICK i \in 1 .. Len(w) : w[i].dir = RBT_LEFT /\ (y = w[i].nd \/ y \in T[h[w[i].nd].sub[RBT_RIGHT]])
      BY <2>2, <1>3, <1>8 DEF Passed
    <3>2. i + 1 \in 1 .. Len(v) /\ v[i + 1] = w[i]
      BY <1>4
    <3> QED BY <3>1, <3>2 DEF Passed
  <2> QED BY <2>1, <2>2, <1>1
<1> QED BY <1>4, <1>6, <1>7, <1>8 DEF Turns, v, x

(* One more right turn above, recorded or not. *)
LEMMA TurnsWide ==
    ASSUME RbAssumption, NEW h \in Heap, NEW L, NEW T, Tree(h, L, T), NEW m \in L, NEW kk \in Int, h[m].key < kk,
           NEW w, NEW Z, Turns(h, L, T, T[h[m].sub[RBT_RIGHT]], w, kk, Z)
    PROVE  Turns(h, L, T, T[m], w, kk, Z)
<1> DEFINE l == h[m].sub[RBT_LEFT]
           r == h[m].sub[RBT_RIGHT]
<1>1. /\ T[m] = {m} \cup T[l] \cup T[r] /\ (\A y \in T[l] : h[y].key < h[m].key) /\ T[r] \subseteq T[m]
      /\ T[l] \subseteq L
  BY TreeSides
<1>2. h[m].key \in Int /\ \A y \in T[l] : h[y].key \in Int
  BY <1>1, TreeKeys
<1>3. w \in Seq(Hops(L)) /\ (\A i \in 1 .. Len(w) : w[i].nd \in T[r])
      /\ (\A i \in 1 .. Len(w) : w[i].dir = RBT_LEFT => LeftTurn(h, T, T[r], w, kk, Z, i))
      /\ \A y \in T[r] : y \notin Z /\ kk < h[y].key => Passed(h, T, w, y)
  BY DEF Turns
<1> HIDE DEF l, r
<1>4. \A y \in T[m] : kk < h[y].key => y \in T[r]
  BY <1>1, <1>2
<1>5. \A i : LeftTurn(h, T, T[r], w, kk, Z, i) = LeftTurn(h, T, T[m], w, kk, Z, i)
  BY DEF LeftTurn
<1> QED BY <1>1, <1>3, <1>4, <1>5 DEF Turns

(* A right turn in front of a path adds no successor. *)
LEMMA TurnsRight ==
    ASSUME RbAssumption, NEW h, NEW L, NEW T, NEW M, NEW m \in L, m \in M, NEW kk,
           NEW w, NEW Z, Turns(h, L, T, M, w, kk, Z)
    PROVE  Turns(h, L, T, M, <<Hop(m, RBT_RIGHT)>> \o w, kk, Z)
<1> DEFINE x == Hop(m, RBT_RIGHT)
           v == <<x>> \o w
<1>2. x \in Hops(L) /\ x.nd = m /\ x.dir # RBT_LEFT
  BY DEF Hop, Hops, Dirs, RBT_LEFT, RBT_RIGHT
<1>3. w \in Seq(Hops(L)) /\ (\A i \in 1 .. Len(w) : w[i].nd \in M)
      /\ (\A i \in 1 .. Len(w) : w[i].dir = RBT_LEFT => LeftTurn(h, T, M, w, kk, Z, i))
      /\ \A y \in M : y \notin Z /\ kk < h[y].key => Passed(h, T, w, y)
  BY DEF Turns
<1> HIDE DEF x
<1>4. v \in Seq(Hops(L)) /\ Len(v) = Len(w) + 1 /\ v[1] = x /\ (\A i \in 1 .. Len(w) : v[i + 1] = w[i]) /\ Len(w) \in Nat
  BY <1>2, <1>3, ConsIs
<1> HIDE DEF v
<1>5. \A i \in 1 .. Len(v) : i = 1 \/ \E j \in 1 .. Len(w) : i = j + 1
  <2> SUFFICES ASSUME NEW i \in 1 .. Len(v), i # 1 PROVE \E j \in 1 .. Len(w) : i = j + 1
    OBVIOUS
  <2>1. i - 1 \in 1 .. Len(w) /\ i = (i - 1) + 1
    BY <1>4
  <2> QED BY <2>1
<1>6. \A i \in 1 .. Len(v) : v[i].nd \in M
  BY ZenonT(30), <1>2, <1>3, <1>4, <1>5
<1>7. ASSUME NEW i \in 1 .. Len(v), v[i].dir = RBT_LEFT PROVE LeftTurn(h, T, M, v, kk, Z, i)
  <2>1. i # 1
    BY <1>2, <1>4, <1>7
  <2>2. PICK t \in 1 .. Len(w) : i = t + 1
    BY <2>1, <1>5
  <2>3. v[i] = w[t]
    BY <2>2, <1>4
  <2>4. LeftTurn(h, T, M, w, kk, Z, t)
    BY <2>3, <1>3, <1>7
  <2>5. \A j \in 1 .. Len(v) : i < j => v[j].nd \in T[h[w[t].nd].sub[RBT_LEFT]]
    <3> SUFFICES ASSUME NEW j \in 1 .. Len(v), i < j PROVE v[j].nd \in T[h[w[t].nd].sub[RBT_LEFT]]
      OBVIOUS
    <3>1. j # 1 /\ t \in Nat
      BY <2>2
    <3>2. PICK u \in 1 .. Len(w) : j = u + 1
      BY <3>1, <1>5
    <3>3. t < u
      BY <3>1, <3>2, <2>2
    <3> QED BY <3>2, <3>3, <2>4, <1>4 DEF LeftTurn
  <2> QED BY <2>3, <2>4, <2>5 DEF LeftTurn
<1>8. ASSUME NEW y \in M, y \notin Z, kk < h[y].key PROVE Passed(h, T, v, y)
  <2>1. PICK i \in 1 .. Len(w) : w[i].dir = RBT_LEFT /\ (y = w[i].nd \/ y \in T[h[w[i].nd].sub[RBT_RIGHT]])
    BY <1>3, <1>8 DEF Passed
  <2>2. i + 1 \in 1 .. Len(v) /\ v[i + 1] = w[i]
    BY <1>4
  <2> QED BY <2>1, <2>2 DEF Passed
<1> QED BY <1>4, <1>6, <1>7, <1>8 DEF Turns, v, x

(* A traverser at node c, with the hops w behind it. *)
Placed(h, L, T, c, w) == c \in L /\ Turns(h, L, T, L, w, h[c].key, T[c])

(* c is the first node after key kk, and reached by w; NULL if there is none. *)
NextAt(h, L, T, kk, c, w) ==
    /\ w \in Seq(Hops(L))
    /\ c = NULL => \A y \in L : ~(kk < h[y].key)
    /\ c # NULL => /\ Placed(h, L, T, c, w)
                   /\ kk < h[c].key
                   /\ \A y \in L : kk < h[y].key => h[c].key <= h[y].key

Prefix(L, u, w, i) ==
    /\ i \in 1 .. Len(w) /\ u \in Seq(Hops(L)) /\ Len(u) = i - 1
    /\ \A j \in 1 .. i - 1 : u[j] = w[j]

LastLeft(w, i) ==
    /\ i \in 1 .. Len(w) /\ w[i].dir = RBT_LEFT
    /\ \A j \in 1 .. Len(w) : w[j].dir = RBT_LEFT => j <= i

(* Going back to the last left turn. *)
LEMMA TurnsEnd ==
    ASSUME RbAssumption, NEW h \in Heap, NEW L, NEW T, Tree(h, L, T), NEW kk \in Int,
           NEW w, Turns(h, L, T, L, w, kk, {}), NEW i, LastLeft(w, i), NEW u, Prefix(L, u, w, i)
    PROVE  NextAt(h, L, T, kk, w[i].nd, u)
<1> DEFINE b == w[i].nd
           lt(x) == h[x].sub[RBT_LEFT]
           rt(x) == h[x].sub[RBT_RIGHT]
<1>1. /\ w \in Seq(Hops(L)) /\ (\A j \in 1 .. Len(w) : w[j].nd \in L)
      /\ (\A j \in 1 .. Len(w) : w[j].dir = RBT_LEFT => LeftTurn(h, T, L, w, kk, {}, j))
      /\ \A y \in L : kk < h[y].key => Passed(h, T, w, y)
  BY DEF Turns
<1>2. i \in 1 .. Len(w) /\ w[i].dir = RBT_LEFT /\ \A j \in 1 .. Len(w) : w[j].dir = RBT_LEFT => j <= i
  BY DEF LastLeft
<1>3. u \in Seq(Hops(L)) /\ Len(u) = i - 1 /\ \A j \in 1 .. i - 1 : u[j] = w[j]
  BY DEF Prefix
<1>4. b \in L /\ NULL \notin L /\ Len(w) \in Nat /\ i \in Nat
  BY <1>1, <1>2, TreeSubs
<1>5. \A y \in L : h[y].key \in Int
  BY TreeKeys
<1>6. kk < h[b].key
  BY <1>1, <1>2 DEF LeftTurn
<1>7. /\ T[rt(b)] \subseteq T[b] /\ b \in T[b] /\ T[b] \subseteq L
      /\ \A y \in T[rt(b)] : h[b].key < h[y].key
  BY <1>4, TreeSides
<1> HIDE DEF b
(* A left turn above b. *)
<1>8. ASSUME NEW j \in 1 .. Len(w), w[j].dir = RBT_LEFT, j # i
      PROVE  /\ j \in 1 .. i - 1 /\ w[j].nd \in L /\ b \in T[lt(w[j].nd)] /\ h[b].key < h[w[j].nd].key
             /\ T[b] \subseteq T[lt(w[j].nd)]
             /\ \A t \in 1 .. Len(w) : j < t => w[t].nd \in T[lt(w[j].nd)]
             /\ \A y \in T[rt(w[j].nd)] : h[w[j].nd].key < h[y].key
  <2>1. j < i /\ j \in 1 .. i - 1 /\ w[j].nd \in L
    BY <1>8, <1>1, <1>2, <1>4
  <2>2. LeftTurn(h, T, L, w, kk, {}, j)
    BY <1>1, <1>8
  <2>3. \A t \in 1 .. Len(w) : j < t => w[t].nd \in T[lt(w[j].nd)]
    BY <2>2 DEF LeftTurn
  <2>4. b \in T[lt(w[j].nd)]
    BY <2>1, <2>3, <1>2 DEF b
  <2>5. /\ \A y \in T[lt(w[j].nd)] : h[y].key < h[w[j].nd].key
        /\ \A y \in T[rt(w[j].nd)] : h[w[j].nd].key < h[y].key
        /\ lt(w[j].nd) \in L \cup {NULL} /\ T[NULL] = {}
    BY <2>1, TreeSides
  <2>6. lt(w[j].nd) \in L
    BY <2>4, <2>5
  <2>7. \A y \in T[lt(w[j].nd)] : T[y] \subseteq T[lt(w[j].nd)]
    BY <2>6, TreeSides
  <2> QED BY <2>1, <2>3, <2>4, <2>5, <2>7
(* What is not at b or to its right has been passed before. *)
<1>9. ASSUME NEW y \in L, kk < h[y].key, y # b, y \notin T[rt(b)]
      PROVE  \E j \in 1 .. i - 1 : w[j].dir = RBT_LEFT /\ (y = w[j].nd \/ y \in T[rt(w[j].nd)])
  <2>1. PICK j \in 1 .. Len(w) : w[j].dir = RBT_LEFT /\ (y = w[j].nd \/ y \in T[rt(w[j].nd)])
    BY <1>1, <1>9 DEF Passed
  <2>2. j # i
    BY <2>1, <1>9 DEF b
  <2>3. j \in 1 .. i - 1
    BY <2>1, <2>2, <1>8
  <2> QED BY <2>1, <2>3
<1>10. \A j \in 1 .. i - 1 : j \in 1 .. Len(w) /\ j # i
  BY <1>2, <1>4
<1>11. \A y \in L : kk < h[y].key => h[b].key <= h[y].key
  <2> SUFFICES ASSUME NEW y \in L, kk < h[y].key PROVE h[b].key <= h[y].key
    OBVIOUS
  <2>0. h[b].key \in Int /\ h[y].key \in Int
    BY <1>4, <1>5
  <2>1. CASE y = b
    BY <2>0, <2>1
  <2>2. CASE y \in T[rt(b)]
    <3>1. h[b].key < h[y].key
      BY <2>2, <1>7
    <3> QED BY <3>1, <2>0
  <2>3. CASE y # b /\ y \notin T[rt(b)]
    <3>1. PICK j \in 1 .. i - 1 : w[j].dir = RBT_LEFT /\ (y = w[j].nd \/ y \in T[rt(w[j].nd)])
      BY <2>3, <1>9
    <3>2. /\ w[j].nd \in L /\ h[b].key < h[w[j].nd].key
          /\ \A z \in T[rt(w[j].nd)] : h[w[j].nd].key < h[z].key
      BY <3>1, <1>8, <1>10
    <3>3. y = w[j].nd \/ h[w[j].nd].key < h[y].key
      BY <3>1, <3>2
    <3>4. h[w[j].nd].key \in Int
      BY <3>2, <1>5
    <3> QED BY <3>2, <3>3, <3>4, <2>0
  <2> QED BY <2>1, <2>2, <2>3
<1>12. ASSUME NEW j \in 1 .. Len(u), u[j].dir = RBT_LEFT PROVE LeftTurn(h, T, L, u, h[b].key, T[b], j)
  <2>1. j \in 1 .. i - 1 /\ u[j] = w[j] /\ j \in 1 .. Len(w) /\ j # i
    BY <1>3, <1>10
  <2>2. /\ h[b].key < h[w[j].nd].key /\ T[b] \subseteq T[lt(w[j].nd)]
        /\ \A t \in 1 .. Len(w) : j < t => w[t].nd \in T[lt(w[j].nd)]
    BY <2>1, <1>8, <1>12
  <2>3. \A t \in 1 .. Len(u) : j < t => u[t].nd \in T[lt(w[j].nd)]
    <3> SUFFICES ASSUME NEW t \in 1 .. Len(u), j < t PROVE u[t].nd \in T[lt(w[j].nd)]
      OBVIOUS
    <3>1. t \in 1 .. i - 1 /\ u[t] = w[t] /\ t \in 1 .. Len(w)
      BY <1>3, <1>10
    <3> QED BY <3>1, <2>2
  <2> QED BY <2>1, <2>2, <2>3 DEF LeftTurn
<1>13. ASSUME NEW y \in L, y \notin T[b], h[b].key < h[y].key PROVE Passed(h, T, u, y)
  <2>1. kk < h[y].key /\ y # b /\ y \notin T[rt(b)]
    <3>1. h[b].key \in Int /\ h[y].key \in Int
      BY <1>4, <1>5
    <3>2. kk < h[y].key
      BY <3>1, <1>6, <1>13
    <3> QED BY <3>2, <1>7, <1>13
  <2>2. PICK j \in 1 .. i - 1 : w[j].dir = RBT_LEFT /\ (y = w[j].nd \/ y \in T[rt(w[j].nd)])
    BY <2>1, <1>9
  <2>3. j \in 1 .. Len(u) /\ u[j] = w[j]
    BY <1>3
  <2> QED BY <2>2, <2>3 DEF Passed
<1>14. \A j \in 1 .. Len(u) : u[j].nd \in L
  BY <1>1, <1>3, <1>10
<1>15. Placed(h, L, T, b, u)
  BY <1>3, <1>4, <1>12, <1>13, <1>14 DEF Placed, Turns
<1> QED BY <1>3, <1>4, <1>6, <1>11, <1>15 DEF NextAt, b

(* No left turn: nothing follows. *)
LEMMA TurnsNone ==
    ASSUME NEW h, NEW L, NEW T, NEW kk, NEW w, Turns(h, L, T, L, w, kk, {}),
           \A j \in 1 .. Len(w) : w[j].dir # RBT_LEFT
    PROVE  NextAt(h, L, T, kk, NULL, <<>>)
<1>1. <<>> \in Seq(Hops(L))
  OBVIOUS
<1> QED BY <1>1 DEF NextAt, Turns, Passed

(* From the right of a node on. *)
LEMMA TurnsJoin ==
    ASSUME RbAssumption, NEW h \in Heap, NEW L, NEW T, Tree(h, L, T), NEW c, NEW w, Placed(h, L, T, c, w),
           NEW v, Turns(h, L, T, T[h[c].sub[RBT_RIGHT]], v, h[c].key, {})
    PROVE  Turns(h, L, T, L, w \o <<Hop(c, RBT_RIGHT)>> \o v, h[c].key, {})
<1> DEFINE kk == h[c].key
           r == h[c].sub[RBT_RIGHT]
           x == Hop(c, RBT_RIGHT)
           q == w \o <<x>> \o v
<1>1. /\ c \in L /\ w \in Seq(Hops(L)) /\ (\A j \in 1 .. Len(w) : w[j].nd \in L)
      /\ (\A j \in 1 .. Len(w) : w[j].dir = RBT_LEFT => LeftTurn(h, T, L, w, kk, T[c], j))
      /\ \A y \in L : y \notin T[c] /\ kk < h[y].key => Passed(h, T, w, y)
  BY DEF Placed, Turns
<1>2. /\ v \in Seq(Hops(L)) /\ (\A j \in 1 .. Len(v) : v[j].nd \in T[r])
      /\ (\A j \in 1 .. Len(v) : v[j].dir = RBT_LEFT => LeftTurn(h, T, T[r], v, kk, {}, j))
      /\ \A y \in T[r] : kk < h[y].key => Passed(h, T, v, y)
  BY DEF Turns
<1>3. x \in Hops(L) /\ x.nd = c /\ x.dir # RBT_LEFT
  BY <1>1 DEF Hop, Hops, Dirs, RBT_LEFT, RBT_RIGHT
<1>4. /\ T[c] = {c} \cup T[h[c].sub[RBT_LEFT]] \cup T[r] /\ T[r] \subseteq L /\ c \in T[c]
      /\ \A y \in T[h[c].sub[RBT_LEFT]] : h[y].key < h[c].key
      /\ T[h[c].sub[RBT_LEFT]] \subseteq L
  BY <1>1, TreeSides
<1>5. \A y \in L : h[y].key \in Int
  BY TreeKeys
<1>6. \A y \in T[c] : kk < h[y].key => y \in T[r]
  BY <1>1, <1>4, <1>5
<1> HIDE DEF x, r, kk
<1>7. /\ q \in Seq(Hops(L)) /\ Len(w) \in Nat /\ Len(v) \in Nat /\ Len(q) = Len(w) + 1 + Len(v)
      /\ \A i \in 1 .. Len(w) : q[i] = w[i]
      /\ q[Len(w) + 1] = x
      /\ \A i \in 1 .. Len(v) : q[Len(w) + 1 + i] = v[i]
  BY <1>1, <1>2, <1>3, ThreeParts
<1> HIDE DEF q
<1>8. ASSUME NEW i \in 1 .. Len(q)
      PROVE  i \in 1 .. Len(w) \/ i = Len(w) + 1 \/ \E j \in 1 .. Len(v) : i = Len(w) + 1 + j
  <2> DEFINE a == Len(w)
             b == Len(v)
  <2>1. i \in Nat /\ i \in 1 .. a + 1 + b /\ a \in Nat /\ b \in Nat
    BY <1>7
  <2> HIDE DEF a, b
  <2>2. i \in 1 .. a \/ i = a + 1 \/ \E j \in 1 .. b : i = a + 1 + j
    BY <2>1, SumCases
  <2> QED BY <2>2 DEF a, b
<1>9. ASSUME NEW i \in 1 .. Len(q) PROVE q[i].nd \in L
  <2>1. CASE i \in 1 .. Len(w)
    BY <2>1, <1>1, <1>7
  <2>2. CASE i = Len(w) + 1
    BY <2>2, <1>1, <1>3, <1>7
  <2>3. ASSUME NEW j \in 1 .. Len(v), i = Len(w) + 1 + j PROVE q[i].nd \in L
    <3>1. q[i] = v[j] /\ v[j].nd \in T[r]
      BY <2>3, <1>2, <1>7
    <3> QED BY <3>1, <1>4
  <2> QED BY <2>1, <2>2, <2>3, <1>8
(* What comes after the first part is at c or below. *)
<1>10. ASSUME NEW i \in 1 .. Len(q), i \notin 1 .. Len(w) PROVE q[i].nd \in T[c]
  <2>2. CASE i = Len(w) + 1
    BY <2>2, <1>3, <1>4, <1>7
  <2>3. ASSUME NEW j \in 1 .. Len(v), i = Len(w) + 1 + j PROVE q[i].nd \in T[c]
    <3>1. q[i] = v[j] /\ v[j].nd \in T[r]
      BY <2>3, <1>2, <1>7
    <3> QED BY <3>1, <1>4
  <2> QED BY <2>2, <2>3, <1>8, <1>10
<1>11. ASSUME NEW i \in 1 .. Len(q), q[i].dir = RBT_LEFT PROVE LeftTurn(h, T, L, q, kk, {}, i)
  <2>1. CASE i \in 1 .. Len(w)
    <3>1. q[i] = w[i] /\ LeftTurn(h, T, L, w, kk, T[c], i)
      BY <2>1, <1>1, <1>7, <1>11
    <3>2. ASSUME NEW j \in 1 .. Len(q), i < j PROVE q[j].nd \in T[h[w[i].nd].sub[RBT_LEFT]]
      <4>1. CASE j \in 1 .. Len(w)
        <5>1. q[j] = w[j]
          BY <4>1, <1>7
        <5> QED BY <4>1, <5>1, <3>1, <3>2 DEF LeftTurn
      <4>2. CASE j \notin 1 .. Len(w)
        <5>1. q[j].nd \in T[c]
          BY <4>2, <1>10
        <5> QED BY <5>1, <3>1 DEF LeftTurn
      <4> QED BY <4>1, <4>2
    <3> QED BY <3>1, <3>2 DEF LeftTurn
  <2>2. i # Len(w) + 1
    BY <1>3, <1>7, <1>11
  <2>3. ASSUME NEW j \in 1 .. Len(v), i = Len(w) + 1 + j PROVE LeftTurn(h, T, L, q, kk, {}, i)
    <3>1. q[i] = v[j]
      BY <2>3, <1>7
    <3>2. LeftTurn(h, T, T[r], v, kk, {}, j)
      BY <3>1, <1>2, <1>11
    <3>3. ASSUME NEW t \in 1 .. Len(q), i < t PROVE q[t].nd \in T[h[v[j].nd].sub[RBT_LEFT]]
      <4>1. t \notin 1 .. Len(w) /\ t # Len(w) + 1
        BY <2>3, <3>3, <1>7
      <4>2. PICK s \in 1 .. Len(v) : t = Len(w) + 1 + s
        BY <4>1, <1>8
      <4>3. q[t] = v[s]
        BY <4>2, <1>7
      <4>4. j < s
        BY <4>2, <2>3, <3>3, <1>7
      <4> QED BY <4>3, <4>4, <3>2 DEF LeftTurn
    <3> QED BY <3>1, <3>2, <3>3 DEF LeftTurn
  <2> QED BY <2>1, <2>2, <2>3, <1>8
<1>12. ASSUME NEW y \in L, kk < h[y].key PROVE Passed(h, T, q, y)
  <2>1. CASE y \in T[c]
    <3>1. y \in T[r]
      BY <2>1, <1>6, <1>12
    <3>2. PICK i \in 1 .. Len(v) : v[i].dir = RBT_LEFT /\ (y = v[i].nd \/ y \in T[h[v[i].nd].sub[RBT_RIGHT]])
      BY <3>1, <1>2, <1>12 DEF Passed
    <3>3. Len(w) + 1 + i \in 1 .. Len(q) /\ q[Len(w) + 1 + i] = v[i]
      <4>1. q[Len(w) + 1 + i] = v[i]
        BY <1>7
      <4>2. Len(w) + 1 + i \in 1 .. Len(w) + 1 + Len(v)
        BY <1>7
      <4> QED BY <4>1, <4>2, <1>7
    <3> QED BY <3>2, <3>3 DEF Passed
  <2>2. CASE y \notin T[c]
    <3>1. PICK i \in 1 .. Len(w) : w[i].dir = RBT_LEFT /\ (y = w[i].nd \/ y \in T[h[w[i].nd].sub[RBT_RIGHT]])
      BY <2>2, <1>1, <1>12 DEF Passed
    <3>2. i \in 1 .. Len(q) /\ q[i] = w[i]
      BY <1>7
    <3> QED BY <3>1, <3>2 DEF Passed
  <2> QED BY <2>1, <2>2
<1> QED BY <1>7, <1>9, <1>11, <1>12 DEF Turns, q, x, kk

(* When there is nothing to the right of it. *)
LEMMA TurnsBack ==
    ASSUME RbAssumption, NEW h \in Heap, NEW L, NEW T, Tree(h, L, T), NEW c, NEW w, Placed(h, L, T, c, w),
           h[c].sub[RBT_RIGHT] = NULL
    PROVE  Turns(h, L, T, L, w, h[c].key, {})
<1> DEFINE kk == h[c].key
<1>1. /\ c \in L /\ w \in Seq(Hops(L)) /\ (\A j \in 1 .. Len(w) : w[j].nd \in L)
      /\ (\A j \in 1 .. Len(w) : w[j].dir = RBT_LEFT => LeftTurn(h, T, L, w, kk, T[c], j))
      /\ \A y \in L : y \notin T[c] /\ kk < h[y].key => Passed(h, T, w, y)
  BY DEF Placed, Turns
<1>2. /\ T[c] = {c} \cup T[h[c].sub[RBT_LEFT]] \cup T[NULL] /\ T[NULL] = {}
      /\ \A y \in T[h[c].sub[RBT_LEFT]] : h[y].key < h[c].key
      /\ T[h[c].sub[RBT_LEFT]] \subseteq L
  BY <1>1, TreeSides
<1>3. \A y \in L : h[y].key \in Int
  BY TreeKeys
<1>4. \A y \in T[c] : ~(kk < h[y].key)
  BY <1>1, <1>2, <1>3
<1> HIDE DEF kk
<1>5. \A j \in 1 .. Len(w) : LeftTurn(h, T, L, w, kk, T[c], j) => LeftTurn(h, T, L, w, kk, {}, j)
  BY DEF LeftTurn
<1> QED BY <1>1, <1>4, <1>5 DEF Turns, kk

(* The recursive function in LeftTurns, by itself. *)
LeftTurnsFcn(kk) ==
    CHOOSE down : down = [n \in Nodes \cup {NULL} |->
            IF n = NULL \/ node[n].key = kk THEN <<>>
            ELSE IF kk > node[n].key THEN down[node[n].sub[RBT_RIGHT]]
            ELSE <<Hop(n, RBT_LEFT)>> \o down[node[n].sub[RBT_LEFT]]]

(* LeftTurns, the newpath of HXrbtrav_rewalk, is what its recursive        *)
(* definition says.                                                        *)
LEMMA LeftTurnsUnfolds ==
    ASSUME RbAssumption, NEW L, NEW T, Tree(node, L, T), NEW kk
    PROVE  /\ LeftTurns(kk) = LeftTurnsFcn(kk)[Root]
           /\ \A n \in Nodes \cup {NULL} :
                 LeftTurnsFcn(kk)[n] =
                    IF n = NULL \/ node[n].key = kk THEN <<>>
                    ELSE IF kk > node[n].key THEN LeftTurnsFcn(kk)[node[n].sub[RBT_RIGHT]]
                    ELSE <<Hop(n, RBT_LEFT)>> \o LeftTurnsFcn(kk)[node[n].sub[RBT_LEFT]]
<1> DEFINE S == Nodes \cup {NULL}
           V == Seq([nd : S, dir : Dirs])
           s == SubOf(node)
           a == [m \in S |-> IF m = NULL THEN NULL ELSE s[m][SideOf(node, kk, m)]]
           G == [x \in V \X V \X S |-> IF kk > node[x[3]].key THEN x[1] ELSE <<Hop(x[3], RBT_LEFT)>> \o x[1]]
           E == {n \in S : n = NULL \/ node[n].key = kk}
           nil == <<>>
<1>0. /\ NULL \notin Nodes /\ (\A m : SideOf(node, kk, m) \in Dirs) /\ RBT_LEFT \in Dirs
      /\ \A m \in Nodes : s[m] = node[m].sub
  BY DEF RbAssumption, Dirs, SubOf, Addr, SideOf
<1> HIDE DEF s
<1>1a. PICK R \in Nat : \E rank \in [S -> 0 .. R] :
         \A m \in Nodes, d \in Dirs : s[m][d] \in S /\ rank[s[m][d]] < rank[m]
  BY Ranked DEF Tree, s
<1>1. PICK rank \in [S -> 0 .. R] :
         \A m \in Nodes, d \in Dirs : s[m][d] \in S /\ rank[s[m][d]] < rank[m]
  BY <1>1a
<1>2. a \in [S -> S]
  BY <1>0, <1>1
<1>3. \A m \in S : m \notin E => rank[a[m]] < rank[m] /\ rank[a[m]] < rank[m]
  BY <1>0, <1>1
<1>4. G \in [V \X V \X S -> V] /\ nil \in V
  <2>1. \A m \in S : <<Hop(m, RBT_LEFT)>> \in V
    BY <1>0 DEF Hop
  <2>2. \A x \in V \X V \X S : <<Hop(x[3], RBT_LEFT)>> \o x[1] \in V /\ x[1] \in V
    BY <2>1
  <2>3. nil \in V
    OBVIOUS
  <2>4. G \in [V \X V \X S -> V]
    <3> HIDE DEF V, S
    <3> QED BY <2>2
  <2> QED BY <2>3, <2>4
<1> HIDE DEF a, G, S, V, E, nil
<1>5b. \E f : Recursive(f, S, V, E, nil, a, a, G)
  BY <1>1, <1>2, <1>3, <1>4, RecExists
<1>5. PICK f \in [S -> V] :
        \A m \in S : f[m] = IF m \in E THEN nil ELSE G[<<f[a[m]], f[a[m]], m>>]
  BY <1>5b DEF Recursive
<1>6. ASSUME NEW m \in S
      PROVE  f[m] = IF m = NULL \/ node[m].key = kk THEN <<>>
                    ELSE IF kk > node[m].key THEN f[node[m].sub[RBT_RIGHT]]
                    ELSE <<Hop(m, RBT_LEFT)>> \o f[node[m].sub[RBT_LEFT]]
  <2>1. CASE m = NULL \/ node[m].key = kk
    BY <2>1, <1>5 DEF E, nil
  <2>2. CASE ~(m = NULL \/ node[m].key = kk)
    <3>1. f[m] = G[<<f[a[m]], f[a[m]], m>>]
      BY <2>2, <1>5 DEF E
    <3>2. f[a[m]] \in V
      BY <1>2
    <3>3. G[<<f[a[m]], f[a[m]], m>>] = IF kk > node[m].key THEN f[a[m]] ELSE <<Hop(m, RBT_LEFT)>> \o f[a[m]]
      BY <3>2 DEF G
    <3>4. a[m] = node[m].sub[IF kk > node[m].key THEN RBT_RIGHT ELSE RBT_LEFT]
      BY <2>2, <1>0 DEF a, S, SideOf
    <3> QED BY <2>2, <3>1, <3>3, <3>4
  <2> QED BY <2>1, <2>2
<1>7. f = [m \in S |-> IF m = NULL \/ node[m].key = kk THEN <<>>
                    ELSE IF kk > node[m].key THEN f[node[m].sub[RBT_RIGHT]]
                    ELSE <<Hop(m, RBT_LEFT)>> \o f[node[m].sub[RBT_LEFT]]]
  BY <1>6
<1>8. LeftTurnsFcn(kk) = [m \in S |-> IF m = NULL \/ node[m].key = kk THEN <<>>
            ELSE IF kk > node[m].key THEN LeftTurnsFcn(kk)[node[m].sub[RBT_RIGHT]]
            ELSE <<Hop(m, RBT_LEFT)>> \o LeftTurnsFcn(kk)[node[m].sub[RBT_LEFT]]]
  BY <1>7 DEF LeftTurnsFcn, S
<1>9. LeftTurns(kk) = LeftTurnsFcn(kk)[Root]
  BY DEF LeftTurns, LeftTurnsFcn
<1> HIDE DEF LeftTurnsFcn
<1>10. \A m \in S : LeftTurnsFcn(kk)[m] = IF m = NULL \/ node[m].key = kk THEN <<>>
            ELSE IF kk > node[m].key THEN LeftTurnsFcn(kk)[node[m].sub[RBT_RIGHT]]
            ELSE <<Hop(m, RBT_LEFT)>> \o LeftTurnsFcn(kk)[node[m].sub[RBT_LEFT]]
  BY <1>8
<1> QED BY <1>9, <1>10 DEF S

(* All hops to the left. *)
AllLeft(w) == \A i \in 1 .. Len(w) : w[i].dir = RBT_LEFT

(* A left turn in front of left turns. *)
LEMMA ConsLeft ==
    ASSUME NEW L, NEW m \in L, NEW w \in Seq(Hops(L)), AllLeft(w)
    PROVE  AllLeft(<<Hop(m, RBT_LEFT)>> \o w)
<1> DEFINE x == Hop(m, RBT_LEFT)
           v == <<x>> \o w
<1>1. x \in Hops(L) /\ x.dir = RBT_LEFT
  BY DEF Hop, Hops, Dirs
<1> HIDE DEF x
<1>2. Len(v) = Len(w) + 1 /\ v[1] = x /\ (\A i \in 1 .. Len(w) : v[i + 1] = w[i]) /\ Len(w) \in Nat
  BY <1>1, ConsIs
<1> HIDE DEF v
<1>3. ASSUME NEW i \in 1 .. Len(v) PROVE v[i].dir = RBT_LEFT
  <2>1. CASE i = 1
    BY <2>1, <1>1, <1>2
  <2>2. CASE i # 1
    <3>1. i - 1 \in 1 .. Len(w) /\ (i - 1) + 1 = i
      BY <2>2, <1>2
    <3>2. v[(i - 1) + 1] = w[i - 1]
      BY <3>1, <1>2
    <3> QED BY <3>1, <3>2 DEF AllLeft
  <2> QED BY <2>1, <2>2
<1> QED BY <1>3 DEF AllLeft, v, x

(* The empty path consists of left turns. *)
LEMMA NilLeft == AllLeft(<<>>)
<1>1. 1 .. Len(<<>>) = {}
  OBVIOUS
<1> QED BY <1>1 DEF AllLeft

(* Down the left side of a subtree whose keys are all greater. *)
SpineGoes(h, L, T, kk, m, w) ==
    (\A y \in T[m] : kk < h[y].key) => Turns(h, L, T, T[m], w, kk, {}) /\ AllLeft(w)

(* The hops of Spine are left turns, each at the next greater node that is *)
(* not in the subtree before it.                                           *)
LEMMA SpineTurns ==
    ASSUME RbAssumption, node \in Heap, NEW L, NEW T, Tree(node, L, T), NEW kk \in Int
    PROVE  \A m \in L \cup {NULL} : SpineGoes(node, L, T, kk, m, Spine(m))
<1> DEFINE P == {m \in L \cup {NULL} : SpineGoes(node, L, T, kk, m, Spine(m))}
<1>0. L \subseteq Nodes /\ NULL \notin L /\ T[NULL] = {}
  BY TreeSubs, TreeKeys
<1>1. NULL \in P
  <2>1. Spine(NULL) = <<>>
    BY SpineUnfolds
  <2>2. Turns(node, L, T, T[NULL], <<>>, kk, {})
    BY <1>0, NoTurns
  <2> QED BY <2>1, <2>2, NilLeft DEF SpineGoes
<1>2. ASSUME NEW m \in L, node[m].sub[RBT_LEFT] \in P, node[m].sub[RBT_RIGHT] \in P PROVE m \in P
  <2> DEFINE l == node[m].sub[RBT_LEFT]
  <2>1. Spine(m) = <<Hop(m, RBT_LEFT)>> \o Spine(l)
    BY <1>0, SpineUnfolds
  <2>2. SUFFICES ASSUME \A y \in T[m] : kk < node[y].key
                 PROVE  Turns(node, L, T, T[m], Spine(m), kk, {}) /\ AllLeft(Spine(m))
    BY DEF SpineGoes
  <2>3. T[l] \subseteq T[m] /\ m \in T[m]
    BY TreeSides
  <2>4. Turns(node, L, T, T[l], Spine(l), kk, {}) /\ AllLeft(Spine(l))
    BY <2>2, <2>3, <1>2 DEF SpineGoes
  <2>5. kk < node[m].key
    BY <2>2, <2>3
  <2>6. Spine(l) \in Seq(Hops(L))
    BY <2>4 DEF Turns
  <2>7. Turns(node, L, T, T[m], <<Hop(m, RBT_LEFT)>> \o Spine(l), kk, {})
    BY <2>4, <2>5, TurnsLeft
  <2>8. AllLeft(<<Hop(m, RBT_LEFT)>> \o Spine(l))
    BY <2>4, <2>6, ConsLeft
  <2> QED BY <2>1, <2>7, <2>8
<1> HIDE DEF P
<1>3. \A m \in L \cup {NULL} : m \in P
  BY <1>1, <1>2, TreeInd
<1> QED BY <1>3 DEF P

(* The left turns of the search for a key that is not there. *)
TurnsGo(h, L, T, kk, m, w) ==
    (\A y \in T[m] : h[y].key # kk) => Turns(h, L, T, T[m], w, kk, {}) /\ AllLeft(w)

(* The left turns of the search for a key are at the nodes that come after *)
(* it, nearest last.                                                       *)
LEMMA LeftTurnsIs ==
    ASSUME RbAssumption, node \in Heap, NEW L, NEW T, Tree(node, L, T), NEW kk \in Int
    PROVE  \A m \in L \cup {NULL} : TurnsGo(node, L, T, kk, m, LeftTurnsFcn(kk)[m])
<1> DEFINE f == LeftTurnsFcn(kk)
           P == {m \in L \cup {NULL} : TurnsGo(node, L, T, kk, m, f[m])}
<1>0. L \subseteq Nodes /\ NULL \notin L /\ T[NULL] = {} /\ \A y \in L : node[y].key \in Int
  BY TreeSubs, TreeKeys
<1>00. \A n \in Nodes \cup {NULL} :
         f[n] = IF n = NULL \/ node[n].key = kk THEN <<>>
                ELSE IF kk > node[n].key THEN f[node[n].sub[RBT_RIGHT]]
                ELSE <<Hop(n, RBT_LEFT)>> \o f[node[n].sub[RBT_LEFT]]
  BY LeftTurnsUnfolds
<1> HIDE DEF f
<1>1. NULL \in P
  <2>1. f[NULL] = <<>>
    BY <1>00
  <2>2. Turns(node, L, T, T[NULL], <<>>, kk, {})
    BY <1>0, NoTurns
  <2> QED BY <2>1, <2>2, NilLeft DEF TurnsGo
<1>2. ASSUME NEW m \in L, node[m].sub[RBT_LEFT] \in P, node[m].sub[RBT_RIGHT] \in P PROVE m \in P
  <2> DEFINE l == node[m].sub[RBT_LEFT]
             r == node[m].sub[RBT_RIGHT]
  <2>2. SUFFICES ASSUME \A y \in T[m] : node[y].key # kk
                 PROVE  Turns(node, L, T, T[m], f[m], kk, {}) /\ AllLeft(f[m])
    BY DEF TurnsGo
  <2>3. T[l] \subseteq T[m] /\ T[r] \subseteq T[m] /\ m \in T[m]
    BY TreeSides
  <2>4. node[m].key # kk /\ node[m].key \in Int
    BY <2>2, <2>3, <1>0
  <2>5. CASE kk > node[m].key
    <3>1. f[m] = f[r]
      BY <2>4, <2>5, <1>0, <1>00
    <3>2. Turns(node, L, T, T[r], f[r], kk, {}) /\ AllLeft(f[r])
      BY <2>2, <2>3, <1>2 DEF TurnsGo
    <3>3. node[m].key < kk
      BY <2>4, <2>5
    <3>4. Turns(node, L, T, T[m], f[r], kk, {})
      BY <3>2, <3>3, TurnsWide
    <3> QED BY <3>1, <3>2, <3>4
  <2>6. CASE ~(kk > node[m].key)
    <3>1. f[m] = <<Hop(m, RBT_LEFT)>> \o f[l]
      BY <2>4, <2>6, <1>0, <1>00
    <3>2. Turns(node, L, T, T[l], f[l], kk, {}) /\ AllLeft(f[l])
      BY <2>2, <2>3, <1>2 DEF TurnsGo
    <3>3. kk < node[m].key
      BY <2>4, <2>6
    <3>4. Turns(node, L, T, T[m], <<Hop(m, RBT_LEFT)>> \o f[l], kk, {})
      BY <3>2, <3>3, TurnsLeft
    <3>5. f[l] \in Seq(Hops(L))
      BY <3>2 DEF Turns
    <3>6. AllLeft(<<Hop(m, RBT_LEFT)>> \o f[l])
      BY <3>2, <3>5, ConsLeft
    <3> QED BY <3>1, <3>4, <3>6
  <2> QED BY <2>5, <2>6
<1> HIDE DEF P
<1>3. \A m \in L \cup {NULL} : m \in P
  BY <1>1, <1>2, TreeInd
<1> QED BY <1>3 DEF P, f

(* The search for a key that is there. *)
WalkGoes(h, L, T, kk, z, m, w) == z \in T[m] => Turns(h, L, T, T[m], w, kk, T[z])

(* The left turns among the hops to a node are at the ancestors that come  *)
(* after it, nearest last.                                                 *)
LEMMA WalkTurns ==
    ASSUME RbAssumption, node \in Heap, NEW L, NEW T, Tree(node, L, T), NEW z \in L
    PROVE  \A m \in L \cup {NULL} : WalkGoes(node, L, T, node[z].key, z, m, WalkFcn(node[z].key)[m])
<1> DEFINE kk == node[z].key
           f == WalkFcn(kk)
           P == {m \in L \cup {NULL} : WalkGoes(node, L, T, kk, z, m, f[m])}
<1>0. L \subseteq Nodes /\ NULL \notin L /\ T[NULL] = {} /\ (\A y \in L : node[y].key \in Int) /\ kk \in Int
  BY TreeSubs, TreeKeys
<1>00. \A n \in Nodes \cup {NULL} :
         f[n] = IF n = NULL \/ node[n].key = kk THEN <<>>
                ELSE <<Hop(n, SideOf(node, kk, n))>> \o f[node[n].sub[SideOf(node, kk, n)]]
  BY WalkUnfolds
<1> HIDE DEF f, kk
<1>1. NULL \in P
  BY <1>0 DEF WalkGoes
<1>2. ASSUME NEW m \in L, node[m].sub[RBT_LEFT] \in P, node[m].sub[RBT_RIGHT] \in P PROVE m \in P
  <2> DEFINE l == node[m].sub[RBT_LEFT]
             r == node[m].sub[RBT_RIGHT]
  <2>2. SUFFICES ASSUME z \in T[m] PROVE Turns(node, L, T, T[m], f[m], kk, T[z])
    BY DEF WalkGoes
  <2>3. /\ T[m] = {m} \cup T[l] \cup T[r] /\ l \in L \cup {NULL} /\ r \in L \cup {NULL}
        /\ (\A y \in T[l] : node[y].key < node[m].key) /\ (\A y \in T[r] : node[m].key < node[y].key)
    BY TreeSides
  <2>4. node[m].key \in Int
    BY <1>0
  <2>5. CASE z = m
    <3>1. f[m] = <<>>
      BY <2>5, <1>0, <1>00 DEF kk
    <3>2. Turns(node, L, T, T[m], <<>>, kk, T[z])
      BY <2>5, NoTurns
    <3> QED BY <3>1, <3>2
  <2>6. CASE z \in T[l]
    <3>1. kk < node[m].key
      BY <2>3, <2>6 DEF kk
    <3>2. SideOf(node, kk, m) = RBT_LEFT /\ node[m].key # kk /\ m # NULL
      BY <3>1, <2>4, <1>0 DEF SideOf
    <3>3. f[m] = <<Hop(m, RBT_LEFT)>> \o f[l]
      BY <3>2, <1>0, <1>00
    <3>4. Turns(node, L, T, T[l], f[l], kk, T[z])
      BY <2>6, <1>2 DEF WalkGoes
    <3>5. T[z] \subseteq T[l]
      <4>1. l \in L
        BY <2>3, <2>6, <1>0
      <4> QED BY <4>1, <2>6, TreeSides
    <3>6. Turns(node, L, T, T[m], <<Hop(m, RBT_LEFT)>> \o f[l], kk, T[z])
      BY <3>1, <3>4, <3>5, TurnsLeft
    <3> QED BY <3>3, <3>6
  <2>7. CASE z \in T[r]
    <3>1. node[m].key < kk
      BY <2>3, <2>7 DEF kk
    <3>2. SideOf(node, kk, m) = RBT_RIGHT /\ node[m].key # kk /\ m # NULL
      BY <3>1, <2>4, <1>0 DEF SideOf
    <3>3. f[m] = <<Hop(m, RBT_RIGHT)>> \o f[r]
      BY <3>2, <1>0, <1>00
    <3>4. Turns(node, L, T, T[r], f[r], kk, T[z])
      BY <2>7, <1>2 DEF WalkGoes
    <3>5. Turns(node, L, T, T[m], f[r], kk, T[z])
      BY <3>1, <3>4, <1>0, TurnsWide
    <3>6. Turns(node, L, T, T[m], <<Hop(m, RBT_RIGHT)>> \o f[r], kk, T[z])
      BY <3>5, <2>3, TurnsRight
    <3> QED BY <3>3, <3>6
  <2> QED BY <2>2, <2>3, <2>5, <2>6, <2>7
<1> HIDE DEF P
<1>3. \A m \in L \cup {NULL} : m \in P
  BY <1>1, <1>2, TreeInd
<1> QED BY <1>3 DEF P, f, kk

(* Max of a set of path positions. *)
LEMMA MaxIs ==
    ASSUME NEW n \in Nat, NEW S, S \subseteq 1 .. n, S # {}
    PROVE  Max(S) \in S /\ \A j \in S : j <= Max(S)
<1> DEFINE D == {n - j : j \in S}
<1>1. D \in SUBSET Nat /\ D # {}
  <2>1. \A j \in S : n - j \in Nat
    OBVIOUS
  <2> QED BY <2>1
<1>2. PICK d \in D : \A e \in D : d <= e
  BY <1>1, LeastNat
<1>3. PICK i \in S : d = n - i
  OBVIOUS
<1>4. \A j \in S : i >= j
  <2> SUFFICES ASSUME NEW j \in S PROVE i >= j
    OBVIOUS
  <2>1. n - j \in D
    OBVIOUS
  <2>2. n - i <= n - j
    BY <2>1, <1>2, <1>3
  <2>3. i \in Int /\ j \in Int
    OBVIOUS
  <2> QED BY <2>2, <2>3
<1>5. Max(S) \in S /\ \A j \in S : Max(S) >= j
  BY <1>3, <1>4 DEF Max
<1> HIDE DEF Max
<1>6. \A j \in S : j \in Int
  <2>1. \A j \in 1 .. n : j \in Int
    OBVIOUS
  <2> QED BY <2>1
<1> QED BY <1>5, <1>6

(* The elements of a prefix. *)
LEMMA PrefixIs ==
    ASSUME NEW L, NEW w \in Seq(Hops(L)), NEW i \in 1 .. Len(w)
    PROVE  Prefix(L, SubSeq(w, 1, i - 1), w, i)
<1> DEFINE q == SubSeq(w, 1, i - 1)
           H == Hops(L)
<1>0. w \in Seq(H) /\ Len(w) \in Nat
  OBVIOUS
<1> HIDE DEF H
<1>1. q \in Seq(H) /\ Len(q) = i - 1 /\ \A j \in 1 .. i - 1 : q[j] = w[j]
  <2>1. CASE i = 1
    <3>1. q = <<>>
      BY <2>1
    <3> QED BY <3>1, <2>1
  <2>2. CASE i # 1
    <3>1. i - 1 \in 1 .. Len(w) /\ 1 \in 1 .. Len(w) + 1
      BY <1>0, <2>2
    <3>2. \A j \in 1 .. Len(w) : w[j] \in H
      BY <1>0
    <3>3. Len(q) = i - 1 /\ \A j \in 1 .. i - 1 : q[j] = w[j]
      BY <1>0, <3>1
    <3> QED BY <1>0, <3>1, <3>2, <3>3
  <2> QED BY <2>1, <2>2
<1> QED BY <1>1 DEF Prefix, q, H

(* At the end of a path of left turns. *)
LEMMA AtEndIs ==
    ASSUME RbAssumption, NEW h \in Heap, NEW L, NEW T, Tree(h, L, T), NEW kk \in Int,
           NEW w, Turns(h, L, T, L, w, kk, {}), AllLeft(w)
    PROVE  NextAt(h, L, T, kk, AtEndOf(w).cur, AtEndOf(w).path)
<1>0. w \in Seq(Hops(L))
  BY DEF Turns
<1>1. CASE w = <<>>
  <2>1. AtEndOf(w).cur = NULL /\ AtEndOf(w).path = <<>> /\ \A j \in 1 .. Len(w) : w[j].dir # RBT_LEFT
    BY <1>1 DEF AtEndOf
  <2> QED BY <2>1, TurnsNone
<1>2. CASE w # <<>>
  <2> DEFINE i == Len(w)
             u == Front(w)
  <2>1. AtEndOf(w).cur = w[i].nd /\ AtEndOf(w).path = u
    BY <1>2 DEF AtEndOf, Last
  <2>2. /\ u \in Seq(Hops(L)) /\ Len(u) = i - 1 /\ i \in Nat /\ i >= 1
        /\ \A j \in 1 .. i - 1 : u[j] = w[j]
    BY <1>0, <1>2, FrontFacts
  <2> HIDE DEF u
  <2>3. i \in 1 .. Len(w)
    BY <2>2
  <2>4. LastLeft(w, i)
    BY <2>2, <2>3 DEF LastLeft, AllLeft
  <2>5. Prefix(L, u, w, i)
    BY <2>2, <2>3 DEF Prefix
  <2>6. NextAt(h, L, T, kk, w[i].nd, u)
    BY <2>4, <2>5, TurnsEnd
  <2> QED BY <2>1, <2>6
<1> QED BY <1>1, <1>2

(* Down to the right and left as far as it goes. *)
LEMMA NextRight ==
    ASSUME RbAssumption, NEW h \in Heap, NEW L, NEW T, Tree(h, L, T), NEW c, NEW w, Placed(h, L, T, c, w),
           NEW v, Turns(h, L, T, T[h[c].sub[RBT_RIGHT]], v, h[c].key, {}), AllLeft(v), v # <<>>
    PROVE  NextAt(h, L, T, h[c].key, Last(v).nd, w \o <<Hop(c, RBT_RIGHT)>> \o Front(v))
<1> DEFINE x == Hop(c, RBT_RIGHT)
           q == w \o <<x>> \o v
           f == Front(v)
           u == w \o <<x>> \o f
           i == Len(w) + 1 + Len(v)
           X == Hops(L)
<1>1. Turns(h, L, T, L, q, h[c].key, {})
  BY TurnsJoin
<1>2. w \in Seq(X) /\ v \in Seq(X) /\ c \in L
  BY DEF Placed, Turns
<1>3. x \in X
  BY <1>2 DEF Hop, Hops, Dirs
<1>3a. h[c].key \in Int
  BY <1>2, TreeKeys
<1> HIDE DEF x
<1>4. f \in Seq(X) /\ Len(f) = Len(v) - 1 /\ Len(v) \in Nat /\ Len(v) >= 1 /\ \A j \in 1 .. Len(v) - 1 : f[j] = v[j]
  BY <1>2, FrontFacts
<1> HIDE DEF f
<1>5. /\ q \in Seq(X) /\ Len(w) \in Nat /\ Len(q) = Len(w) + 1 + Len(v)
      /\ \A j \in 1 .. Len(w) : q[j] = w[j]
      /\ q[Len(w) + 1] = x
      /\ \A j \in 1 .. Len(v) : q[Len(w) + 1 + j] = v[j]
  BY <1>2, <1>3, ThreeParts
<1>6. /\ u \in Seq(X) /\ Len(u) = Len(w) + 1 + Len(f)
      /\ \A j \in 1 .. Len(w) : u[j] = w[j]
      /\ u[Len(w) + 1] = x
      /\ \A j \in 1 .. Len(f) : u[Len(w) + 1 + j] = f[j]
  <2>1. f \in Seq(X)
    BY <1>4
  <2> HIDE DEF X, q, i
  <2> QED BY <1>2, <1>3, <2>1, ThreeParts
<1> HIDE DEF q, u, X
<1>7. i \in 1 .. Len(q) /\ i = Len(q) /\ Len(u) = i - 1 /\ i \in Nat
  BY <1>4, <1>5, <1>6
<1>8. q[i] = v[Len(v)]
  <2>1. Len(v) \in 1 .. Len(v)
    BY <1>4
  <2> QED BY <2>1, <1>5
<1>9. LastLeft(q, i)
  <2>1. v[Len(v)].dir = RBT_LEFT
    BY <1>4 DEF AllLeft
  <2>2. \A j \in 1 .. Len(q) : j <= i
    BY <1>7
  <2> QED BY <2>1, <2>2, <1>7, <1>8 DEF LastLeft
<1>10. \A j \in 1 .. i - 1 : u[j] = q[j]
  <2> SUFFICES ASSUME NEW j \in 1 .. i - 1 PROVE u[j] = q[j]
    OBVIOUS
  <2> DEFINE a == Len(w)
             b == Len(f)
  <2>0. j \in Nat /\ j \in 1 .. a + 1 + b /\ a \in Nat /\ b \in Nat
    BY <1>4, <1>5, <1>6, <1>7
  <2> HIDE DEF a, b
  <2>1. j \in 1 .. a \/ j = a + 1 \/ \E t \in 1 .. b : j = a + 1 + t
    BY <2>0, SumCases
  <2>2. CASE j \in 1 .. a
    BY <2>2, <1>5, <1>6 DEF a
  <2>3. CASE j = a + 1
    BY <2>3, <1>5, <1>6 DEF a
  <2>4. ASSUME NEW t \in 1 .. b, j = a + 1 + t PROVE u[j] = q[j]
    <3>1. t \in 1 .. Len(f) /\ t \in 1 .. Len(v) - 1 /\ t \in 1 .. Len(v)
      BY <1>4 DEF b
    <3>2. u[Len(w) + 1 + t] = f[t] /\ q[Len(w) + 1 + t] = v[t] /\ f[t] = v[t]
      BY <3>1, <1>4, <1>5, <1>6
    <3> QED BY <3>2, <2>4 DEF a
  <2> QED BY <2>1, <2>2, <2>3, <2>4
<1>11. Prefix(L, u, q, i)
  BY <1>6, <1>7, <1>10 DEF Prefix, X
<1> HIDE DEF i
<1>12. NextAt(h, L, T, h[c].key, q[i].nd, u)
  BY <1>1, <1>3a, <1>9, <1>11, TurnsEnd
<1> QED BY <1>8, <1>12 DEF Last, u, x, f

(* Back up to the last left turn. *)
LEMMA NextUp ==
    ASSUME RbAssumption, NEW h \in Heap, NEW L, NEW T, Tree(h, L, T), NEW c, NEW w, Placed(h, L, T, c, w),
           h[c].sub[RBT_RIGHT] = NULL, NEW lefts, lefts = {i \in DOMAIN w : w[i].dir = RBT_LEFT}
    PROVE  IF lefts = {} THEN NextAt(h, L, T, h[c].key, NULL, <<>>)
           ELSE NextAt(h, L, T, h[c].key, w[Max(lefts)].nd, SubSeq(w, 1, Max(lefts) - 1))
<1>1. Turns(h, L, T, L, w, h[c].key, {})
  BY TurnsBack
<1>2. w \in Seq(Hops(L)) /\ c \in L
  BY DEF Placed, Turns
<1>3. h[c].key \in Int
  BY <1>2, TreeKeys
<1>4. DOMAIN w = 1 .. Len(w) /\ Len(w) \in Nat
  BY <1>2
<1>5. CASE lefts = {}
  <2>1. \A j \in 1 .. Len(w) : w[j].dir # RBT_LEFT
    BY <1>4, <1>5
  <2>2. NextAt(h, L, T, h[c].key, NULL, <<>>)
    BY <1>1, <2>1, TurnsNone
  <2> QED BY <2>2, <1>5
<1>6. CASE lefts # {}
  <2> DEFINE i == Max(lefts)
             u == SubSeq(w, 1, i - 1)
  <2>1. lefts \subseteq 1 .. Len(w)
    BY <1>4
  <2>2. i \in lefts /\ \A j \in lefts : j <= i
    BY <1>4, <1>6, <2>1, MaxIs
  <2> HIDE DEF i
  <2>3. LastLeft(w, i) /\ i \in 1 .. Len(w)
    BY <2>2, <1>4 DEF LastLeft
  <2>4. Prefix(L, u, w, i)
    BY <2>3, <1>2, PrefixIs
  <2> HIDE DEF u
  <2>5. NextAt(h, L, T, h[c].key, w[i].nd, u)
    BY <1>1, <1>3, <2>3, <2>4, TurnsEnd
  <2> QED BY <2>5, <1>6 DEF i, u
<1> QED BY <1>5, <1>6

(* HXrbtrav_next finds the next node. *)
LEMMA TravNextIs ==
    ASSUME RbAssumption, node \in Heap, NEW L, NEW T, Tree(node, L, T), NEW c, NEW w, Placed(node, L, T, c, w)
    PROVE  NextAt(node, L, T, node[c].key, HXrbtrav_next(c, w).cur, HXrbtrav_next(c, w).path)
<1> DEFINE r == node[c].sub[RBT_RIGHT]
           v == Spine(r)
           lefts == {i \in DOMAIN w : w[i].dir = RBT_LEFT}
<1>1. c \in L
  BY DEF Placed
<1>2. r \in L \cup {NULL} /\ (\A y \in T[r] : node[c].key < node[y].key) /\ node[c].key \in Int
      /\ L \subseteq Nodes /\ NULL \notin L
  BY <1>1, TreeSides, TreeKeys, TreeSubs
<1>3. HXrbtrav_next(c, w) =
        IF v # <<>> THEN [cur |-> Last(v).nd, path |-> w \o <<Hop(c, RBT_RIGHT)>> \o Front(v)]
        ELSE IF lefts = {} THEN [cur |-> NULL, path |-> <<>>]
        ELSE [cur |-> w[Max(lefts)].nd, path |-> SubSeq(w, 1, Max(lefts) - 1)]
  BY DEF HXrbtrav_next
<1>4. CASE v # <<>>
  <2>1. SpineGoes(node, L, T, node[c].key, r, v)
    BY <1>2, SpineTurns
  <2>2. Turns(node, L, T, T[r], v, node[c].key, {}) /\ AllLeft(v)
    BY <2>1, <1>2 DEF SpineGoes
  <2> HIDE DEF v
  <2>3. NextAt(node, L, T, node[c].key, Last(v).nd, w \o <<Hop(c, RBT_RIGHT)>> \o Front(v))
    BY <2>2, <1>4, NextRight
  <2> QED BY <2>3, <1>3, <1>4
<1>5. CASE v = <<>>
  <2>1. r = NULL
    <3>1. r \in L => v # <<>>
      BY SpineIs DEF LeftSpine
    <3> QED BY <3>1, <1>2, <1>5
  <2>2. IF lefts = {} THEN NextAt(node, L, T, node[c].key, NULL, <<>>)
        ELSE NextAt(node, L, T, node[c].key, w[Max(lefts)].nd, SubSeq(w, 1, Max(lefts) - 1))
    <3> HIDE DEF lefts
    <3>1. lefts = {i \in DOMAIN w : w[i].dir = RBT_LEFT}
      BY DEF lefts
    <3> QED BY <2>1, <3>1, NextUp
  <2> HIDE DEF lefts, v
  <2>3. CASE lefts = {}
    BY <2>2, <2>3, <1>3, <1>5
  <2>4. CASE lefts # {}
    BY <2>2, <2>4, <1>3, <1>5
  <2> QED BY <2>3, <2>4
<1> QED BY <1>4, <1>5

(* HXrbtrav_rewalk finds the node after a key, whether the key is still    *)
(* there or not.                                                           *)
LEMMA RewalkIs ==
    ASSUME RbAssumption, node \in Heap, NEW L, NEW T, Tree(node, L, T), NEW tr, tr.current # NULL, NEW cp \in Int
    PROVE  NextAt(node, L, T, cp, HXrbtrav_rewalk(tr, cp).cur, HXrbtrav_rewalk(tr, cp).path)
<1> DEFINE f == HXrbtree_find(cp)
<1>0. /\ T[Root] = L /\ Root \in L \cup {NULL} /\ NULL \notin L
  BY TreeKeys, TreeSubs DEF Root, RootOf
<1>1. f \in L \cup {NULL} /\ IF f = NULL THEN \A y \in L : node[y].key # cp ELSE node[f].key = cp
  BY PathToIs DEF Found
<1> HIDE DEF f
<1>2. CASE f # NULL
  <2>1. f \in L /\ node[f].key = cp
    BY <1>1, <1>2
  <2>2. WalkGoes(node, L, T, cp, f, Root, WalkFcn(cp)[Root])
    BY <2>1, <1>0, WalkTurns
  <2>3. Turns(node, L, T, L, Walk(cp), cp, T[f])
    BY <2>1, <2>2, <1>0, WalkUnfolds DEF WalkGoes
  <2>4. Placed(node, L, T, f, Walk(cp))
    BY <2>1, <2>3 DEF Placed
  <2>5. NextAt(node, L, T, cp, HXrbtrav_next(f, Walk(cp)).cur, HXrbtrav_next(f, Walk(cp)).path)
    BY <2>1, <2>4, TravNextIs
  <2>6. HXrbtrav_rewalk(tr, cp) = HXrbtrav_next(f, Walk(cp))
    BY <1>2 DEF HXrbtrav_rewalk, f
  <2> QED BY <2>5, <2>6
<1>3. CASE f = NULL
  <2>1. TurnsGo(node, L, T, cp, Root, LeftTurnsFcn(cp)[Root])
    BY <1>0, LeftTurnsIs
  <2>2. LeftTurns(cp) = LeftTurnsFcn(cp)[Root]
    BY LeftTurnsUnfolds
  <2> DEFINE w == LeftTurns(cp)
  <2>3. Turns(node, L, T, L, w, cp, {}) /\ AllLeft(w)
    BY <2>1, <2>2, <1>0, <1>1, <1>3 DEF TurnsGo
  <2>4. HXrbtrav_rewalk(tr, cp) = AtEndOf(w)
    BY <1>3 DEF HXrbtrav_rewalk, f
  <2> HIDE DEF w
  <2>5. NextAt(node, L, T, cp, AtEndOf(w).cur, AtEndOf(w).path)
    BY <2>3, AtEndIs
  <2> QED BY <2>4, <2>5
<1> QED BY <1>2, <1>3

(* At first it finds the least key. *)
LEMMA FirstWalkIs ==
    ASSUME RbAssumption, node \in Heap, NEW L, NEW T, Tree(node, L, T), NEW tr, tr.current = NULL, NEW cp
    PROVE  \E kk \in Int : /\ \A y \in L : kk < node[y].key
                           /\ NextAt(node, L, T, kk, HXrbtrav_rewalk(tr, cp).cur, HXrbtrav_rewalk(tr, cp).path)
<1> DEFINE w == Spine(Root)
<1>0. /\ T[Root] = L /\ Root \in L \cup {NULL} /\ NULL \notin L /\ L \subseteq Addr
      /\ (\A y \in L : node[y].key \in Int) /\ T[NULL] = {}
  BY TreeKeys, TreeSubs DEF Root, RootOf
<1>1. HXrbtrav_rewalk(tr, cp) = AtEndOf(w)
  BY DEF HXrbtrav_rewalk
<1>2. \E kk \in Int : \A y \in L : kk < node[y].key
  <2>1. CASE Root = NULL
    BY <2>1, <1>0
  <2>2. CASE Root \in L
    <3>1. LeftSpine(KeyOf(node), SubOf(node), L, T, Root, w)
      BY <2>2, SpineIs
    <3> DEFINE b == w[Len(w)].nd
    <3>2. w \in Seq(Hops(L)) /\ w # <<>> /\ \A y \in L : y = b \/ KeyOf(node)[b] < KeyOf(node)[y]
      BY <3>1, <1>0 DEF LeftSpine, Chain
    <3> HIDE DEF w
    <3>3. b \in L
      <4>1. Len(w) \in 1 .. Len(w)
        BY <3>2
      <4>2. w[Len(w)] \in Hops(L)
        BY <3>2, <4>1
      <4> QED BY <4>2 DEF Hops
    <3>4. \A y \in L : y = b \/ node[b].key < node[y].key
      BY <3>2, <3>3, <1>0, HeapSubs
    <3> HIDE DEF b
    <3>5. node[b].key - 1 \in Int /\ \A y \in L : node[b].key - 1 < node[y].key
      BY <3>3, <3>4, <1>0
    <3> QED BY <3>5
  <2> QED BY <2>1, <2>2, <1>0
<1>3. PICK kk \in Int : \A y \in L : kk < node[y].key
  BY <1>2
<1>4. SpineGoes(node, L, T, kk, Root, w)
  BY <1>0, SpineTurns
<1>5. Turns(node, L, T, L, w, kk, {}) /\ AllLeft(w)
  BY <1>0, <1>3, <1>4 DEF SpineGoes
<1> HIDE DEF w
<1>6. NextAt(node, L, T, kk, AtEndOf(w).cur, AtEndOf(w).path)
  BY <1>5, AtEndIs
<1> QED BY <1>1, <1>3, <1>6

(* A step that changes neither links nor keys. *)
LEMMA PlacedSame ==
    ASSUME RbAssumption, NEW h \in Heap, NEW L, NEW T, Tree(h, L, T), NEW c, NEW w, Placed(h, L, T, c, w),
           NEW h1, \A y \in Addr : h1[y].key = h[y].key /\ h1[y].sub = h[y].sub
    PROVE  Placed(h1, L, T, c, w)
<1>1. L \subseteq Addr
  BY TreeSubs
<1>2. /\ c \in L /\ w \in Seq(Hops(L)) /\ (\A j \in 1 .. Len(w) : w[j].nd \in L)
      /\ (\A j \in 1 .. Len(w) : w[j].dir = RBT_LEFT => LeftTurn(h, T, L, w, h[c].key, T[c], j))
      /\ \A y \in L : y \notin T[c] /\ h[c].key < h[y].key => Passed(h, T, w, y)
  BY DEF Placed, Turns
<1>3. \A y \in L : h1[y].key = h[y].key /\ h1[y].sub = h[y].sub
  BY <1>1
<1>4. ASSUME NEW j \in 1 .. Len(w), w[j].dir = RBT_LEFT PROVE LeftTurn(h1, T, L, w, h1[c].key, T[c], j)
  <2>1. LeftTurn(h, T, L, w, h[c].key, T[c], j) /\ w[j].nd \in L
    BY <1>2, <1>4
  <2>2. h1[w[j].nd].key = h[w[j].nd].key /\ h1[w[j].nd].sub = h[w[j].nd].sub /\ h1[c].key = h[c].key
    BY <2>1, <1>2, <1>3
  <2> QED BY <2>1, <2>2 DEF LeftTurn
<1>5. ASSUME NEW y \in L, y \notin T[c], h1[c].key < h1[y].key PROVE Passed(h1, T, w, y)
  <2>1. h1[y].key = h[y].key /\ h1[c].key = h[c].key
    BY <1>2, <1>3
  <2>2. PICK i \in 1 .. Len(w) : w[i].dir = RBT_LEFT /\ (y = w[i].nd \/ y \in T[h[w[i].nd].sub[RBT_RIGHT]])
    BY <2>1, <1>2, <1>5 DEF Passed
  <2>3. h1[w[i].nd].sub = h[w[i].nd].sub
    BY <1>2, <1>3
  <2> QED BY <2>2, <2>3 DEF Passed
<1> QED BY <1>2, <1>4, <1>5 DEF Placed, Turns

(* Two nodes neither of which is below the other part somewhere above. *)
Parted(h, T, m, x, y) == x \in T[h[m].sub[RBT_LEFT]] /\ y \in T[h[m].sub[RBT_RIGHT]]

(* Two nodes neither of which is below the other are parted by a node      *)
(* between them in key order.                                              *)
LEMMA Apart ==
    ASSUME RbAssumption, NEW h \in Heap, NEW L, NEW T, Tree(h, L, T), NEW x \in L, NEW y \in L,
           x \notin T[y], y \notin T[x]
    PROVE  \E m \in L : Parted(h, T, m, x, y) \/ Parted(h, T, m, y, x)
<1> DEFINE Goal == \E m \in L : Parted(h, T, m, x, y) \/ Parted(h, T, m, y, x)
           P == {m \in L \cup {NULL} : x \in T[m] /\ y \in T[m] => Goal}
<1>0. T[NULL] = {} /\ T[RootOf(h)] = L /\ RootOf(h) \in L \cup {NULL}
  BY TreeKeys
<1>1. NULL \in P
  BY <1>0
<1>2. ASSUME NEW m \in L, h[m].sub[RBT_LEFT] \in P, h[m].sub[RBT_RIGHT] \in P PROVE m \in P
  <2>1. T[m] = {m} \cup T[h[m].sub[RBT_LEFT]] \cup T[h[m].sub[RBT_RIGHT]]
    BY TreeSides
  <2>2. SUFFICES ASSUME x \in T[m], y \in T[m] PROVE Goal
    OBVIOUS
  <2>3. x # m /\ y # m
    BY <2>2
  <2>4. CASE x \in T[h[m].sub[RBT_LEFT]] /\ y \in T[h[m].sub[RBT_LEFT]]
    BY <2>4, <1>2
  <2>5. CASE x \in T[h[m].sub[RBT_RIGHT]] /\ y \in T[h[m].sub[RBT_RIGHT]]
    BY <2>5, <1>2
  <2>6. CASE Parted(h, T, m, x, y) \/ Parted(h, T, m, y, x)
    BY <2>6
  <2> QED BY <2>1, <2>2, <2>3, <2>4, <2>5, <2>6 DEF Parted
<1> HIDE DEF P
<1>3. \A m \in L \cup {NULL} : m \in P
  BY <1>1, <1>2, TreeInd
<1>4. RootOf(h) \in P
  BY <1>0, <1>3
<1> QED BY <1>0, <1>4 DEF P

(* How the subtrees grow with a new node n below a. *)
Wider(h, h1, L, T, T1, a, e, n) ==
    /\ \A y \in L \cup {NULL} : T[y] \subseteq T1[y] /\ T1[y] \subseteq T[y] \cup {n}
    /\ \A y \in L \cup {NULL} : a \in T[y] => n \in T1[y]
    /\ n \in T1[n]
    /\ \A x \in L, f \in Dirs : T[h[x].sub[f]] \subseteq T1[h1[x].sub[f]]
    /\ \A x \in L, f \in Dirs : a \in T[h[x].sub[f]] => n \in T1[h1[x].sub[f]]
    /\ \A y \in L : h1[y].key = h[y].key

(* Linking a new leaf changes no subtree but those it is hung into. *)
LEMMA WiderIs ==
    ASSUME RbAssumption, NEW h \in Heap, NEW L, NEW T, Tree(h, L, T), NEW a, NEW e, Slot(L, a, e),
           h[a].sub[e] = NULL, NEW n \in Nodes, n \notin L, NEW kk, NEW h1, Grown(h, h1, a, e, n, kk)
    PROVE  Wider(h, h1, L, T, InsertedT(T, L, a, n), a, e, n)
<1> DEFINE T1 == InsertedT(T, L, a, n)
<1>0. /\ NULL \notin L /\ L \subseteq Addr /\ n # NULL /\ T[NULL] = {}
      /\ \A x \in L, f \in Dirs : h[x].sub[f] \in L \cup {NULL}
  BY TreeSubs, TreeKeys DEF RbAssumption
<1>1. \A y \in L \cup {NULL} : T1[y] = IF a \in T[y] THEN T[y] \cup {n} ELSE T[y]
  BY <1>0 DEF InsertedT
<1>2. T1[n] = {n}
  BY DEF InsertedT
<1> HIDE DEF T1
<1>3. \A y \in Addr, f \in Dirs : y # n /\ ~(y = a /\ f = e) => h1[y].sub[f] = h[y].sub[f]
  BY DEF Grown
<1>4. ASSUME NEW x \in L, NEW f \in Dirs
      PROVE  T[h[x].sub[f]] \subseteq T1[h1[x].sub[f]] /\ (a \in T[h[x].sub[f]] => n \in T1[h1[x].sub[f]])
  <2>1. CASE x = a /\ f = e
    <3>1. T[h[x].sub[f]] = {}
      BY <2>1, <1>0
    <3> QED BY <3>1
  <2>2. CASE ~(x = a /\ f = e)
    <3>1. h1[x].sub[f] = h[x].sub[f] /\ h[x].sub[f] \in L \cup {NULL}
      BY <2>2, <1>0, <1>3
    <3> QED BY <3>1, <1>1
  <2> QED BY <2>1, <2>2
<1>5. \A y \in L : h1[y].key = h[y].key
  BY <1>0 DEF Grown
<1>6. \A y \in L \cup {NULL} : T[y] \subseteq T1[y] /\ T1[y] \subseteq T[y] \cup {n} /\ (a \in T[y] => n \in T1[y])
  BY <1>1
<1> QED BY <1>2, <1>4, <1>5, <1>6 DEF Wider, T1

(* The new node, if it comes after c and not below it, is to the right of  *)
(* a left turn.                                                            *)
LEMMA NewPassed ==
    ASSUME RbAssumption, NEW h \in Heap, NEW L, NEW T, Tree(h, L, T), NEW c, NEW w, Placed(h, L, T, c, w),
           NEW a \in L, NEW e \in Dirs, h[a].sub[e] = NULL, NEW n \in Nodes, n \notin L,
           NEW h1 \in Heap, NEW L1, NEW T1, Tree(h1, L1, T1), Wider(h, h1, L, T, T1, a, e, n), L \subseteq L1, n \in L1,
           h1[a].sub[e] = n, n \notin T1[c], h[c].key < h1[n].key
    PROVE  Passed(h1, T1, w, n)
<1>1. /\ c \in L /\ (\A j \in 1 .. Len(w) : w[j].nd \in L)
      /\ (\A j \in 1 .. Len(w) : w[j].dir = RBT_LEFT => LeftTurn(h, T, L, w, h[c].key, T[c], j))
      /\ \A y \in L : y \notin T[c] /\ h[c].key < h[y].key => Passed(h, T, w, y)
  BY DEF Placed, Turns
<1>2. a \notin T[c] /\ c \in T[c] /\ T[NULL] = {} /\ a # c
  BY <1>1, TreeSides DEF Wider
<1>3. (\A y \in L : h[y].key \in Int /\ h1[y].key = h[y].key) /\ h1[n].key \in Int
  BY TreeKeys DEF Wider
<1>4. RBT_LEFT \in Dirs /\ RBT_RIGHT \in Dirs /\ (e = RBT_LEFT \/ e = RBT_RIGHT)
  BY DEF Dirs
<1>5. CASE h[c].key < h[a].key
  <2>1. PICK i \in 1 .. Len(w) : w[i].dir = RBT_LEFT /\ (a = w[i].nd \/ a \in T[h[w[i].nd].sub[RBT_RIGHT]])
    BY <1>1, <1>2, <1>5 DEF Passed
  <2>2. CASE a = w[i].nd
    <3>1. c \in T[h[a].sub[RBT_LEFT]]
      BY <2>1, <2>2, <1>1, <1>2 DEF LeftTurn
    <3>2. e = RBT_RIGHT
      BY <3>1, <1>2, <1>4
    <3>3. n \in T1[h1[a].sub[RBT_RIGHT]]
      BY <3>2 DEF Wider
    <3> QED BY <2>1, <2>2, <3>3 DEF Passed
  <2>3. CASE a \in T[h[w[i].nd].sub[RBT_RIGHT]]
    <3>1. n \in T1[h1[w[i].nd].sub[RBT_RIGHT]]
      BY <2>3, <1>1, <1>4 DEF Wider
    <3> QED BY <2>1, <3>1 DEF Passed
  <2> QED BY <2>1, <2>2, <2>3
<1>6. CASE h[a].key < h[c].key
  <2>1. /\ \A y \in T1[h1[a].sub[RBT_LEFT]] : h1[y].key < h1[a].key
        /\ T[a] = {a} \cup T[h[a].sub[RBT_LEFT]] \cup T[h[a].sub[RBT_RIGHT]]
        /\ \A y \in T[h[a].sub[RBT_LEFT]] : h[y].key < h[a].key
    BY TreeSides
  <2>2. e = RBT_RIGHT
    <3> SUFFICES ASSUME e = RBT_LEFT PROVE FALSE
      BY <1>4
    <3>1. n \in T1[h1[a].sub[RBT_LEFT]]
      BY DEF Wider
    <3>2. h1[n].key < h1[a].key /\ h1[a].key = h[a].key
      BY <3>1, <2>1, <1>3
    <3> QED BY <3>2, <1>1, <1>3, <1>6
  <2>3. c \notin T[a]
    <3> SUFFICES ASSUME c \in T[h[a].sub[RBT_LEFT]] PROVE FALSE
      BY <2>1, <2>2, <1>2
    <3>1. h[c].key < h[a].key
      BY <2>1
    <3> QED BY <3>1, <1>1, <1>3, <1>6
  <2>4. PICK m \in L : Parted(h, T, m, a, c) \/ Parted(h, T, m, c, a)
    BY <2>3, <1>1, <1>2, Apart
  <2>5. /\ \A y \in T[h[m].sub[RBT_LEFT]] : h[y].key < h[m].key
        /\ \A y \in T[h[m].sub[RBT_RIGHT]] : h[m].key < h[y].key
        /\ \A y \in T1[h1[m].sub[RBT_LEFT]] : h1[y].key < h1[m].key
    BY TreeSides
  <2>6. CASE Parted(h, T, m, a, c)
    <3>1. n \in T1[h1[m].sub[RBT_LEFT]] /\ h[m].key < h[c].key
      BY <2>5, <2>6, <1>4 DEF Parted, Wider
    <3>2. h1[n].key < h1[m].key /\ h1[m].key = h[m].key
      BY <3>1, <2>5, <1>3
    <3> QED BY <3>1, <3>2, <1>1, <1>3
  <2>7. CASE Parted(h, T, m, c, a)
    <3>1. h[c].key < h[m].key /\ h[m].key < h[a].key
      BY <2>5, <2>7 DEF Parted
    <3> QED BY <3>1, <1>1, <1>3, <1>6
  <2> QED BY <2>4, <2>6, <2>7
<1>7. h[a].key # h[c].key
  <2> SUFFICES ASSUME h[a].key = h[c].key PROVE FALSE
    OBVIOUS
  <2>1. CASE c \in T[a]
    <3>1. T[a] = {a} \cup T[h[a].sub[RBT_LEFT]] \cup T[h[a].sub[RBT_RIGHT]]
          /\ (\A y \in T[h[a].sub[RBT_LEFT]] : h[y].key < h[a].key)
          /\ \A y \in T[h[a].sub[RBT_RIGHT]] : h[a].key < h[y].key
      BY TreeSides
    <3>2. h[c].key < h[a].key \/ h[a].key < h[c].key
      BY <2>1, <3>1, <1>2
    <3> QED BY <3>2, <1>1, <1>3
  <2>2. CASE c \notin T[a]
    <3>1. PICK m \in L : Parted(h, T, m, a, c) \/ Parted(h, T, m, c, a)
      BY <2>2, <1>1, <1>2, Apart
    <3>2. /\ \A y \in T[h[m].sub[RBT_LEFT]] : h[y].key < h[m].key
          /\ \A y \in T[h[m].sub[RBT_RIGHT]] : h[m].key < h[y].key
      BY TreeSides
    <3>3. (h[a].key < h[m].key /\ h[m].key < h[c].key) \/ (h[c].key < h[m].key /\ h[m].key < h[a].key)
      BY <3>1, <3>2 DEF Parted
    <3> QED BY <3>3, <1>1, <1>3
  <2> QED BY <2>1, <2>2
<1>8. h[a].key \in Int /\ h[c].key \in Int
  BY <1>1, <1>3
<1> QED BY <1>5, <1>6, <1>7, <1>8

(* A traverser keeps its place when a node is added. *)
LEMMA PlacedGrow ==
    ASSUME RbAssumption, NEW h \in Heap, NEW L, NEW T, Tree(h, L, T), Clean(h, L), NEW c, NEW w, Placed(h, L, T, c, w),
           NEW kk \in Int, NEW p, Found(h, L, kk, p, NULL), NEW n \in Nodes, n \notin L,
           NEW h1, Grown(h, h1, p[Len(p)].nd, p[Len(p)].dir, n, kk)
    PROVE  \E T1 : Tree(h1, L \cup {n}, T1) /\ Placed(h1, L \cup {n}, T1, c, w)
<1> DEFINE a == p[Len(p)].nd
           e == p[Len(p)].dir
           T1 == InsertedT(T, L, a, n)
           L1 == L \cup {n}
<1>1. Tree(h1, L1, T1)
  BY GrowTree
<1>2. GoodPath(SubOf(h), L, p) /\ h[a].sub[e] = NULL
  BY DEF Found
<1>3. Slot(L, a, e)
  BY <1>2, PathHeap
<1> HIDE DEF a, e
<1>4. Wider(h, h1, L, T, T1, a, e, n)
  BY <1>2, <1>3, WiderIs DEF a, e
<1>5. h1 \in Heap /\ h1[n].key = kk /\ h1[a].sub[e] = n
  BY DEF Grown, a, e
<1> HIDE DEF T1
<1>6. /\ c \in L /\ w \in Seq(Hops(L)) /\ (\A j \in 1 .. Len(w) : w[j].nd \in L)
      /\ (\A j \in 1 .. Len(w) : w[j].dir = RBT_LEFT => LeftTurn(h, T, L, w, h[c].key, T[c], j))
      /\ \A y \in L : y \notin T[c] /\ h[c].key < h[y].key => Passed(h, T, w, y)
  BY DEF Placed, Turns
<1>7. a \in L /\ e \in Dirs
  <2>1. RootOf(h) = NULL => L = {}
    BY TreeKeys
  <2>2. a # ROOT
    <3>1. a = ROOT => e = RBT_LEFT
      BY <1>3, TreeSubs DEF Slot
    <3>2. a = ROOT => RootOf(h) = NULL
      BY <3>1, <1>2 DEF RootOf
    <3> QED BY <2>1, <3>2, <1>6
  <2> QED BY <2>2, <1>3 DEF Slot, Dirs
<1>8. RBT_LEFT \in Dirs /\ RBT_RIGHT \in Dirs
  BY DEF Dirs
<1>9. w \in Seq(Hops(L1))
  <2>1. Hops(L) \subseteq Hops(L1)
    BY DEF Hops
  <2> QED BY <2>1, <1>6, SeqWider
<1>10. c \in T[c] /\ c \in T1[c] /\ h1[c].key = h[c].key
  BY <1>4, <1>6, TreeSides DEF Wider
<1>11. ASSUME NEW j \in 1 .. Len(w), w[j].dir = RBT_LEFT PROVE LeftTurn(h1, T1, L1, w, h1[c].key, T1[c], j)
  <2> DEFINE x == w[j].nd
             l == h[x].sub[RBT_LEFT]
             l1 == h1[x].sub[RBT_LEFT]
  <2>1. LeftTurn(h, T, L, w, h[c].key, T[c], j) /\ x \in L
    BY <1>6, <1>11
  <2>2. T[l] \subseteq T1[l1] /\ h1[x].key = h[x].key
    BY <2>1, <1>4, <1>8 DEF Wider
  <2>3. c \in T1[l1]
    BY <2>1, <2>2, <1>10 DEF LeftTurn
  <2>4. l1 \in L1 \cup {NULL} /\ T1[NULL] = {}
    BY <2>1, <1>1, <1>5, TreeSides
  <2>5. l1 \in L1
    BY <2>3, <2>4
  <2>6. T1[c] \subseteq T1[l1]
    BY <2>3, <2>5, <1>1, <1>5, TreeSides
  <2>7. \A t \in 1 .. Len(w) : j < t => w[t].nd \in T1[l1]
    BY <2>1, <2>2 DEF LeftTurn
  <2> QED BY <2>1, <2>2, <2>6, <2>7, <1>10 DEF LeftTurn
<1>12. ASSUME NEW y \in L1, y \notin T1[c], h1[c].key < h1[y].key PROVE Passed(h1, T1, w, y)
  <2>1. CASE y \in L
    <3>1. h1[y].key = h[y].key /\ y \notin T[c]
      BY <2>1, <1>4, <1>6, <1>12 DEF Wider
    <3>2. PICK i \in 1 .. Len(w) : w[i].dir = RBT_LEFT /\ (y = w[i].nd \/ y \in T[h[w[i].nd].sub[RBT_RIGHT]])
      BY <2>1, <3>1, <1>6, <1>10, <1>12 DEF Passed
    <3>3. T[h[w[i].nd].sub[RBT_RIGHT]] \subseteq T1[h1[w[i].nd].sub[RBT_RIGHT]]
      BY <1>4, <1>6, <1>8 DEF Wider
    <3> QED BY <3>2, <3>3 DEF Passed
  <2>2. CASE y = n
    <3>1. h[c].key < h1[n].key /\ n \notin T1[c]
      BY <2>2, <1>10, <1>12
    <3>2. Passed(h1, T1, w, n)
      BY <3>1, <1>1, <1>2, <1>4, <1>5, <1>7, NewPassed
    <3> QED BY <2>2, <3>2
  <2> QED BY <2>1, <2>2
<1>13. \A j \in 1 .. Len(w) : w[j].nd \in L1
  BY <1>6
<1>14. Placed(h1, L1, T1, c, w)
  BY <1>6, <1>9, <1>11, <1>12, <1>13 DEF Placed, Turns
<1> QED BY <1>1, <1>14

-----------------------------------------------------------------------------
(* A step of HXrbtree_traverse, and the traversers' invariant.             *)

TravRec ==
    [st : {"none", "open", "end"}, sync : BOOLEAN, current : Nodes \cup {NULL}, path : Seq(Hops(Nodes)),
     checkpoint : Keys \cup {NULL}, mem : {"none", "user", "own", "no memory", "node", "stale"},
     pos : Keys \cup {NULL}]

(* A traverser in step with the tree knows its place. *)
InPlace(h, L, tr) == \E T : Tree(h, L, T) /\ Placed(h, L, T, tr.current, tr.path)

TravOK(h, L, tr) ==
    tr.st = "open" =>
        /\ tr.current = NULL => tr.pos = NULL
        /\ tr.current # NULL => tr.pos \in Keys /\ tr.checkpoint = tr.pos
        /\ tr.sync => InPlace(h, L, tr) /\ tr.pos = h[tr.current].key

TravInv ==
    /\ trav \in [Travs -> TravRec]
    /\ \A t \in Travs : TravOK(node, InTreeOf(node, call), trav[t])
    /\ call.fn = "del" => \A t \in Travs : ~trav[t].sync

(* kk stands where the traverser's last key does. *)
Stands(h, L, pos, kk) == \A y \in L : (pos = NULL \/ h[y].key > pos) <=> kk < h[y].key

(* Where the next call of HXmap_traverse gets to. *)
Position(tr, cp) ==
    IF ~tr.sync \/ tr.current = NULL THEN HXrbtrav_rewalk(tr, cp) ELSE HXrbtrav_next(tr.current, tr.path)

Reached(h, L, tr, at, kk) ==
    /\ kk \in Int
    /\ \E T : Tree(h, L, T) /\ NextAt(h, L, T, kk, at.cur, at.path)
    /\ tr.mem \notin {"stale", "no memory"} => Stands(h, L, tr.pos, kk)

(* The position HXrbtree_traverse moves to, by the path it has or by       *)
(* searching for its checkpoint, is the next node in key order, with a     *)
(* path that fits it.                                                      *)
LEMMA PositionIs ==
    ASSUME RbAssumption, node \in Heap, NEW L, NEW T, Tree(node, L, T), NEW tr \in TravRec, tr.st = "open",
           TravOK(node, L, tr), NEW cp \in CheckpointReads(tr)
    PROVE  \E kk : Reached(node, L, tr, Position(tr, cp), kk)
<1>0. /\ \A y \in L : node[y].key \in Int
      /\ NULL \notin L /\ Keys \subseteq Int /\ NULL \notin Keys
  BY TreeKeys, TreeSubs DEF RbAssumption
<1>1. CASE tr.current = NULL
  <2>1. Position(tr, cp) = HXrbtrav_rewalk(tr, cp)
    BY <1>1 DEF Position
  <2>2. PICK kk \in Int : /\ \A y \in L : kk < node[y].key
                          /\ NextAt(node, L, T, kk, HXrbtrav_rewalk(tr, cp).cur, HXrbtrav_rewalk(tr, cp).path)
    BY <1>1, FirstWalkIs
  <2>3. tr.pos = NULL
    BY <1>1 DEF TravOK
  <2>4. Stands(node, L, tr.pos, kk)
    BY <2>2, <2>3 DEF Stands
  <2> QED BY <2>1, <2>2, <2>4 DEF Reached
<1>2. CASE tr.current # NULL /\ ~tr.sync
  <2>1. Position(tr, cp) = HXrbtrav_rewalk(tr, cp)
    BY <1>2 DEF Position
  <2>2. tr.pos \in Keys /\ tr.checkpoint = tr.pos
    BY <1>2 DEF TravOK
  <2>3. cp \in Int /\ (tr.mem \notin {"stale", "no memory"} => cp = tr.pos)
    BY <2>2, <1>0 DEF CheckpointReads
  <2>4. NextAt(node, L, T, cp, HXrbtrav_rewalk(tr, cp).cur, HXrbtrav_rewalk(tr, cp).path)
    BY <1>2, <2>3, RewalkIs
  <2>5. Stands(node, L, tr.pos, tr.pos)
    BY <2>2, <1>0 DEF Stands
  <2> QED BY <2>1, <2>3, <2>4, <2>5 DEF Reached
<1>3. CASE tr.current # NULL /\ tr.sync
  <2> DEFINE c == tr.current
  <2>1. Position(tr, cp) = HXrbtrav_next(c, tr.path)
    BY <1>3 DEF Position
  <2>2. tr.pos \in Keys /\ InPlace(node, L, tr) /\ tr.pos = node[c].key
    BY <1>3 DEF TravOK
  <2>3. PICK T1 : Tree(node, L, T1) /\ Placed(node, L, T1, c, tr.path)
    BY <2>2 DEF InPlace
  <2>4. NextAt(node, L, T1, node[c].key, HXrbtrav_next(c, tr.path).cur, HXrbtrav_next(c, tr.path).path)
    BY <2>3, TravNextIs
  <2>5. Stands(node, L, tr.pos, tr.pos) /\ tr.pos \in Int
    BY <2>2, <1>0 DEF Stands
  <2> QED BY <2>1, <2>2, <2>3, <2>4, <2>5 DEF Reached
<1>4. tr.sync \in BOOLEAN
  BY DEF TravRec
<1> QED BY <1>1, <1>2, <1>3, <1>4

(* What a call of HXmap_traverse does with the traverser. *)
MovedTo(h, tr, tr1, at) ==
    /\ tr1 \in TravRec
    /\ at.cur # NULL => /\ tr1.st = "open" /\ tr1.sync = TRUE /\ tr1.current = at.cur /\ tr1.path = at.path
                        /\ tr1.checkpoint = h[at.cur].key /\ tr1.pos = h[at.cur].key
    /\ at.cur = NULL => tr1.st = "end"

(* HXrbtree_traverse moves its traverser there and leaves the other        *)
(* traversers alone.                                                       *)
LEMMA TraverseMoves ==
    ASSUME RbAssumption, RbInv, TravInv, NEW t \in Travs, HXrbtree_traverse(t)
    PROVE  \E kk, at : /\ Reached(node, AllocOf(node), trav[t], at, kk)
                       /\ MovedTo(node, trav[t], trav'[t], at)
                       /\ \A x \in Travs : x # t => trav'[x] = trav[x]
                       /\ trav' \in [Travs -> TravRec]
<1> DEFINE tr == trav[t]
           L == AllocOf(node)
<1>1. call.pc = "idle" /\ call.fn = "none" /\ node \in Heap /\ tr.st = "open"
  BY DEF HXrbtree_traverse, Ready, RbInv, Good, CallOK
<1>2. InTreeOf(node, call) = L
  BY <1>1 DEF InTreeOf
<1>3. PICK T : Tree(node, L, T)
  BY <1>2 DEF RbInv, Good
<1>4. tr \in TravRec /\ TravOK(node, L, tr) /\ trav \in [Travs -> TravRec]
  BY <1>2 DEF TravInv
<1> HIDE DEF tr, L
<1>5. PICK cp \in CheckpointReads(tr), mem \in HXrbtrav_checkpoint :
        LET rewalk == ~tr.sync \/ tr.current = NULL
            again == rewalk /\ tr.current # NULL /\ HXrbtree_find(cp) # NULL
            at == IF rewalk THEN HXrbtrav_rewalk(tr, cp) ELSE HXrbtrav_next(tr.current, tr.path)
            moved == [tr EXCEPT !.sync = TRUE, !.current = at.cur, !.path = at.path]
        IN  \/ /\ at.cur # NULL
               /\ trav' = [trav EXCEPT ![t] = [moved EXCEPT !.checkpoint = node[at.cur].key, !.mem = mem,
                                                            !.pos = node[at.cur].key]]
            \/ /\ at.cur = NULL
               /\ trav' = [trav EXCEPT ![t] = [moved EXCEPT !.st = "end",
                                                            !.checkpoint = IF again THEN cp ELSE @,
                                                            !.mem = IF again THEN mem ELSE @]]
  BY ZenonT(90) DEF HXrbtree_traverse, tr
<1> DEFINE at == Position(tr, cp)
<1>6. PICK kk : Reached(node, L, tr, at, kk)
  BY <1>1, <1>3, <1>4, PositionIs DEF tr
<1> DEFINE moved == [tr EXCEPT !.sync = TRUE, !.current = at.cur, !.path = at.path]
           again == (~tr.sync \/ tr.current = NULL) /\ tr.current # NULL /\ HXrbtree_find(cp) # NULL
           new == [moved EXCEPT !.checkpoint = node[at.cur].key, !.mem = mem, !.pos = node[at.cur].key]
           end == [moved EXCEPT !.st = "end", !.checkpoint = IF again THEN cp ELSE @, !.mem = IF again THEN mem ELSE @]
<1>7. (at.cur # NULL /\ trav' = [trav EXCEPT ![t] = new]) \/ (at.cur = NULL /\ trav' = [trav EXCEPT ![t] = end])
  BY <1>5 DEF Position
<1> HIDE DEF at, again
<1>8. mem \in {"user", "own", "no memory", "node"} /\ cp \in Keys \cup {NULL}
  BY <1>4 DEF HXrbtrav_checkpoint, CheckpointReads, TravRec
<1>9. PICK T2 : Tree(node, L, T2) /\ NextAt(node, L, T2, kk, at.cur, at.path)
  BY <1>6 DEF Reached
<1>10. L \subseteq Nodes /\ NULL \notin L
  BY <1>1, <1>9, TreeSubs
<1>11. ASSUME at.cur # NULL PROVE new \in TravRec /\ MovedTo(node, tr, new, at)
  <2>1. at.cur \in L /\ at.path \in Seq(Hops(L))
    BY <1>9, <1>11 DEF NextAt, Placed, Turns
  <2>2. Hops(L) \subseteq Hops(Nodes)
    BY <1>10 DEF Hops
  <2>3. at.path \in Seq(Hops(Nodes))
    BY <2>1, <2>2, SeqWider
  <2>4. node[at.cur].key \in Keys \cup {NULL}
    BY <2>1, <1>1, <1>10 DEF Heap, Node, Addr
  <2>5. at.cur \in Nodes
    BY <2>1, <1>10
  <2>6. moved \in TravRec /\ moved.sync = TRUE /\ moved.current = at.cur /\ moved.path = at.path /\ moved.st = "open"
    BY <2>3, <2>5, <1>1, <1>4 DEF TravRec, tr
  <2> HIDE DEF moved
  <2>7. /\ new \in TravRec /\ new.sync = TRUE /\ new.current = at.cur /\ new.path = at.path /\ new.st = "open"
        /\ new.checkpoint = node[at.cur].key /\ new.pos = node[at.cur].key
    BY <2>4, <2>6, <1>8 DEF TravRec
  <2> QED BY <2>7, <1>11 DEF MovedTo
<1>12. ASSUME at.cur = NULL PROVE end \in TravRec /\ MovedTo(node, tr, end, at)
  <2>1. at.path \in Seq(Hops(L))
    BY <1>9, <1>12 DEF NextAt
  <2>2. Hops(L) \subseteq Hops(Nodes)
    BY <1>10 DEF Hops
  <2>3. at.path \in Seq(Hops(Nodes))
    BY <2>1, <2>2, SeqWider
  <2>4. moved \in TravRec
    BY <2>3, <1>1, <1>4, <1>12 DEF TravRec, tr
  <2>5. moved.checkpoint \in Keys \cup {NULL} /\ moved.mem \in {"none", "user", "own", "no memory", "node", "stale"}
    BY <2>4 DEF TravRec
  <2> DEFINE ck == IF again THEN cp ELSE moved.checkpoint
             mm == IF again THEN mem ELSE moved.mem
  <2>6. ck \in Keys \cup {NULL} /\ mm \in {"none", "user", "own", "no memory", "node", "stale"}
    BY <2>5, <1>8
  <2>7. end = [moved EXCEPT !.st = "end", !.checkpoint = ck, !.mem = mm]
    OBVIOUS
  <2> HIDE DEF moved, ck, mm
  <2>8. end \in TravRec /\ end.st = "end"
    BY <2>4, <2>6, <2>7 DEF TravRec
  <2> QED BY <2>8, <1>12 DEF MovedTo
<1>13. (at.cur # NULL /\ trav'[t] = new /\ trav' \in [Travs -> TravRec]) \/ (at.cur = NULL /\ trav'[t] = end /\ trav' \in [Travs -> TravRec])
  BY <1>4, <1>7, <1>11, <1>12
<1>14. MovedTo(node, tr, trav'[t], at) /\ trav' \in [Travs -> TravRec]
  BY <1>11, <1>12, <1>13
<1>15. \A x \in Travs : x # t => trav'[x] = trav[x]
  BY <1>4, <1>7
<1> QED BY <1>6, <1>14, <1>15 DEF tr, L

(* Neither links nor keys change. *)
SameLinks(h, h1) == \A y \in Addr : h1[y].key = h[y].key /\ h1[y].sub = h[y].sub

(* Painting changes neither pointers nor keys. *)
LEMMA PaintLinks ==
    ASSUME NEW h \in Heap, NEW n, NEW c \in {"RED", "BLACK"}
    PROVE  Paint(h, n, c) \in Heap /\ SameLinks(h, Paint(h, n, c))
<1> DEFINE h1 == Paint(h, n, c)
<1>1. CASE n \in Addr
  <2>1. Painted(h, h1, n, c)
    BY <1>1, PaintIs
  <2> QED BY <2>1 DEF Painted, SameEntries, SameLinks
<1>2. CASE n \notin Addr
  <2>1. h1 = h
    BY <1>2 DEF Paint, Heap
  <2> QED BY <2>1 DEF SameLinks
<1> QED BY <1>1, <1>2

(* A traverser in place stays so while pointers and keys stay. *)
LEMMA InPlaceSame ==
    ASSUME RbAssumption, NEW h \in Heap, NEW L, NEW tr, InPlace(h, L, tr), NEW h1, SameLinks(h, h1)
    PROVE  InPlace(h1, L, tr) /\ h1[tr.current].key = h[tr.current].key
<1>1. PICK T : Tree(h, L, T) /\ Placed(h, L, T, tr.current, tr.path)
  BY DEF InPlace
<1>2. KeyOf(h1) = KeyOf(h) /\ SubOf(h1) = SubOf(h)
  BY DEF KeyOf, SubOf, SameLinks
<1>3. Tree(h1, L, T)
  BY <1>1, <1>2 DEF Tree
<1>4. Placed(h1, L, T, tr.current, tr.path)
  BY <1>1, PlacedSame DEF SameLinks
<1>5. tr.current \in Addr
  BY <1>1, TreeSubs DEF Placed
<1> QED BY <1>3, <1>4, <1>5 DEF InPlace, SameLinks

(* A step that changes no pointer and no key keeps the traversers in       *)
(* place.                                                                  *)
LEMMA TravSame ==
    ASSUME RbAssumption, node \in Heap, TravInv, trav' = trav, SameLinks(node, node'),
           InTreeOf(node', call') = InTreeOf(node, call), call'.fn = "del" => call.fn = "del"
    PROVE  TravInv'
<1> DEFINE L == InTreeOf(node, call)
<1>1. ASSUME NEW t \in Travs PROVE TravOK(node', L, trav[t])
  <2> DEFINE tr == trav[t]
  <2>1. TravOK(node, L, tr)
    BY DEF TravInv
  <2> HIDE DEF tr, L
  <2>2. CASE tr.st = "open" /\ tr.sync
    <3>1. InPlace(node, L, tr)
      BY <2>1, <2>2 DEF TravOK
    <3>2. InPlace(node', L, tr) /\ node'[tr.current].key = node[tr.current].key
      BY <3>1, InPlaceSame
    <3> QED BY <2>1, <3>2 DEF TravOK, tr
  <2>3. CASE ~(tr.st = "open" /\ tr.sync)
    BY <2>1, <2>3 DEF TravOK, tr
  <2> QED BY <2>2, <2>3
<1> QED BY <1>1 DEF TravInv

(* Traversers out of step stay right whatever the tree does. *)
Unsynced(tr, tr1) ==
    /\ tr1 \in TravRec /\ tr1.sync = FALSE
    /\ tr1.st = tr.st /\ tr1.current = tr.current /\ tr1.checkpoint = tr.checkpoint /\ tr1.pos = tr.pos

(* A traverser that is out of step with the tree's tid is held to nothing  *)
(* but its checkpoint.                                                     *)
LEMMA TravOut ==
    ASSUME TravInv, trav' \in [Travs -> TravRec], \A t \in Travs : Unsynced(trav[t], trav'[t])
    PROVE  TravInv'
<1>1. ASSUME NEW t \in Travs PROVE TravOK(node', InTreeOf(node', call'), trav'[t]) /\ ~trav'[t].sync
  <2>1. TravOK(node, InTreeOf(node, call), trav[t])
    BY DEF TravInv
  <2>2. Unsynced(trav[t], trav'[t])
    OBVIOUS
  <2> QED BY <2>1, <2>2 DEF TravOK, Unsynced
<1> QED BY <1>1 DEF TravInv

(* A change of tid puts every traverser out of step. *)
LEMMA TidOut ==
    ASSUME TravInv, trav' = TidChanged
    PROVE  TravInv'
<1>1. trav \in [Travs -> TravRec]
  BY DEF TravInv
<1>2. ASSUME NEW t \in Travs PROVE trav'[t] \in TravRec /\ Unsynced(trav[t], trav'[t])
  <2>1. trav'[t] = [trav[t] EXCEPT !.sync = FALSE] /\ trav[t] \in TravRec
    BY <1>1 DEF TidChanged
  <2> QED BY <2>1 DEF TravRec, Unsynced
<1>3. trav' \in [Travs -> TravRec]
  BY <1>2 DEF TidChanged
<1> QED BY <1>2, <1>3, TravOut

(* Freeing a key on deletion keeps the traversers' invariant. *)
LEMMA KeyFreedOut ==
    ASSUME TravInv, call.fn = "del", NEW k, trav' = KeyFreed(k)
    PROVE  TravInv'
<1>1. trav \in [Travs -> TravRec] /\ \A t \in Travs : ~trav[t].sync
  BY DEF TravInv
<1>2. ASSUME NEW t \in Travs PROVE trav'[t] \in TravRec /\ Unsynced(trav[t], trav'[t])
  <2>1. (trav'[t] = [trav[t] EXCEPT !.mem = "stale"] \/ trav'[t] = trav[t]) /\ trav[t] \in TravRec /\ ~trav[t].sync
    BY <1>1 DEF KeyFreed
  <2> QED BY <2>1 DEF TravRec, Unsynced
<1>3. trav' \in [Travs -> TravRec]
  BY <1>2 DEF KeyFreed
<1> QED BY <1>2, <1>3, TravOut

(* During a deletion all traversers are out of step. *)
LEMMA DelOut ==
    ASSUME TravInv, call.fn = "del", trav' = trav
    PROVE  TravInv'
<1>1. trav \in [Travs -> TravRec] /\ \A t \in Travs : ~trav[t].sync
  BY DEF TravInv
<1>2. ASSUME NEW t \in Travs PROVE Unsynced(trav[t], trav'[t])
  <2>1. trav'[t] = trav[t] /\ trav[t] \in TravRec /\ ~trav[t].sync
    BY <1>1
  <2> QED BY <2>1 DEF TravRec, Unsynced
<1> QED BY <1>1, <1>2, TravOut

(* A new entry. *)
LEMMA TravAdd ==
    ASSUME RbAssumption, Good(node, call, items), call.pc = "idle", TravInv, NEW k \in Keys, NEW v \in Data,
           HXrbtree_find(k) = NULL, AddLink(k, v), trav' = trav
    PROVE  TravInv'
<1> DEFINE p == PathTo(k)
           a == p[Len(p)].nd
           e == p[Len(p)].dir
           L == AllocOf(node)
<1>0. node \in Heap /\ call.fn = "none" /\ InTreeOf(node, call) = L /\ k \in Int /\ FreeMemory(node)
  BY DEF Good, CallOK, InTreeOf, RbAssumption
<1>1. PICK T0 : Tree(node, L, T0)
  BY <1>0 DEF Good
<1>2. Found(node, L, k, p, NULL) /\ Last(p) = p[Len(p)]
  BY <1>0, <1>1, PathToIs
<1>3. Slot(L, a, e)
  BY <1>0, <1>1, <1>2, PathHeap DEF Found
<1>4. PICK n \in Malloc[k] \ Allocated :
         /\ node' = Link([node EXCEPT ![n] = NewNode(k, v)], a, e, n)
         /\ call' = [fn |-> "add", pc |-> "amov", key |-> k, val |-> v, nd |-> n, path |-> p]
  BY <1>2 DEF AddLink
<1>5. n \in Nodes /\ n \notin L /\ n \in Addr
  BY <1>4 DEF RbAssumption, Allocated, AllocOf, Addr
<1>6. Clean(node, L)
  BY <1>0, GoodClean
<1> HIDE DEF p, L
<1>7. a \in Addr /\ e \in Dirs /\ a # n
  BY <1>3, <1>5 DEF Slot, Addr, AllocOf, RbAssumption, Dirs, L
<1>8. Sprouted(node, node', a, e, n, k, v)
  BY <1>0, <1>4, <1>5, <1>7, GrowIs
<1>9. Grown(node, node', a, e, n, k)
  BY <1>8 DEF Sprouted
<1>10. AllocOf(node') = L \cup {n} /\ \A y \in L : node'[y].key = node[y].key
  <2>1. k # NULL
    BY DEF RbAssumption
  <2> QED BY <2>1, <1>5, <1>9 DEF AllocOf, Addr, Grown, L
<1>11. InTreeOf(node', call') = L \cup {n} /\ call'.fn # "del"
  BY <1>4, <1>10 DEF InTreeOf
<1>12. ASSUME NEW t \in Travs PROVE TravOK(node', L \cup {n}, trav[t])
  <2> DEFINE tr == trav[t]
  <2>1. TravOK(node, L, tr)
    BY <1>0 DEF TravInv
  <2> HIDE DEF tr
  <2>2. CASE tr.st = "open" /\ tr.sync
    <3>1. PICK T : Tree(node, L, T) /\ Placed(node, L, T, tr.current, tr.path)
      BY <2>1, <2>2 DEF TravOK, InPlace
    <3>2. \E T1 : Tree(node', L \cup {n}, T1) /\ Placed(node', L \cup {n}, T1, tr.current, tr.path)
      BY <3>1, <1>0, <1>2, <1>5, <1>6, <1>9, PlacedGrow
    <3>3. node'[tr.current].key = node[tr.current].key
      BY <3>1, <1>10 DEF Placed
    <3> QED BY <2>1, <3>2, <3>3 DEF TravOK, InPlace, tr
  <2>3. CASE ~(tr.st = "open" /\ tr.sync)
    BY <2>1, <2>3 DEF TravOK, tr
  <2> QED BY <2>2, <2>3
<1> QED BY <1>11, <1>12 DEF TravInv

(* The traverser itself moves. *)
LEMMA TravMove ==
    ASSUME RbAssumption, RbInv, TravInv, NEW t \in Travs, HXrbtree_traverse(t)
    PROVE  TravInv'
<1> DEFINE L == AllocOf(node)
<1>1. PICK kk, at : /\ Reached(node, L, trav[t], at, kk)
                    /\ MovedTo(node, trav[t], trav'[t], at)
                    /\ \A x \in Travs : x # t => trav'[x] = trav[x]
                    /\ trav' \in [Travs -> TravRec]
  BY TraverseMoves
<1>2. /\ node' = node /\ call' = call /\ call.fn = "none" /\ InTreeOf(node, call) = L /\ node \in Heap
  BY DEF HXrbtree_traverse, Ready, RbInv, Good, CallOK, InTreeOf
<1>3. PICK T : Tree(node, L, T) /\ NextAt(node, L, T, kk, at.cur, at.path)
  BY <1>1 DEF Reached
<1>4. TravOK(node, L, trav'[t])
  <2>1. CASE at.cur = NULL
    BY <2>1, <1>1 DEF MovedTo, TravOK
  <2>2. CASE at.cur # NULL
    <3>1. Placed(node, L, T, at.cur, at.path)
      BY <2>2, <1>3 DEF NextAt
    <3>2. node[at.cur].key \in Keys
      <4>1. at.cur \in AllocOf(node)
        BY <3>1 DEF Placed, L
      <4> QED BY <4>1, <1>2 DEF AllocOf, Heap, Node, Addr
    <3> HIDE DEF L
    <3>3. /\ trav'[t].st = "open" /\ trav'[t].sync = TRUE /\ trav'[t].current = at.cur /\ trav'[t].path = at.path
          /\ trav'[t].checkpoint = node[at.cur].key /\ trav'[t].pos = node[at.cur].key
      BY <2>2, <1>1 DEF MovedTo
    <3>4. InPlace(node, L, trav'[t])
      BY <3>1, <3>3, <1>3 DEF InPlace
    <3> QED BY <2>2, <3>2, <3>3, <3>4 DEF TravOK
  <2> QED BY <2>1, <2>2
<1>5. \A x \in Travs : TravOK(node, L, trav'[x])
  BY <1>1, <1>2, <1>4 DEF TravInv
<1> QED BY <1>1, <1>2, <1>5 DEF TravInv

(* The traversers' invariant holds initially. *)
LEMMA InitTrav == RbAssumption /\ Init => TravInv
<1> SUFFICES ASSUME RbAssumption, Init PROVE TravInv
  OBVIOUS
<1>1. NoTrav \in TravRec /\ NoTrav.st = "none"
  <2>1. <<>> \in Seq(Hops(Nodes))
    OBVIOUS
  <2> QED BY <2>1 DEF NoTrav, TravRec
<1>2. trav = [t \in Travs |-> NoTrav] /\ call.fn = "none"
  BY IdleIs DEF Init
<1> QED BY <1>1, <1>2 DEF TravInv, TravOK

(* Every step keeps it: in particular an add without a rotation, which     *)
(* leaves tid alone, leaves every traverser's path valid.                  *)
LEMMA NextTrav ==
    ASSUME RbAssumption, RbInv, TravInv, [Next]_vars
    PROVE  TravInv'
<1>0. Good(node, call, items) /\ CallOK(node, call) /\ node \in Heap /\ call \in CallType
  BY DEF RbInv, Good
<1>1. CASE node' = node /\ call' = call /\ trav' = trav
  BY <1>1 DEF TravInv
<1>2. ASSUME NEW k \in Keys, HXmap_del(k) PROVE TravInv'
  <2>1. CASE DelUnlink(PathTo(k), HXrbtree_find(k))
    <3>1. trav' = TidChanged
      BY <2>1 DEF DelUnlink
    <3> QED BY <3>1, TidOut
  <2> QED BY <2>1, <1>1, <1>2 DEF HXmap_del
<1>3. ASSUME NEW k \in Keys, NEW v \in Data, HXmap_add(k, v) PROVE TravInv'
  <2>0. call.pc = "idle" /\ call.fn = "none" /\ trav' = trav
    BY <1>0, <1>3 DEF HXmap_add, Ready, CallOK
  <2>1. CASE HXrbtree_find(k) # NULL /\ HXrbtree_replace(HXrbtree_find(k), k, v) /\ call' = call
    <3> DEFINE n == HXrbtree_find(k)
    <3>1. CASE node' = node
      BY <1>1, <2>0, <2>1, <3>1
    <3>2. CASE node' = [node EXCEPT ![n].data = v]
      <4> HIDE DEF n
      <4>1. SameLinks(node, node')
        BY <1>0, <3>2 DEF Heap, Node, SameLinks
      <4>2. AllocOf(node') = AllocOf(node)
        BY <4>1 DEF AllocOf, Addr, SameLinks
      <4>3. InTreeOf(node', call') = InTreeOf(node, call)
        BY <4>2, <2>1 DEF InTreeOf
      <4> QED BY <4>1, <4>3, <2>0, <2>1, <1>0, TravSame
    <3> QED BY <2>1, <3>1, <3>2 DEF HXrbtree_replace
  <2>2. CASE HXrbtree_find(k) = NULL /\ AddLink(k, v)
    BY <1>0, <2>0, <2>2, TravAdd
  <2> QED BY <1>1, <1>3, <2>0, <2>1, <2>2 DEF HXmap_add, AddNoMem
<1>4. CASE HXrbtree_amov
  <2>0. SameCall(call, call') /\ SameEntries(node, node')
    BY <1>0, <1>4, AmovCall, AmovGood
  <2>1. CASE trav' = TidChanged
    BY <2>1, TidOut
  <2>2. ASSUME NEW path, NEW grandp, NEW parent, NEW uncle, Recolor(path, grandp, parent, uncle) PROVE TravInv'
    <3> DEFINE ha == Paint(node, parent, "BLACK")
               hb == Paint(ha, uncle, "BLACK")
               hc == Paint(hb, grandp, "RED")
    <3>1. ha \in Heap /\ SameLinks(node, ha)
      BY <1>0, PaintLinks
    <3> HIDE DEF ha
    <3>2. hb \in Heap /\ SameLinks(ha, hb)
      BY <3>1, PaintLinks
    <3> HIDE DEF hb
    <3>3. SameLinks(hb, hc)
      BY <3>2, PaintLinks
    <3> HIDE DEF hc
    <3>4. SameLinks(node, hc)
      BY <3>1, <3>2, <3>3 DEF SameLinks
    <3>5. node' = hc /\ trav' = trav
      BY <2>2 DEF Recolor, ha, hb, hc
    <3>6. InTreeOf(node', call') = InTreeOf(node, call) /\ call'.fn = call.fn
      BY <2>0, SameAlloc DEF InTreeOf, SameCall
    <3> QED BY <3>4, <3>5, <3>6, <1>0, TravSame
  <2> QED BY <1>4, <2>1, <2>2 DEF HXrbtree_amov, AddRotate
<1>5. CASE AddEnd
  <2>1. SameLinks(node, node') /\ trav' = trav /\ call'.fn = "none"
    BY <1>0, <1>5, PaintLinks, IdleIs DEF AddEnd
  <2>2. call.fn = "add"
    BY <1>0, <1>5 DEF AddEnd, CallOK
  <2>3. AllocOf(node') = AllocOf(node)
    BY <2>1 DEF AllocOf, Addr, SameLinks
  <2>4. InTreeOf(node', call') = InTreeOf(node, call)
    BY <2>1, <2>2, <2>3 DEF InTreeOf
  <2> QED BY <2>1, <2>4, <1>0, TravSame
<1>6. CASE HXrbtree_dmov
  <2>1. call.fn = "del" /\ trav' = trav
    BY <1>0, <1>6 DEF HXrbtree_dmov, CallOK
  <2> QED BY <2>1, DelOut
<1>7. CASE DelEnd
  <2>1. call.fn = "del" /\ trav' = KeyFreed(call.key)
    BY <1>0, <1>7 DEF DelEnd, CallOK
  <2> QED BY <2>1, KeyFreedOut
<1>8. ASSUME NEW t \in Travs, HXmap_travinit(t) \/ HXmap_travfree(t) PROVE TravInv'
  <2> DEFINE fresh == [NoTrav EXCEPT !.st = "open"]
  <2>1. NoTrav \in TravRec /\ fresh \in TravRec /\ NoTrav.st = "none" /\ fresh.current = NULL /\ fresh.pos = NULL /\ fresh.sync = FALSE
    <3>1. <<>> \in Seq(Hops(Nodes))
      OBVIOUS
    <3> QED BY <3>1 DEF NoTrav, TravRec
  <2>2. node' = node /\ call' = call /\ call.fn = "none"
        /\ (trav' = [trav EXCEPT ![t] = fresh] \/ trav' = [trav EXCEPT ![t] = NoTrav])
    BY <1>0, <1>8 DEF HXmap_travinit, HXmap_travfree, Ready, CallOK
  <2> HIDE DEF fresh
  <2>3. TravOK(node, InTreeOf(node, call), fresh) /\ TravOK(node, InTreeOf(node, call), NoTrav)
    BY <2>1 DEF TravOK
  <2>4. trav' \in [Travs -> TravRec] /\ \A x \in Travs : trav'[x] = trav[x] \/ trav'[x] = fresh \/ trav'[x] = NoTrav
    BY <2>1, <2>2 DEF TravInv
  <2>5. \A x \in Travs : TravOK(node, InTreeOf(node, call), trav'[x])
    BY <2>3, <2>4 DEF TravInv
  <2> QED BY <2>2, <2>4, <2>5 DEF TravInv
<1>9. CASE HXrbtree_free
  <2>1. call' = call /\ call.fn = "none" /\ trav' = trav /\ \A t \in Travs : trav[t].st = "none"
    BY <1>0, <1>9 DEF HXrbtree_free, Ready, CallOK
  <2> QED BY <2>1 DEF TravInv, TravOK
<1>10. CASE HXrbtree_init4 \/ SetFlags \/ (\E k \in Keys : HXmap_get(k)) \/ UNCHANGED vars
  BY <1>1, <1>10 DEF HXrbtree_init4, SetFlags, HXmap_get, vars
<1>11. CASE \E t \in Travs : HXrbtree_traverse(t)
  BY <1>11, TravMove
<1> QED BY <1>2, <1>3, <1>4, <1>5, <1>6, <1>7, <1>8, <1>9, <1>10, <1>11 DEF Next

(* Min of a set of keys. *)
LEMMA MinIs ==
    ASSUME NEW S, NEW m \in S, \A y \in S : y \in Int /\ m <= y
    PROVE  Min(S) = m
<1>1. Min(S) \in S /\ \A y \in S : Min(S) <= y
  BY DEF Min
<1> HIDE DEF Min
<1>2. Min(S) <= m /\ m <= Min(S) /\ m \in Int /\ Min(S) \in Int
  BY <1>1
<1> QED BY <1>2

(* With the invariants, HXrbtree_traverse returns the smallest key after   *)
(* its position, or reports the end when there is none.                    *)
LEMMA TraverseStepOK ==
    ASSUME RbAssumption, RbInv, TravInv
    PROVE  TraverseStep
<1> SUFFICES ASSUME NEW t \in Travs, HXrbtree_traverse(t), trav[t].mem \notin {"stale", "no memory"}
             PROVE  IF Remaining(trav[t].pos) = {} THEN trav'[t].st = "end"
                    ELSE trav'[t].pos = Min(Remaining(trav[t].pos)) /\ trav'[t].st = "open"
  BY DEF TraverseStep
<1> DEFINE L == AllocOf(node)
           S == Remaining(trav[t].pos)
<1>1. PICK kk, at : Reached(node, L, trav[t], at, kk) /\ MovedTo(node, trav[t], trav'[t], at)
  BY TraverseMoves
<1>2. PICK T : Tree(node, L, T) /\ NextAt(node, L, T, kk, at.cur, at.path)
  BY <1>1 DEF Reached
<1>3. Stands(node, L, trav[t].pos, kk)
  BY <1>1 DEF Reached
<1>4. node \in Heap
  BY DEF RbInv, Good
<1>5. \A y \in L : node[y].key \in Int
  BY <1>2, <1>4, TreeKeys
<1>6. S = {node[y].key : y \in {x \in L : kk < node[x].key}}
  <2>1. S = {k \in {node[n].key : n \in L} : trav[t].pos = NULL \/ k > trav[t].pos}
    BY DEF Remaining, AllocOf, Allocated
  <2> HIDE DEF L, S
  <2> QED BY <2>1, <1>3 DEF Stands
<1> HIDE DEF L, S
<1>7. CASE at.cur = NULL
  <2>1. S = {} /\ trav'[t].st = "end"
    BY <1>1, <1>2, <1>6, <1>7 DEF NextAt, MovedTo
  <2> QED BY <2>1 DEF S
<1>8. CASE at.cur # NULL
  <2> DEFINE m == node[at.cur].key
  <2>1. at.cur \in L /\ kk < m /\ (\A y \in L : kk < node[y].key => m <= node[y].key)
        /\ trav'[t].st = "open" /\ trav'[t].pos = m
    BY <1>1, <1>2, <1>8 DEF NextAt, MovedTo, Placed
  <2>2. m \in S /\ \A y \in S : y \in Int /\ m <= y
    BY <2>1, <1>5, <1>6
  <2> HIDE DEF m
  <2>3. Min(S) = m
    BY <2>2, MinIs
  <2> QED BY <2>1, <2>2, <2>3 DEF S
<1> QED BY <1>7, <1>8

(* HXmap_traverse goes on with the next key. *)
THEOREM WalkInOrderHolds == Spec => WalkInOrder
<1>1. Init => RbInv /\ TravInv
  BY InitInv, InitTrav, RbAssumption
<1>2. RbInv /\ TravInv /\ [Next]_vars => RbInv' /\ TravInv'
  BY NextInv, NextTrav, RbAssumption
<1>3. RbInv /\ TravInv /\ [Next]_vars => [TraverseStep]_vars
  BY TraverseStepOK, RbAssumption
<1> QED BY <1>1, <1>2, <1>3, PTL DEF Spec, WalkInOrder

-----------------------------------------------------------------------------
(* The dictionary the tree stands for.                                     *)

EntInv == Entries(node, call)

(* The keys of the dictionary. *)
Present == {node[n].key : n \in InDict}

(* The dictionary has the entry of each of its nodes, and no other. *)
DictIs ==
    /\ DOMAIN Dict = Present /\ Dict = [x \in DOMAIN Dict |-> Dict[x]]
    /\ \A n \in InDict : Dict[node[n].key] = node[n].data

(* Between calls every allocated node is an entry of the dictionary. *)
LEMMA InDictAlloc == InDict \subseteq AllocOf(node) /\ (call.fn # "add" => InDict = AllocOf(node))
  BY DEF InDict, AllocOf, Allocated

(* Dict has the keys and data of the nodes in InDict. *)
LEMMA DictFacts ==
    ASSUME EntInv PROVE DictIs
<1>1. DOMAIN Dict = Present /\ Dict = [x \in DOMAIN Dict |-> Dict[x]]
  BY DEF Dict, Present
<1>2. ASSUME NEW n \in InDict PROVE Dict[node[n].key] = node[n].data
  <2>1. NodeFor(node[n].key) \in InDict /\ node[NodeFor(node[n].key)].key = node[n].key
    BY DEF NodeFor
  <2>2. NodeFor(node[n].key) = n
    BY <2>1, InDictAlloc DEF EntInv, Entries
  <2>3. node[n].key \in Present
    BY DEF Present
  <2> QED BY <2>2, <2>3 DEF Dict, Present
<1> QED BY <1>1, <1>2 DEF DictIs

(* The same of the next state. *)
LEMMA DictFactsNext ==
    ASSUME EntInv' PROVE DictIs'
<1>1. (EntInv => DictIs)'
  BY DictFacts, PTL
<1> QED BY <1>1

(* Keys and data of the nodes in D are those of the state before. *)
KeptEntries(D) == \A n \in D : node'[n].key = node[n].key /\ node'[n].data = node[n].data

(* A step that keeps the entries keeps the dictionary. *)
LEMMA DictSame ==
    ASSUME EntInv, EntInv', InDict' = InDict, KeptEntries(InDict)
    PROVE  Dict' = Dict
<1>1. DictIs /\ DictIs'
  BY DictFacts, DictFactsNext
<1>2. Present' = Present
  BY DEF Present, KeptEntries
<1>3. ASSUME NEW x \in Present PROVE Dict'[x] = Dict[x]
  <2>1. PICK n \in InDict : node[n].key = x
    BY DEF Present
  <2> QED BY <2>1, <1>1 DEF DictIs, KeptEntries
<1> QED BY <1>1, <1>2, <1>3 DEF DictIs

(* So does one that changes neither nodes nor call. *)
LEMMA DictStutter ==
    ASSUME EntInv, EntInv', node' = node, call' = call
    PROVE  Dict' = Dict
<1>1. InDict' = InDict
  BY DEF InDict, Allocated
<1>2. KeptEntries(InDict)
  BY DEF KeptEntries
<1> QED BY <1>1, <1>2, DictSame

(* Without nodes the dictionary is empty. *)
LEMMA DictEmpty ==
    ASSUME AllocOf(node) = {} PROVE Dict = [k \in {} |-> NULL]
<1>1. InDict = {}
  BY InDictAlloc
<1> QED BY <1>1 DEF Dict

(* One entry more. *)
LEMMA DictAdd ==
    ASSUME EntInv, EntInv', NEW n, NEW k, NEW v, InDict' = InDict \cup {n}, KeptEntries(InDict),
           node'[n].key = k, node'[n].data = v, \A y \in InDict : node[y].key # k
    PROVE  k \notin DOMAIN Dict /\ Dict' = [x \in DOMAIN Dict \cup {k} |-> IF x = k THEN v ELSE Dict[x]]
<1>1. DictIs /\ DictIs'
  BY DictFacts, DictFactsNext
<1>2. Present' = Present \cup {k} /\ k \notin Present
  BY DEF Present, KeptEntries
<1>3. ASSUME NEW x \in Present' PROVE Dict'[x] = IF x = k THEN v ELSE Dict[x]
  <2>1. PICK m \in InDict' : node'[m].key = x
    BY DEF Present
  <2>2. CASE m = n
    BY <2>1, <2>2, <1>1 DEF DictIs
  <2>3. CASE m \in InDict
    BY <2>1, <2>3, <1>1 DEF DictIs, KeptEntries
  <2> QED BY <2>2, <2>3
<1> QED BY <1>1, <1>2, <1>3 DEF DictIs

(* One entry less. *)
LEMMA DictDel ==
    ASSUME EntInv, EntInv', NEW n \in InDict, InDict' = InDict \ {n}, KeptEntries(InDict \ {n}),
           NEW k, node[n].key = k
    PROVE  /\ k \in DOMAIN Dict /\ Dict[k] = node[n].data
           /\ Dict' = [x \in DOMAIN Dict \ {k} |-> Dict[x]]
<1>1. DictIs /\ DictIs'
  BY DictFacts, DictFactsNext
<1>2. \A y \in InDict : y # n => node[y].key # k
  BY InDictAlloc DEF EntInv, Entries
<1>3. Present' = Present \ {k}
  BY <1>2 DEF Present, KeptEntries
<1>4. ASSUME NEW x \in Present' PROVE Dict'[x] = Dict[x]
  <2>1. PICK m \in InDict' : node'[m].key = x
    BY DEF Present
  <2> QED BY <2>1, <1>1 DEF DictIs, KeptEntries
<1>5. k \in Present
  BY DEF Present
<1> QED BY <1>1, <1>3, <1>4, <1>5 DEF DictIs

(* Other data for one entry. *)
LEMMA DictReplace ==
    ASSUME EntInv, EntInv', NEW n \in InDict, InDict' = InDict, KeptEntries(InDict \ {n}),
           NEW k, NEW v, node[n].key = k, node'[n].key = k, node'[n].data = v
    PROVE  k \in DOMAIN Dict /\ Dict' = [Dict EXCEPT ![k] = v]
<1>1. DictIs /\ DictIs'
  BY DictFacts, DictFactsNext
<1>2. \A y \in InDict : y # n => node[y].key # k
  BY InDictAlloc DEF EntInv, Entries
<1>3. \A y \in InDict : node'[y].key = node[y].key
  BY DEF KeptEntries
<1>4. Present' = Present /\ k \in Present
  BY <1>3 DEF Present
<1>5. ASSUME NEW x \in Present PROVE Dict'[x] = IF x = k THEN v ELSE Dict[x]
  <2>1. PICK m \in InDict : node[m].key = x
    BY DEF Present
  <2>2. CASE m = n
    BY <2>1, <2>2, <1>1 DEF DictIs
  <2>3. CASE m # n
    BY <2>1, <2>3, <1>1, <1>2 DEF DictIs, KeptEntries
  <2> QED BY <2>2, <2>3
<1> QED BY <1>1, <1>4, <1>5 DEF DictIs

(* HXrbtree_find answers from the dictionary. *)
LEMMA FindIsLookup ==
    ASSUME RbAssumption, RbInv, EntInv, Ready, NEW k \in Keys
    PROVE  /\ InDict = AllocOf(node)
           /\ HXrbtree_find(k) = NULL <=> k \notin DOMAIN Dict
           /\ HXrbtree_find(k) # NULL => /\ HXrbtree_find(k) \in InDict /\ node[HXrbtree_find(k)].key = k
                                         /\ Dict[k] = node[HXrbtree_find(k)].data
<1>1. call.fn = "none" /\ InTreeOf(node, call) = AllocOf(node) /\ k \in Int
  BY DEF Ready, RbInv, Good, CallOK, InTreeOf, RbAssumption
<1>2. PICK T : Tree(node, AllocOf(node), T)
  BY <1>1 DEF RbInv, Good
<1>3. Found(node, AllocOf(node), k, PathTo(k), HXrbtree_find(k))
  BY <1>1, <1>2, PathToIs
<1> DEFINE z == HXrbtree_find(k)
<1>4. /\ z \in AllocOf(node) \cup {NULL}
      /\ IF z = NULL THEN \A y \in AllocOf(node) : node[y].key # k ELSE node[z].key = k
  BY <1>3 DEF Found
<1>5. InDict = AllocOf(node)
  BY <1>1, InDictAlloc
<1>6. DictIs
  BY DictFacts
<1> HIDE DEF z
<1>7. CASE z = NULL
  BY <1>4, <1>5, <1>6, <1>7 DEF DictIs, Present, z
<1>8. CASE z # NULL
  BY <1>4, <1>5, <1>6, <1>8 DEF DictIs, Present, z
<1> QED BY <1>5, <1>7, <1>8

-----------------------------------------------------------------------------
(* Every operation implements its operation of HXmap.                      *)

(* The result as the abstract map has it. *)
MapRet == IF ret.err = "untouched" THEN [ret EXCEPT !.err = "ENOENT"] ELSE ret

(* The result of a call as the abstract map sees it. *)
LEMMA RetIs ==
    ASSUME NEW op, NEW k, NEW v, NEW e, e # "untouched", ret' = Result(op, k, v, e)
    PROVE  MapRet' = Map!Result(op, k, v, e)
  BY DEF MapRet, Result, Map!Result

(* Every step keeps the invariant the dictionary is read with. *)
LEMMA EntriesStep ==
    ASSUME RbAssumption, RbInv, EntInv, [Next]_vars PROVE EntInv'
  BY NextEntries DEF EntInv

(* HXrbtree_replace replaces, refuses or fails as the abstract map does. *)
LEMMA ReplaceIsReplace ==
    ASSUME RbAssumption, RbInv, EntInv, EntInv', Ready, NEW k \in Keys, NEW v \in Data,
           Singular => v = NULL, HXrbtree_find(k) # NULL, HXrbtree_replace(HXrbtree_find(k), k, v),
           UNCHANGED <<alive, noreplace, call>>
    PROVE  Map!AddReplace(k, v) \/ Map!AddExists(k, v) \/ Map!AddNoMem(k, v)
<1> DEFINE n == HXrbtree_find(k)
<1>0. alive /\ n \in InDict /\ node[n].key = k /\ k \in DOMAIN Dict
  BY FindIsLookup DEF Ready
<1>1. CASE ~noreplace /\ ret' = Result("add", k, v, "EEXIST") /\ node' = node
  <2>1. Dict' = Dict
    BY <1>1, DictStutter
  <2>2. MapRet' = Map!Result("add", k, v, "EEXIST")
    BY <1>1, RetIs
  <2>3. Map!AddExists(k, v)
    BY <1>0, <1>1, <2>1, <2>2 DEF Map!AddExists, MapRet
  <2> QED BY <2>3
<1>2. CASE noreplace /\ ret' = Result("add", k, v, "ENOMEM") /\ node' = node
  <2>1. Dict' = Dict
    BY <1>2, DictStutter
  <2>2. MapRet' = Map!Result("add", k, v, "ENOMEM")
    BY <1>2, RetIs
  <2>3. Map!AddNoMem(k, v)
    BY <1>0, <1>2, <2>1, <2>2 DEF Map!AddNoMem, MapRet
  <2> QED BY <2>3
<1>3. CASE noreplace /\ ret' = Result("add", k, v, "0") /\ node' = [node EXCEPT ![n].data = v]
  <2> HIDE DEF n
  <2>1. n \in Addr /\ node \in Heap /\ InDict \subseteq Addr
    BY <1>0, InDictAlloc DEF AllocOf, Addr, RbInv, Good
  <2>2. /\ \A y \in Addr : y # n => node'[y] = node[y]
        /\ node'[n].key = node[n].key /\ node'[n].data = v
    BY <1>3, <2>1 DEF Heap, Node
  <2>3. \A y \in Addr : node'[y].key = node[y].key
    BY <2>2
  <2>4. InDict' = InDict
    BY <2>3 DEF InDict, Allocated, Addr
  <2>5. KeptEntries(InDict \ {n})
    BY <2>1, <2>2 DEF KeptEntries
  <2>6. k \in DOMAIN Dict /\ Dict' = [Dict EXCEPT ![k] = v]
    BY <1>0, <2>2, <2>4, <2>5, DictReplace
  <2>7. MapRet' = Map!Result("add", k, v, "0")
    BY <1>3, RetIs
  <2>8. Map!AddReplace(k, v)
    BY <1>0, <1>3, <2>6, <2>7 DEF Map!AddReplace, MapRet
  <2> QED BY <2>8
<1> QED BY <1>1, <1>2, <1>3 DEF HXrbtree_replace

(* Keys and data stay, and the node of an addition is not counted yet. *)
LEMMA LinkStutter ==
    ASSUME RbAssumption, RbInv, EntInv, EntInv', call.pc = "idle", NEW k \in Keys, NEW v \in Data,
           HXrbtree_find(k) = NULL, AddLink(k, v)
    PROVE  Dict' = Dict
<1>1. /\ call'.fn = "add"
      /\ NewEntry(node, node', call'.nd, k, v)
  BY AddLinkIs DEF RbInv
<1>2. call.fn = "none"
  BY DEF RbInv, Good, CallOK
<1>3. InDict = AllocOf(node)
  BY <1>2, InDictAlloc
<1>4. InDict' = AllocOf(node') \ {call'.nd}
  BY <1>1 DEF InDict, AllocOf, Allocated
<1>5. InDict' = InDict
  BY <1>1, <1>3, <1>4 DEF NewEntry
<1>6. KeptEntries(InDict)
  BY <1>1, <1>3 DEF KeptEntries, NewEntry, AllocOf, Addr
<1> QED BY <1>5, <1>6, DictSame

(* HXmap_add is an addition of the abstract map, or its first step. *)
LEMMA AddIsAdd ==
    ASSUME RbAssumption, RbInv, EntInv, EntInv', NEW k \in Keys, NEW v \in Data, HXmap_add(k, v)
    PROVE  \/ Map!AddReplace(k, v) \/ Map!AddExists(k, v)
           \/ Map!AddInval(k, v) \/ Map!AddNoMem(k, v)
           \/ UNCHANGED Map!vars
<1>1. Ready /\ alive /\ UNCHANGED <<alive, noreplace>> /\ call.pc = "idle"
  BY DEF HXmap_add, Ready
<1>2. CASE Singular /\ v # NULL /\ ret' = Result("add", k, v, "EINVAL") /\ node' = node /\ call' = call
  <2>1. Dict' = Dict
    BY <1>2, DictStutter
  <2>2. MapRet' = Map!Result("add", k, v, "EINVAL")
    BY <1>2, RetIs
  <2>3. Map!AddInval(k, v)
    BY <1>1, <1>2, <2>1, <2>2 DEF Map!AddInval, MapRet
  <2> QED BY <2>3
<1>3. CASE (Singular => v = NULL) /\ HXrbtree_find(k) # NULL
           /\ HXrbtree_replace(HXrbtree_find(k), k, v) /\ call' = call
  BY <1>1, <1>3, ReplaceIsReplace
<1>4. CASE (Singular => v = NULL) /\ HXrbtree_find(k) = NULL /\ AddNoMem(k, v) /\ call' = call
  <2>1. Dict' = Dict
    BY <1>4, DictStutter DEF AddNoMem
  <2>2. ret' = Result("add", k, v, "ENOMEM")
    BY <1>4 DEF AddNoMem
  <2>3. MapRet' = Map!Result("add", k, v, "ENOMEM")
    BY <2>2, RetIs
  <2>4. k \notin DOMAIN Dict
    BY <1>1, <1>4, FindIsLookup
  <2>5. Map!AddNoMem(k, v)
    BY <1>1, <1>4, <2>1, <2>3, <2>4 DEF Map!AddNoMem, MapRet
  <2> QED BY <2>5
<1>5. CASE HXrbtree_find(k) = NULL /\ AddLink(k, v)
  <2>1. Dict' = Dict
    BY <1>1, <1>5, LinkStutter
  <2>2. ret' = ret
    BY <1>5 DEF AddLink
  <2> QED BY <1>1, <2>1, <2>2 DEF Map!vars
<1> QED BY <1>2, <1>3, <1>4, <1>5 DEF HXmap_add

(* The end of HXrbtree_add is the addition. *)
LEMMA AddEndIsAdd ==
    ASSUME RbAssumption, RbInv, EntInv, EntInv', AddEnd
    PROVE  \E k \in Keys, v \in Data : Map!AddNew(k, v)
<1> DEFINE n == call.nd
           k == call.key
           v == call.val
<1>0. Good(node, call, items) /\ CallOK(node, call) /\ node \in Heap /\ call \in CallType
  BY DEF RbInv, Good
<1>1. /\ call.pc \in {"amov", "blacken"} /\ call' = Idle /\ ret' = Result("add", k, v, "0")
      /\ UNCHANGED <<alive, noreplace>>
  BY DEF AddEnd
<1>2. call.fn = "add" /\ n \in AllocOf(node) /\ alive
  BY <1>0, <1>1 DEF CallOK, RbInv
<1>3. k = node[n].key /\ v = node[n].data /\ (Singular => v = NULL)
  BY <1>1, <1>2 DEF EntInv, Entries
<1>4. n \in Addr /\ k \in Keys /\ v \in Data
  BY <1>0, <1>2, <1>3 DEF AllocOf, Addr, Heap, Node
<1>5. SameEntries(node, node')
  BY <1>0, AddEndGood
<1>6. AllocOf(node') = AllocOf(node)
  BY <1>5, SameAlloc
<1>7. InDict = AllocOf(node) \ {n} /\ InDict' = AllocOf(node')
  BY <1>1, <1>2, IdleIs DEF InDict, AllocOf, Allocated
<1> HIDE DEF n, k, v
<1>8. InDict' = InDict \cup {n} /\ n \notin InDict
  BY <1>2, <1>6, <1>7
<1>9. KeptEntries(InDict)
  BY <1>5, <1>7 DEF KeptEntries, SameEntries, AllocOf, Addr
<1>10. node'[n].key = k /\ node'[n].data = v
  BY <1>3, <1>4, <1>5 DEF SameEntries
<1>11. \A y \in InDict : node[y].key # k
  BY <1>2, <1>3, <1>7, <1>8 DEF EntInv, Entries
<1>12. k \notin DOMAIN Dict /\ Dict' = [x \in DOMAIN Dict \cup {k} |-> IF x = k THEN v ELSE Dict[x]]
  BY <1>8, <1>9, <1>10, <1>11, DictAdd
<1>13. MapRet' = Map!Result("add", k, v, "0")
  BY <1>1, RetIs
<1>14. Map!AddNew(k, v)
  BY <1>1, <1>2, <1>3, <1>12, <1>13 DEF Map!AddNew, MapRet
<1> QED BY <1>4, <1>14

(* Rebalancing leaves the dictionary alone. *)
LEMMA MovesStutter ==
    ASSUME RbAssumption, RbInv, EntInv, EntInv', HXrbtree_amov \/ HXrbtree_dmov
    PROVE  UNCHANGED Map!vars
<1>0. Good(node, call, items)
  BY DEF RbInv
<1>1. SameEntries(node, node') /\ SameCall(call, call')
  BY <1>0, AmovGood, AmovCall, DmovGood, DmovCall
<1>2. AllocOf(node') = AllocOf(node)
  BY <1>1, SameAlloc
<1>3. InDict' = InDict
  BY <1>1, <1>2 DEF InDict, AllocOf, Allocated, SameCall
<1>4. KeptEntries(InDict)
  BY <1>1, InDictAlloc DEF KeptEntries, SameEntries, AllocOf, Addr
<1>5. Dict' = Dict
  BY <1>3, <1>4, DictSame
<1>6. alive' = alive /\ noreplace' = noreplace /\ ret' = ret
  BY DEF HXrbtree_amov, HXrbtree_dmov
<1> QED BY <1>5, <1>6, Zenon DEF Map!vars

(* Unlinking a node leaves its entry in the dictionary. *)
LEMMA UnlinkStutter ==
    ASSUME RbAssumption, RbInv, EntInv, EntInv', Ready, NEW k \in Keys,
           HXrbtree_find(k) # NULL, DelUnlink(PathTo(k), HXrbtree_find(k))
    PROVE  Dict' = Dict
<1>0. Good(node, call, items) /\ call.pc = "idle" /\ call.fn = "none"
  BY DEF RbInv, Good, CallOK, Ready
<1>1. SameEntries(node, node') /\ call'.fn = "del"
  BY <1>0, DelGood DEF DelUnlink
<1>2. AllocOf(node') = AllocOf(node)
  BY <1>1, SameAlloc
<1>3. InDict' = InDict
  BY <1>0, <1>1, <1>2 DEF InDict, AllocOf, Allocated
<1>4. KeptEntries(InDict)
  BY <1>1, InDictAlloc DEF KeptEntries, SameEntries, AllocOf, Addr
<1> QED BY <1>3, <1>4, DictSame

(* HXmap_del finds nothing to delete as the abstract map does, or begins. *)
LEMMA DelIsDel ==
    ASSUME RbAssumption, RbInv, EntInv, EntInv', NEW k \in Keys, HXmap_del(k)
    PROVE  Map!DelMiss(k) \/ UNCHANGED Map!vars
<1>1. Ready /\ alive /\ UNCHANGED <<alive, noreplace>>
  BY DEF HXmap_del, Ready
<1>2. CASE Root = NULL /\ ret' = Result("del", k, NULL, "untouched") /\ node' = node /\ call' = call
  <2>1. Dict' = Dict
    BY <1>2, DictStutter
  <2>2. HXrbtree_find(k) = NULL
    <3>1. call.fn = "none" /\ InTreeOf(node, call) = AllocOf(node) /\ node \in Heap /\ k \in Int
      BY <1>1 DEF Ready, RbInv, Good, CallOK, InTreeOf, RbAssumption
    <3>2. PICK T : Tree(node, AllocOf(node), T)
      BY <3>1 DEF RbInv, Good
    <3>3. Sorted(KeyOf(node), InOrder(Root), AllocOf(node)) /\ Range(InOrder(Root)) = AllocOf(node)
      BY <3>1, <3>2, InOrderIs
    <3>4. AllocOf(node) = {}
      <4>1. T[Root] = AllocOf(node)
        <5>1. T[SubOf(node)[ROOT][RBT_LEFT]] = AllocOf(node)
          BY <3>2 DEF Tree, Shape
        <5>2. SubOf(node)[ROOT] = node[ROOT].sub
          BY DEF SubOf, Addr
        <5> QED BY <5>1, <5>2 DEF Root
      <4>2. T[NULL] = {}
        BY <3>2 DEF Tree, Shape, Subtrees
      <4> QED BY <4>1, <4>2, <1>2
    <3>5. HXrbtree_find(k) \in AllocOf(node) \cup {NULL}
      BY <3>1, <3>2, PathToIs DEF Found
    <3> QED BY <3>4, <3>5
  <2>3. k \notin DOMAIN Dict
    BY <1>1, <2>2, FindIsLookup
  <2>4. MapRet' = Map!Result("del", k, NULL, "ENOENT")
    BY <1>2 DEF MapRet, Result, Map!Result
  <2>5. Map!DelMiss(k)
    BY <1>1, <2>1, <2>3, <2>4 DEF Map!DelMiss, MapRet
  <2> QED BY <2>5
<1>3. CASE HXrbtree_find(k) = NULL /\ ret' = Result("del", k, NULL, "ENOENT") /\ node' = node /\ call' = call
  <2>1. Dict' = Dict
    BY <1>3, DictStutter
  <2>2. k \notin DOMAIN Dict
    BY <1>1, <1>3, FindIsLookup
  <2>3. MapRet' = Map!Result("del", k, NULL, "ENOENT")
    BY <1>3, RetIs
  <2>4. Map!DelMiss(k)
    BY <1>1, <2>1, <2>2, <2>3 DEF Map!DelMiss, MapRet
  <2> QED BY <2>4
<1>4. CASE HXrbtree_find(k) # NULL /\ DelUnlink(PathTo(k), HXrbtree_find(k))
  <2>1. Dict' = Dict
    BY <1>1, <1>4, UnlinkStutter
  <2>2. ret' = ret
    BY <1>4 DEF DelUnlink
  <2> QED BY <1>1, <2>1, <2>2 DEF Map!vars
<1> QED BY <1>2, <1>3, <1>4 DEF HXmap_del

(* The end of HXrbtree_del is the deletion. *)
LEMMA DelEndIsDel ==
    ASSUME RbAssumption, RbInv, EntInv, EntInv', DelEnd
    PROVE  \E k \in Keys : Map!DelHit(k)
<1> DEFINE n == call.nd
           k == call.key
           v == call.val
<1>0. CallOK(node, call) /\ node \in Heap
  BY DEF RbInv, Good
<1>1. /\ call.pc = "free" /\ call' = Idle /\ ret' = Result("del", k, v, "0")
      /\ node' = [node EXCEPT ![n] = Freed] /\ UNCHANGED <<alive, noreplace>>
  BY DEF DelEnd
<1>2. call.fn = "del" /\ n \in AllocOf(node) /\ alive
  BY <1>0, <1>1 DEF CallOK, RbInv
<1>3. k = node[n].key /\ v = node[n].data
  BY <1>1, <1>2 DEF EntInv, Entries
<1>4. n \in Addr /\ k \in Keys
  BY <1>0, <1>2, <1>3 DEF AllocOf, Addr, Heap, Node
<1> HIDE DEF n, k, v
<1>5. node'[n] = Freed /\ \A y \in Addr : y # n => node'[y] = node[y]
  BY <1>0, <1>1, <1>4 DEF Heap
<1>6. AllocOf(node') = AllocOf(node) \ {n}
  BY <1>5, FreedIs DEF AllocOf, Addr
<1>7. InDict = AllocOf(node) /\ InDict' = AllocOf(node')
  BY <1>1, <1>2, IdleIs DEF InDict, AllocOf, Allocated
<1>8. InDict' = InDict \ {n} /\ n \in InDict
  BY <1>2, <1>6, <1>7
<1>9. KeptEntries(InDict \ {n})
  BY <1>5, <1>7 DEF KeptEntries, AllocOf, Addr
<1>10. /\ k \in DOMAIN Dict /\ Dict[k] = v
       /\ Dict' = [x \in DOMAIN Dict \ {k} |-> Dict[x]]
  BY <1>3, <1>8, <1>9, DictDel
<1>11. MapRet' = Map!Result("del", k, Dict[k], "0")
  BY <1>1, <1>10, RetIs
<1>12. Map!DelHit(k)
  BY <1>1, <1>2, <1>10, <1>11 DEF Map!DelHit, MapRet
<1> QED BY <1>4, <1>12

(* HXrbtree_traverse returns an entry of the dictionary, or the end. *)
LEMMA TraverseIsTraverse ==
    ASSUME RbAssumption, RbInv, TravInv, EntInv, EntInv', NEW t \in Travs, HXrbtree_traverse(t)
    PROVE  (\E k \in Keys : Map!TraverseNode(k)) \/ Map!TraverseEnd
<1>1. /\ Ready /\ alive /\ UNCHANGED <<alive, noreplace, node, call>> /\ call.fn = "none" /\ node \in Heap
      /\ trav[t].st = "open" /\ trav \in [Travs -> TravRec]
  BY DEF HXrbtree_traverse, Ready, RbInv, Good, CallOK, TravInv
<1>2. Dict' = Dict /\ InDict = AllocOf(node) /\ DictIs
  BY <1>1, DictStutter, InDictAlloc, DictFacts
<1>3. PICK kk, at : Reached(node, AllocOf(node), trav[t], at, kk) /\ MovedTo(node, trav[t], trav'[t], at)
  BY TraverseMoves
<1>4. at.cur # NULL => at.cur \in AllocOf(node)
  BY <1>3 DEF Reached, NextAt, Placed
<1>5. \/ ret' = Result("traverse", node[trav'[t].current].key, node[trav'[t].current].data, "0") /\ trav'[t].st = "open"
      \/ ret' = Result("traverse", NULL, NULL, "0") /\ trav'[t].st = "end"
  <2> DEFINE tr == trav[t]
  <2>1. PICK cp \in CheckpointReads(tr), mem \in HXrbtrav_checkpoint :
        LET rewalk == ~tr.sync \/ tr.current = NULL
            again == rewalk /\ tr.current # NULL /\ HXrbtree_find(cp) # NULL
            at1 == IF rewalk THEN HXrbtrav_rewalk(tr, cp) ELSE HXrbtrav_next(tr.current, tr.path)
            moved == [tr EXCEPT !.sync = TRUE, !.current = at1.cur, !.path = at1.path]
        IN  \/ /\ at1.cur # NULL
               /\ trav' = [trav EXCEPT ![t] = [moved EXCEPT !.checkpoint = node[at1.cur].key, !.mem = mem,
                                                            !.pos = node[at1.cur].key]]
               /\ FreeCheckpoint(tr)
               /\ ret' = Result("traverse", node[at1.cur].key, node[at1.cur].data, "0")
            \/ /\ at1.cur = NULL
               /\ trav' = [trav EXCEPT ![t] = [moved EXCEPT !.st = "end",
                                                 !.checkpoint = IF again THEN cp ELSE @,
                                                 !.mem = IF again THEN mem ELSE @]]
               /\ IF again THEN FreeCheckpoint(tr) ELSE UNCHANGED fault
               /\ ret' = Result("traverse", NULL, NULL, "0")
    BY DEF HXrbtree_traverse
  <2> DEFINE at1 == Position(tr, cp)
             again == (~tr.sync \/ tr.current = NULL) /\ tr.current # NULL /\ HXrbtree_find(cp) # NULL
             moved == [tr EXCEPT !.sync = TRUE, !.current = at1.cur, !.path = at1.path]
             new == [moved EXCEPT !.checkpoint = node[at1.cur].key, !.mem = mem, !.pos = node[at1.cur].key]
             end == [moved EXCEPT !.st = "end", !.checkpoint = IF again THEN cp ELSE @,
                                  !.mem = IF again THEN mem ELSE @]
  <2>2. \/ /\ trav' = [trav EXCEPT ![t] = new]
           /\ ret' = Result("traverse", node[at1.cur].key, node[at1.cur].data, "0")
        \/ /\ trav' = [trav EXCEPT ![t] = end]
           /\ ret' = Result("traverse", NULL, NULL, "0")
    BY <2>1, Zenon DEF Position
  <2>3. tr \in TravRec /\ tr.st = "open"
    BY <1>1
  <2>4. new.st = "open" /\ new.current = at1.cur /\ end.st = "end"
    <3> HIDE DEF at1, again, tr
    <3> QED BY <2>3 DEF TravRec
  <2> HIDE DEF at1, again, moved, tr, new, end
  <2>5. \/ trav'[t] = new /\ ret' = Result("traverse", node[at1.cur].key, node[at1.cur].data, "0")
        \/ trav'[t] = end /\ ret' = Result("traverse", NULL, NULL, "0")
    BY <2>2, <1>1
  <2> QED BY <2>4, <2>5
<1>6. CASE at.cur # NULL
  <2> DEFINE k == node[at.cur].key
             v == node[at.cur].data
  <2>1. trav'[t].st = "open" /\ trav'[t].current = at.cur
    BY <1>3, <1>6 DEF MovedTo
  <2>2. ret' = Result("traverse", k, v, "0")
    BY <2>1, <1>5
  <2>3. k \in Keys /\ at.cur \in InDict
    BY <1>1, <1>2, <1>4, <1>6 DEF AllocOf, Heap, Node, Addr
  <2>4. k \in DOMAIN Dict /\ Dict[k] = v
    BY <1>2, <2>3 DEF DictIs, Present
  <2> HIDE DEF k, v
  <2>5. MapRet' = Map!Result("traverse", k, Dict[k], "0")
    BY <2>2, <2>4, RetIs
  <2>6. Map!TraverseNode(k)
    BY <1>1, <1>2, <2>4, <2>5 DEF Map!TraverseNode, MapRet
  <2> QED BY <2>3, <2>6
<1>7. CASE at.cur = NULL
  <2>1. ret' = Result("traverse", NULL, NULL, "0")
    BY <1>3, <1>5, <1>7 DEF MovedTo
  <2>2. MapRet' = Map!Result("traverse", NULL, NULL, "0")
    BY <2>1, RetIs
  <2>3. Map!TraverseEnd
    BY <1>1, <1>2, <2>2 DEF Map!TraverseEnd, MapRet
  <2> QED BY <2>3
<1> QED BY <1>6, <1>7

(* Without nodes the next dictionary is empty. *)
LEMMA EmptyNext ==
    ASSUME AllocOf(node') = {} PROVE Dict' = [k \in {} |-> NULL]
<1>1. (AllocOf(node) = {} => Dict = [k \in {} |-> NULL])'
  BY DictEmpty, PTL
<1> QED BY <1>1

(* Every step of the tree is a step of the abstract map, or leaves it as it is. *)
LEMMA StepIsStep ==
    ASSUME RbAssumption, RbInv, TravInv, EntInv, EntInv', [Next]_vars PROVE [Map!Next]_(Map!vars)
<1>1. CASE HXrbtree_init4
  <2>1. AllocOf(node') = {} /\ ~alive /\ alive' = TRUE /\ noreplace' \in BOOLEAN
    BY <1>1 DEF HXrbtree_init4, RbInv
  <2>2. Dict' = [k \in {} |-> NULL]
    BY <2>1, EmptyNext
  <2>3. MapRet' = Map!NoResult
    BY <1>1, RetIs DEF HXrbtree_init4, NoResult, Map!NoResult
  <2>4. Map!MapInit
    BY <2>1, <2>2, <2>3 DEF Map!MapInit, MapRet
  <2> QED BY <2>4 DEF Map!Next
<1>2. CASE HXrbtree_free
  <2>1. AllocOf(node') = {} /\ alive /\ alive' = FALSE /\ noreplace' = noreplace
    BY <1>2, FreeGood DEF HXrbtree_free, Ready, RbInv
  <2>2. Dict' = [k \in {} |-> NULL]
    BY <2>1, EmptyNext
  <2>3. MapRet' = Map!NoResult
    BY <1>2, RetIs DEF HXrbtree_free, NoResult, Map!NoResult
  <2>4. Map!MapFree
    BY <2>1, <2>2, <2>3 DEF Map!MapFree, MapRet
  <2> QED BY <2>4 DEF Map!Next
<1>3. CASE SetFlags
  <2>1. Dict' = Dict
    BY <1>3, DictStutter DEF SetFlags
  <2>2. Map!SetFlags
    BY <1>3, <2>1 DEF SetFlags, Ready, Map!SetFlags
  <2> QED BY <2>2 DEF Map!Next
<1>4. ASSUME NEW k \in Keys, HXmap_get(k) PROVE Map!Next
  <2>1. Ready /\ alive /\ Dict' = Dict /\ UNCHANGED <<alive, noreplace>>
    BY <1>4, DictStutter DEF HXmap_get, Ready
  <2>2. ret' = IF k \in DOMAIN Dict THEN Result("get", k, Dict[k], "0") ELSE Result("get", k, NULL, "ENOENT")
    BY <1>4, <2>1, FindIsLookup DEF HXmap_get
  <2>3. MapRet' = IF k \in DOMAIN Dict THEN Map!Result("get", k, Dict[k], "0") ELSE Map!Result("get", k, NULL, "ENOENT")
    BY <2>2, RetIs
  <2>4. Map!Get(k)
    BY <2>1, <2>3 DEF Map!Get, MapRet
  <2> QED BY <2>4 DEF Map!Next
<1>5. ASSUME NEW k \in Keys, HXmap_del(k) PROVE [Map!Next]_(Map!vars)
  BY <1>5, DelIsDel DEF Map!Next
<1>6. ASSUME NEW k \in Keys, NEW v \in Data, HXmap_add(k, v) PROVE [Map!Next]_(Map!vars)
  BY <1>6, AddIsAdd DEF Map!Next, Map!Data, Data
<1>7. CASE UNCHANGED <<alive, noreplace, node, call, ret>>
  <2>1. Dict' = Dict
    BY <1>7, DictStutter
  <2> QED BY <1>7, <2>1 DEF Map!vars
<1>8. CASE AddEnd
  BY <1>8, AddEndIsAdd DEF Map!Next, Map!Data, Data
<1>9. CASE DelEnd
  BY <1>9, DelEndIsDel DEF Map!Next
<1>10. ASSUME NEW t \in Travs, HXrbtree_traverse(t) PROVE Map!Next
  BY <1>10, TraverseIsTraverse DEF Map!Next
<1>11. CASE HXrbtree_amov \/ HXrbtree_dmov
  BY <1>11, MovesStutter
<1>12. CASE UNCHANGED vars \/ \E t \in Travs : HXmap_travinit(t) \/ HXmap_travfree(t)
  BY <1>7, <1>12 DEF HXmap_travinit, HXmap_travfree, vars
<1> QED BY <1>1, <1>2, <1>3, <1>4, <1>5, <1>6, <1>8, <1>9, <1>10, <1>11, <1>12 DEF Next

(* The red-black tree implements the abstract dictionary HXmap: every step *)
(* of an add or delete is a step of the dictionary or invisible to it,     *)
(* through all rebalancing, and every result is the dictionary's, with the *)
(* sense of HXMAP_NOREPLACE inverted as in the code.                       *)
THEOREM Refinement == Spec => ImplementsMap
<1>1. Init => RbInv /\ TravInv /\ EntInv
  <2>1. Init => EntInv
    <3> SUFFICES ASSUME Init PROVE EntInv
      OBVIOUS
    <3>1. AllocOf(node) = {} /\ call.pc = "idle" /\ call.fn = "none"
      BY IdleIs, FreedIs DEF Init, AllocOf, Addr
    <3> QED BY <3>1 DEF EntInv, Entries
  <2> QED BY <2>1, InitInv, InitTrav, RbAssumption
<1>2. RbInv /\ TravInv /\ EntInv /\ [Next]_vars => RbInv' /\ TravInv' /\ EntInv'
  BY NextInv, NextTrav, EntriesStep, RbAssumption
<1>3. Init => Map!Init
  <2> SUFFICES ASSUME Init PROVE Map!Init
    OBVIOUS
  <2>1. AllocOf(node) = {}
    BY FreedIs DEF Init, AllocOf, Addr
  <2>2. Dict = [k \in {} |-> NULL]
    BY <2>1, DictEmpty
  <2> QED BY <2>2 DEF Init, Map!Init, Map!NoResult, Map!Result, NoResult, Result
<1>4. RbInv /\ TravInv /\ EntInv /\ EntInv' /\ [Next]_vars => [Map!Next]_(Map!vars)
  BY StepIsStep, RbAssumption
<1> QED BY <1>1, <1>2, <1>3, <1>4, PTL DEF Spec, ImplementsMap, Map!Spec

-----------------------------------------------------------------------------
(* The length of paths: powers of two, and the size of a tree of given     *)
(* black height.                                                           *)

(* The powers of two, which count the subsets of a set. *)
LEMMA PowerIs ==
    ASSUME NEW n \in Nat
    PROVE  2^n \in Nat /\ 2^n = Cardinality(SUBSET (1 .. n)) /\ IsFiniteSet(SUBSET (1 .. n))
<1>1. IsFiniteSet(1 .. n) /\ Cardinality(1 .. n) = n
  BY FS_Interval
<1> DEFINE S == 1 .. n
<1> HIDE DEF S
<1>2. IsFiniteSet(SUBSET S) /\ Cardinality(SUBSET S) = 2^Cardinality(S)
  BY <1>1, FS_SUBSET DEF S
<1>3. Cardinality(SUBSET S) \in Nat
  BY <1>2, FS_CardinalityType
<1> QED BY <1>1, <1>2, <1>3 DEF S

(* Doubling. *)
LEMMA PowerStep ==
    ASSUME NEW n \in Nat
    PROVE  2^(n + 1) = 2^n + 2^n
<1> DEFINE A == SUBSET (1 .. n)
           C == {s \cup {n + 1} : s \in A}
           f == [s \in A |-> s \cup {n + 1}]
<1>1. n + 1 \in Nat /\ n + 1 \notin 1 .. n /\ 1 .. n + 1 = (1 .. n) \cup {n + 1}
  OBVIOUS
<1>2. SUBSET (1 .. n + 1) = A \cup C
  <2>1. ASSUME NEW s \in SUBSET (1 .. n + 1) PROVE s \in A \cup C
    <3>1. CASE n + 1 \in s
      <4>1. s \ {n + 1} \in A /\ s = (s \ {n + 1}) \cup {n + 1}
        BY <3>1, <1>1
      <4> QED BY <4>1
    <3>2. CASE n + 1 \notin s
      BY <3>2, <1>1
    <3> QED BY <3>1, <3>2
  <2>2. A \subseteq SUBSET (1 .. n + 1) /\ C \subseteq SUBSET (1 .. n + 1)
    BY <1>1
  <2> QED BY <2>1, <2>2
<1>3. A \cap C = {}
  BY <1>1
<1>4. ExistsBijection(A, C)
  <2>1. f \in [A -> C]
    OBVIOUS
  <2>2. ASSUME NEW s \in A, NEW t \in A, f[s] = f[t] PROVE s = t
    <3>1. s \cup {n + 1} = t \cup {n + 1} /\ n + 1 \notin s /\ n + 1 \notin t
      BY <2>2, <1>1
    <3> QED BY <3>1
  <2>3. \A y \in C : \E s \in A : f[s] = y
    OBVIOUS
  <2> HIDE DEF f, A, C
  <2>4. f \in Bijection(A, C)
    BY <2>1, <2>2, <2>3 DEF Bijection, Injection, Surjection, IsInjective
  <2> QED BY <2>4 DEF ExistsBijection
<1>5. IsFiniteSet(A) /\ Cardinality(A) = 2^n /\ 2^n \in Nat
  BY PowerIs
<1>6. Cardinality(SUBSET (1 .. n + 1)) = 2^(n + 1)
  BY <1>1, PowerIs
<1> HIDE DEF A, C, f
<1>7. IsFiniteSet(C) /\ Cardinality(C) = Cardinality(A)
  BY <1>4, <1>5, FS_Bijection
<1> DEFINE U == SUBSET (1 .. n + 1)
           w == 2^(n + 1)
           v == 2^n
<1>u. U = A \cup C /\ Cardinality(U) = w /\ Cardinality(A) = v /\ v \in Nat
  BY <1>2, <1>5, <1>6
<1> HIDE DEF U, w, v
<1>8. Cardinality(A \cap C) = 0
  BY <1>3, FS_EmptySet
<1>9. Cardinality(A \cup C) = Cardinality(A) + Cardinality(C) - Cardinality(A \cap C)
  BY <1>5, <1>7, FS_Union
<1>10. Cardinality(U) = v + v
  BY <1>u, <1>7, <1>8, <1>9
<1> QED BY <1>u, <1>10 DEF w, v

(* They are positive, and grow. *)
LEMMA PowerPos == \A n \in Nat : 2^n >= 1
<1> DEFINE P == {j \in Nat : 2^j >= 1}
<1>1. 0 \in P
  <2>1. 2^0 = 1
    OBVIOUS
  <2> QED BY <2>1
<1>2. ASSUME NEW j \in Nat, j \in P PROVE j + 1 \in P
  <2>1. 2^(j + 1) = 2^j + 2^j /\ 2^j \in Nat
    BY PowerStep, PowerIs
  <2> QED BY <1>2, <2>1
<1> HIDE DEF P
<1>3. \A n \in Nat : n \in P
  BY <1>1, <1>2, NatInd
<1> QED BY <1>3 DEF P

(* The powers of two grow strictly. *)
LEMMA PowerGrows ==
    ASSUME NEW m \in Nat
    PROVE  \A n \in Nat : m < n => 2^m < 2^n
<1> DEFINE P == {j \in Nat : m < j => 2^m < 2^j}
<1>1. 0 \in P
  OBVIOUS
<1>2. ASSUME NEW j \in Nat, j \in P PROVE j + 1 \in P
  <2>1. 2^(j + 1) = 2^j + 2^j /\ 2^j \in Nat /\ 2^j >= 1 /\ 2^m \in Nat
    BY PowerStep, PowerIs, PowerPos
  <2>2. m < j + 1 => m = j \/ m < j
    OBVIOUS
  <2> QED BY <1>2, <2>1, <2>2
<1> HIDE DEF P
<1>3. \A n \in Nat : n \in P
  BY <1>1, <1>2, NatInd
<1> QED BY <1>3 DEF P

(* What two and two more say of exponents. *)
LEMMA PowerBound ==
    ASSUME NEW m \in Nat, NEW d \in Nat
    PROVE  /\ 2^m <= 2^d => m <= d
           /\ 2^m < 2^d => m < d
           /\ d >= 1 /\ 2^m <= 2^d + 1 => m <= d
<1>1. (d < m => 2^d < 2^m) /\ 2^d \in Nat /\ 2^m \in Nat
  BY PowerGrows, PowerIs
<1>2. ASSUME d >= 1, 2^m <= 2^d + 1, m > d PROVE FALSE
  <2>1. 2^(d + 1) = 2^d + 2^d
    BY PowerStep
  <2>2. 2^(d + 1) <= 2^m
    <3>1. d + 1 = m \/ d + 1 < m
      BY <1>2
    <3>2. d + 1 < m => 2^(d + 1) < 2^m
      BY PowerGrows
    <3> QED BY <3>1, <3>2, <2>1, <1>1
  <2>3. 2^d >= 2
    <3>1. d - 1 \in Nat /\ (d - 1) + 1 = d
      BY <1>2
    <3>2. 2^((d - 1) + 1) = 2^(d - 1) + 2^(d - 1) /\ 2^(d - 1) >= 1 /\ 2^(d - 1) \in Nat
      BY <3>1, PowerStep, PowerPos, PowerIs
    <3> QED BY <3>1, <3>2
  <2> QED BY <1>1, <1>2, <2>1, <2>2, <2>3
<1>3. 2^m < 2^d => m < d
  <2>1. m = d => 2^m = 2^d
    OBVIOUS
  <2> QED BY <2>1, <1>1
<1> QED BY <1>1, <1>2, <1>3

(* A subtree with black height B[m] has at least as many nodes as one that *)
(* is all black, more if a node of it is red, and two more if two are.     *)
Counted(h, T, B, m) ==
    /\ IsFiniteSet(T[m])
    /\ 2^B[m] <= Cardinality(T[m]) + 1
    /\ (\E y \in T[m] : h[y].color = "RED") => 2^B[m] < Cardinality(T[m]) + 1
    /\ (\E x, y \in T[m] : x # y /\ h[x].color = "RED" /\ h[y].color = "RED")
           => 2^B[m] + 2 <= Cardinality(T[m]) + 1

(* The number of nodes of three disjoint parts. *)
LEMMA CardJoin ==
    ASSUME NEW m, NEW A, NEW C, IsFiniteSet(A), IsFiniteSet(C), A \cap C = {}, m \notin A, m \notin C
    PROVE  /\ IsFiniteSet({m} \cup A \cup C)
           /\ Cardinality({m} \cup A \cup C) = Cardinality(A) + Cardinality(C) + 1
           /\ Cardinality(A) \in Nat /\ Cardinality(C) \in Nat
<1>1. Cardinality(A) \in Nat /\ Cardinality(C) \in Nat /\ Cardinality(A \cap C) = 0
  BY FS_CardinalityType, FS_EmptySet
<1> DEFINE D == A \cup C
           E == {m} \cup A \cup C
           F == D \cup {m}
<1>2. m \notin D /\ E = F
  OBVIOUS
<1>3. IsFiniteSet(D) /\ Cardinality(D) = Cardinality(A) + Cardinality(C) - Cardinality(A \cap C)
  BY FS_Union
<1> HIDE DEF D
<1>4. IsFiniteSet(F) /\ Cardinality(F) = Cardinality(D) + 1
  BY <1>2, <1>3, FS_AddElement
<1> HIDE DEF E, F
<1>5. Cardinality(E) = Cardinality(A) + Cardinality(C) + 1
  <2> DEFINE i == Cardinality(A \cap C)
  <2>1. i = 0 /\ Cardinality(D) = Cardinality(A) + Cardinality(C) - i
    BY <1>1, <1>3
  <2> HIDE DEF i
  <2> QED BY <2>1, <1>1, <1>2, <1>4
<1> QED BY <1>1, <1>2, <1>4, <1>5 DEF E

(* The subtrees of a balanced tree are as large as Counted says. *)
LEMMA CountIs ==
    ASSUME RbAssumption, NEW h \in Heap, NEW L, NEW T, Tree(h, L, T), NEW B, Balanced(h, L, B, {})
    PROVE  \A m \in L \cup {NULL} : Counted(h, T, B, m)
<1> DEFINE P == {m \in L \cup {NULL} : Counted(h, T, B, m)}
<1>0. /\ T[NULL] = {} /\ B[NULL] = 0 /\ L \subseteq Addr /\ \A x \in Addr : h[x].color \in {"RED", "BLACK"}
      /\ \A x \in L, f \in Dirs : h[x].sub[f] \in L \cup {NULL}
  <2>1. T[NULL] = {}
    BY DEF Tree, Shape, Subtrees
  <2>2. B[NULL] = 0
    BY DEF Balanced
  <2> QED BY <2>1, <2>2, TreeSubs
<1>1. NULL \in P
  <2>1. 2^0 = 1 /\ Cardinality({}) = 0 /\ IsFiniteSet({})
    BY FS_EmptySet
  <2>2. IsFiniteSet(T[NULL]) /\ Cardinality(T[NULL]) = 0 /\ 2^B[NULL] = 1 /\ ~\E y \in T[NULL] : TRUE
    BY <2>1, <1>0
  <2>3. Counted(h, T, B, NULL)
    BY <2>2 DEF Counted
  <2> QED BY <2>3
<1>2. ASSUME NEW m \in L, h[m].sub[RBT_LEFT] \in P, h[m].sub[RBT_RIGHT] \in P
      PROVE  m \in P
  <2> DEFINE l == h[m].sub[RBT_LEFT]
             r == h[m].sub[RBT_RIGHT]
  <2>1. /\ T[m] = {m} \cup T[l] \cup T[r] /\ T[l] \cap T[r] = {} /\ m \notin T[l] /\ m \notin T[r]
        /\ RBT_LEFT \in Dirs /\ RBT_RIGHT \in Dirs
    <3>1. /\ RBT_LEFT \in Dirs /\ RBT_RIGHT \in Dirs
          /\ Other(RBT_LEFT) = RBT_RIGHT /\ Other(RBT_RIGHT) = RBT_LEFT
      BY DEF Dirs, Other, RBT_LEFT, RBT_RIGHT
    <3>2. SubOf(h)[m] = h[m].sub /\ Shape(KeyOf(h), SubOf(h), L, T)
      BY <1>0 DEF SubOf, Tree
    <3> DEFINE s == SubOf(h)
               k == KeyOf(h)
               d == RBT_LEFT
    <3>a. s[m][d] = l /\ s[m][Other(d)] = r
      BY <3>1, <3>2
    <3>c. d \in Dirs
      BY <3>1
    <3>d. Shape(k, s, L, T)
      BY <3>2
    <3> HIDE DEF s, k, d, l, r
    <3>b. /\ T[m] = {m} \cup T[s[m][d]] \cup T[s[m][Other(d)]]
          /\ T[s[m][d]] \cap T[s[m][Other(d)]] = {}
          /\ m \notin T[s[m][d]]
      BY <3>c, <3>d, SubtreeOf
    <3>3. /\ T[m] = {m} \cup T[l] \cup T[r] /\ T[l] \cap T[r] = {} /\ m \notin T[l]
      BY <3>a, <3>b, Zenon
    <3> USE DEF l, r
    <3>4. m \notin T[r]
      BY <3>1, <3>2, SubtreeOf
    <3> QED BY <3>1, <3>3, <3>4
  <2>2. /\ B[m] = B[l] + Wt(h, m) /\ B[m] = B[r] + Wt(h, m)
        /\ B[l] \in Nat /\ B[r] \in Nat /\ B[m] \in Nat
    <3>1. Gap({}, m, RBT_LEFT) = 0 /\ Gap({}, m, RBT_RIGHT) = 0
      BY DEF Gap
    <3>2. /\ B[m] = B[l] + Wt(h, m) + Gap({}, m, RBT_LEFT)
          /\ B[m] = B[r] + Wt(h, m) + Gap({}, m, RBT_RIGHT)
          /\ B[l] \in Nat /\ B[r] \in Nat /\ B[m] \in Nat
      BY <2>1, <1>0 DEF Balanced
    <3>3. Wt(h, m) \in Nat
      BY DEF Wt
    <3> QED BY <3>1, <3>2, <3>3
  <2>3. Wt(h, m) = IF h[m].color = "BLACK" THEN 1 ELSE 0
    BY DEF Wt
  <2>4. Counted(h, T, B, l) /\ Counted(h, T, B, r)
    BY <1>2
  <2> HIDE DEF l, r
  <2>5. /\ IsFiniteSet(T[m]) /\ Cardinality(T[m]) = Cardinality(T[l]) + Cardinality(T[r]) + 1
        /\ Cardinality(T[l]) \in Nat /\ Cardinality(T[r]) \in Nat
    <3> DEFINE A == T[l]
               C == T[r]
               E == {m} \cup A \cup C
    <3>1. IsFiniteSet(A) /\ IsFiniteSet(C)
      BY <2>4 DEF Counted
    <3>2. A \cap C = {} /\ m \notin A /\ m \notin C /\ T[m] = E
      BY <2>1
    <3> HIDE DEF A, C
    <3>3. /\ IsFiniteSet(E) /\ Cardinality(E) = Cardinality(A) + Cardinality(C) + 1
          /\ Cardinality(A) \in Nat /\ Cardinality(C) \in Nat
      BY <3>1, <3>2, CardJoin
    <3> HIDE DEF E
    <3> QED BY <3>2, <3>3 DEF A, C
  <2>6. 2^B[l] \in Nat /\ 2^B[r] \in Nat /\ 2^B[m] \in Nat /\ 2^B[l] >= 1
    BY <2>2, PowerIs, PowerPos
  <2>7. CASE h[m].color = "BLACK"
    <3>1. B[l] = B[r] /\ B[m] = B[l] + 1
      BY <2>2, <2>3, <2>7
    <3>2. 2^B[m] = 2^B[l] + 2^B[l] /\ 2^B[r] = 2^B[l]
      BY <3>1, <2>2, PowerStep
    <3>3. 2^B[l] <= Cardinality(T[l]) + 1 /\ 2^B[r] <= Cardinality(T[r]) + 1
      BY <2>4 DEF Counted
    <3>4. 2^B[m] <= Cardinality(T[m]) + 1
      BY <2>5, <2>6, <3>2, <3>3
    <3>5. ASSUME NEW y \in T[m], h[y].color = "RED" PROVE 2^B[m] < Cardinality(T[m]) + 1
      <4>1. y \in T[l] \/ y \in T[r]
        BY <2>1, <2>7, <3>5
      <4>2. CASE y \in T[l]
        <5>1. 2^B[l] < Cardinality(T[l]) + 1
          BY <4>2, <3>5, <2>4 DEF Counted
        <5> QED BY <5>1, <2>5, <2>6, <3>2, <3>3
      <4>3. CASE y \in T[r]
        <5>1. 2^B[r] < Cardinality(T[r]) + 1
          BY <4>3, <3>5, <2>4 DEF Counted
        <5> QED BY <5>1, <2>5, <2>6, <3>2, <3>3
      <4> QED BY <4>1, <4>2, <4>3
    <3>6. ASSUME NEW x \in T[m], NEW y \in T[m], x # y, h[x].color = "RED", h[y].color = "RED"
          PROVE  2^B[m] + 2 <= Cardinality(T[m]) + 1
      <4>1. x \in T[l] \/ x \in T[r]
        BY <2>1, <2>7, <3>6
      <4>2. y \in T[l] \/ y \in T[r]
        BY <2>1, <2>7, <3>6
      <4>3. CASE x \in T[l] /\ y \in T[l]
        <5>1. 2^B[l] + 2 <= Cardinality(T[l]) + 1
          BY <4>3, <3>6, <2>4 DEF Counted
        <5> QED BY <5>1, <2>5, <2>6, <3>2, <3>3
      <4>4. CASE x \in T[r] /\ y \in T[r]
        <5>1. 2^B[r] + 2 <= Cardinality(T[r]) + 1
          BY <4>4, <3>6, <2>4 DEF Counted
        <5> QED BY <5>1, <2>5, <2>6, <3>2, <3>3
      <4>5. CASE (\E z \in T[l] : h[z].color = "RED") /\ (\E z \in T[r] : h[z].color = "RED")
        <5>1. 2^B[l] < Cardinality(T[l]) + 1 /\ 2^B[r] < Cardinality(T[r]) + 1
          BY <4>5, <2>4 DEF Counted
        <5> QED BY <5>1, <2>5, <2>6, <3>2, <3>3
      <4> QED BY <4>1, <4>2, <4>3, <4>4, <4>5, <3>6
    <3> QED BY <2>5, <3>4, <3>5, <3>6 DEF Counted
  <2>8. CASE h[m].color # "BLACK"
    <3>1. B[l] = B[m] /\ B[r] = B[m]
      BY <2>2, <2>3, <2>8
    <3>3. 2^B[l] <= Cardinality(T[l]) + 1 /\ 2^B[r] <= Cardinality(T[r]) + 1
      BY <2>4 DEF Counted
    <3>4. 2^B[m] < Cardinality(T[m]) + 1
      BY <2>5, <2>6, <3>1, <3>3
    <3>5. 2^B[m] <= Cardinality(T[m]) + 1
      BY <3>4, <2>5, <2>6
    <3>6. ASSUME NEW x \in T[m], NEW y \in T[m], x # y, h[x].color = "RED", h[y].color = "RED"
          PROVE  2^B[m] + 2 <= Cardinality(T[m]) + 1
      <4>1. PICK z \in {x, y} : z # m
        BY <3>6
      <4>2. h[z].color = "RED" /\ (z \in T[l] \/ z \in T[r])
        BY <4>1, <3>6, <2>1
      <4>3. CASE z \in T[l]
        <5>1. 2^B[l] < Cardinality(T[l]) + 1
          BY <4>2, <4>3, <2>4 DEF Counted
        <5> QED BY <5>1, <2>5, <2>6, <3>1, <3>3
      <4>4. CASE z \in T[r]
        <5>1. 2^B[r] < Cardinality(T[r]) + 1
          BY <4>2, <4>4, <2>4 DEF Counted
        <5> QED BY <5>1, <2>5, <2>6, <3>1, <3>3
      <4> QED BY <4>2, <4>3, <4>4
    <3> QED BY <2>5, <3>4, <3>5, <3>6 DEF Counted
  <2> QED BY <2>7, <2>8
<1> HIDE DEF P
<1>3. \A m \in L \cup {NULL} : m \in P
  BY <1>1, <1>2, TreeInd
<1> QED BY <1>3 DEF P

(* On a path of a red-black tree at least every other node is black, and   *)
(* as many as it has nodes if none of them is red.                         *)
Alternate(h, L, B, p, i) ==
    LET e == h[p[i].nd].sub[p[i].dir]
        b == B[RootOf(h)] - B[e]
    IN  /\ e \in L \cup {NULL}
        /\ 2 * b >= (i - 1) + (IF IsRed(h, e) THEN 1 ELSE 0)
        /\ (\A j \in 2 .. i : h[p[j].nd].color = "BLACK") => b = i - 1

AlternateAt(h, L, B, p, i, f, rt) ==
    /\ f = h[p[i].nd].sub[p[i].dir] /\ rt = B[RootOf(h)]
    /\ f \in L \cup {NULL}
    /\ 2 * (rt - B[f]) >= (i - 1) + (IF IsRed(h, f) THEN 1 ELSE 0)
    /\ (\A j \in 2 .. i : h[p[j].nd].color = "BLACK") => rt - B[f] = i - 1

(* Alternate, with its definitions expanded. *)
LEMMA AlternateFrom ==
    ASSUME NEW h, NEW L, NEW B, NEW p, NEW i, NEW f, NEW rt, AlternateAt(h, L, B, p, i, f, rt)
    PROVE  Alternate(h, L, B, p, i)
  BY DEF Alternate, AlternateAt

(* The paths of a red-black tree are as Alternate says. *)
LEMMA AlternateIs ==
    ASSUME RbAssumption, NEW h \in Heap, NEW L, NEW T, Tree(h, L, T), NEW B, Settled(h, L, B),
           NEW p, GoodPath(SubOf(h), L, p)
    PROVE  \A i \in 1 .. Len(p) : Alternate(h, L, B, p, i)
<1> DEFINE P == {j \in Nat : j + 1 <= Len(p) => Alternate(h, L, B, p, j + 1)}
<1>0. /\ L \subseteq Addr /\ (\A x \in Addr : h[x].color \in {"RED", "BLACK"})
      /\ NULL \notin L /\ h[ROOT].sub[RBT_LEFT] \in L \cup {NULL}
      /\ \A x \in L, f \in Dirs : h[x].sub[f] \in L \cup {NULL}
  BY TreeSubs
<1>1. /\ Len(p) \in Nat /\ Len(p) >= 1 /\ p[1] = Hop(ROOT, RBT_LEFT)
      /\ \A i \in 2 .. Len(p) : p[i].nd \in L
      /\ \A i \in 1 .. Len(p) : p[i].dir \in Dirs
      /\ \A i \in 1 .. Len(p) - 1 : h[p[i].nd].sub[p[i].dir] = p[i + 1].nd
  BY PathHeap
<1>2. B \in [L \cup {NULL} -> Nat] /\ \A n \in L, d \in Dirs : B[n] = B[h[n].sub[d]] + Wt(h, n)
  <2>1. B \in [L \cup {NULL} -> Nat] /\ \A n \in L, d \in Dirs : B[n] = B[h[n].sub[d]] + Wt(h, n) + Gap({}, n, d)
    BY DEF Settled, Balanced
  <2>2. \A n, d : Gap({}, n, d) = 0
    BY DEF Gap
  <2>3. \A n : Wt(h, n) \in Nat
    BY DEF Wt
  <2> QED BY <2>1, <2>2, <2>3, <1>0
<1>3. (\A n \in L, d \in Dirs : ~(IsRed(h, n) /\ IsRed(h, h[n].sub[d]))) /\ ~IsRed(h, RootOf(h))
  BY DEF Settled, RedFree
<1>4. 0 \in P
  <2>1. p[1].nd = ROOT /\ p[1].dir = RBT_LEFT
    BY <1>1 DEF Hop
  <2>2. RootOf(h) = h[ROOT].sub[RBT_LEFT] /\ RootOf(h) \in L \cup {NULL}
    BY <1>0 DEF RootOf
  <2>3. B[RootOf(h)] \in Nat
    BY <1>2, <2>2
  <2>4. Alternate(h, L, B, p, 1)
    BY <2>1, <2>2, <2>3, <1>3 DEF Alternate
  <2> QED BY <2>4
<1>5. ASSUME NEW j \in Nat, j \in P PROVE j + 1 \in P
  <2> SUFFICES ASSUME (j + 1) + 1 <= Len(p) PROVE Alternate(h, L, B, p, (j + 1) + 1)
    OBVIOUS
  <2> DEFINE i == j + 1
             e == h[p[i].nd].sub[p[i].dir]
             f == h[p[i + 1].nd].sub[p[i + 1].dir]
             rt == B[RootOf(h)]
  <2>1. i \in 1 .. Len(p) - 1 /\ i + 1 \in 2 .. Len(p) /\ i + 1 \in 1 .. Len(p) /\ i <= Len(p)
    BY <1>1
  <2>2. Alternate(h, L, B, p, i)
    BY <1>5, <2>1
  <2>3. e \in L /\ p[i + 1].nd = e /\ p[i + 1].dir \in Dirs
    BY <2>1, <1>1
  <2>4. f = h[e].sub[p[i + 1].dir] /\ f \in L \cup {NULL}
    BY <2>3, <1>0
  <2>5. B[e] = B[f] + Wt(h, e) /\ B[e] \in Nat /\ B[f] \in Nat
    BY <2>3, <2>4, <1>2
  <2>6. rt \in Nat
    <3>1. RootOf(h) \in L \cup {NULL}
      BY <1>0 DEF RootOf
    <3> QED BY <3>1, <1>2
  <2>7. /\ 2 * (rt - B[e]) >= (i - 1) + (IF IsRed(h, e) THEN 1 ELSE 0)
        /\ (\A x \in 2 .. i : h[p[x].nd].color = "BLACK") => rt - B[e] = i - 1
    BY <2>2 DEF Alternate
  <2>8. ~(IsRed(h, e) /\ IsRed(h, f))
    BY <2>3, <2>4, <1>3
  <2>9. IsRed(h, e) <=> h[e].color # "BLACK"
    BY <2>3, <1>0 DEF IsRed
  <2>10. Wt(h, e) = IF h[e].color = "BLACK" THEN 1 ELSE 0
    BY DEF Wt
  <2> HIDE DEF e, f, rt
  <2>11. 2 * (rt - B[f]) >= i + (IF IsRed(h, f) THEN 1 ELSE 0)
    <3>1. CASE IsRed(h, e)
      BY <3>1, <2>5, <2>6, <2>7, <2>8, <2>9, <2>10
    <3>2. CASE ~IsRed(h, e)
      BY SMTT(30), <3>2, <2>5, <2>6, <2>7, <2>9, <2>10
    <3> QED BY <3>1, <3>2
  <2>12. (\A x \in 2 .. i + 1 : h[p[x].nd].color = "BLACK") => rt - B[f] = i
    <3>1. SUFFICES ASSUME \A x \in 2 .. i + 1 : h[p[x].nd].color = "BLACK"
                   PROVE  rt - B[f] = i
      OBVIOUS
    <3>2. h[e].color = "BLACK"
      BY <3>1, <2>1, <2>3
    <3>3. rt - B[e] = i - 1
      BY <3>1, <2>1, <2>7
    <3>4. i \in Int
      OBVIOUS
    <3> HIDE DEF i
    <3> QED BY <3>2, <3>3, <3>4, <2>5, <2>6, <2>10
  <2>13. (i + 1) - 1 = i
    OBVIOUS
  <2>14. /\ 2 * (rt - B[f]) >= ((i + 1) - 1) + (IF IsRed(h, f) THEN 1 ELSE 0)
         /\ (\A x \in 2 .. i + 1 : h[p[x].nd].color = "BLACK") => rt - B[f] = (i + 1) - 1
    BY <2>11, <2>12, <2>13, Zenon
  <2>15. f \in L \cup {NULL}
    BY <2>4
  <2> HIDE DEF i
  <2>16. f = h[p[i + 1].nd].sub[p[i + 1].dir] /\ rt = B[RootOf(h)]
    BY Zenon DEF f, rt
  <2>17. AlternateAt(h, L, B, p, i + 1, f, rt)
    BY <2>14, <2>15, <2>16, Zenon DEF AlternateAt
  <2>18. Alternate(h, L, B, p, i + 1)
    BY <2>17, AlternateFrom, Zenon
  <2> QED BY <2>18, Zenon DEF i
<1> HIDE DEF P
<1>6. \A j \in Nat : j \in P
  BY <1>4, <1>5, NatInd
<1>7. ASSUME NEW i \in 1 .. Len(p) PROVE Alternate(h, L, B, p, i)
  <2>1. i - 1 \in Nat /\ (i - 1) + 1 = i /\ i <= Len(p)
    BY <1>1
  <2>2. i - 1 \in P
    BY <2>1, <1>6
  <2> QED BY <2>1, <2>2 DEF P
<1> QED BY <1>7

(* The black height of a tree, its size, and the length of a path in it. *)
Measured(h, L, B, p) ==
    LET b == B[RootOf(h)]
        e == End(h, p)
    IN  /\ b \in Nat /\ Len(p) \in Nat /\ Len(p) >= 1
        /\ Cardinality(L) \in Nat
        /\ 2^b <= Cardinality(L) + 1
        /\ (\E y \in L : h[y].color = "RED") => 2^b < Cardinality(L) + 1
        /\ (\E x, y \in L : x # y /\ h[x].color = "RED" /\ h[y].color = "RED")
               => 2^b + 2 <= Cardinality(L) + 1
        /\ e \in L \cup {NULL} /\ B[e] \in Nat
        /\ Len(p) - 1 + (IF IsRed(h, e) THEN 1 ELSE 0) <= 2 * (b - B[e])
        /\ (\A j \in 2 .. Len(p) : h[p[j].nd].color = "BLACK") => Len(p) - 1 = b - B[e]

(* The two facts of the whole tree and a whole path. *)
LEMMA MeasuredIs ==
    ASSUME RbAssumption, NEW h \in Heap, NEW L, NEW T, Tree(h, L, T), NEW B, Settled(h, L, B),
           NEW p, GoodPath(SubOf(h), L, p)
    PROVE  Measured(h, L, B, p)
<1>1. Len(p) \in Nat /\ Len(p) >= 1
  BY PathHeap
<1>2. Alternate(h, L, B, p, Len(p))
  <2>1. Len(p) \in 1 .. Len(p)
    BY <1>1
  <2> QED BY <2>1, AlternateIs
<1>3. Balanced(h, L, B, {}) /\ B \in [L \cup {NULL} -> Nat]
  BY DEF Settled, Balanced
<1>4. T[RootOf(h)] = L /\ RootOf(h) \in L \cup {NULL}
  BY TreeKeys
<1>5. Counted(h, T, B, RootOf(h))
  BY <1>3, <1>4, CountIs
<1>6. /\ IsFiniteSet(L) /\ 2^B[RootOf(h)] <= Cardinality(L) + 1
      /\ (\E y \in L : h[y].color = "RED") => 2^B[RootOf(h)] < Cardinality(L) + 1
      /\ (\E x, y \in L : x # y /\ h[x].color = "RED" /\ h[y].color = "RED")
             => 2^B[RootOf(h)] + 2 <= Cardinality(L) + 1
  BY <1>4, <1>5 DEF Counted
<1>7. Cardinality(L) \in Nat
  BY <1>6, FS_CardinalityType
<1> DEFINE e == End(h, p)
           b == B[RootOf(h)]
           k == Len(p)
<1>8. /\ e \in L \cup {NULL}
      /\ 2 * (b - B[e]) >= (k - 1) + (IF IsRed(h, e) THEN 1 ELSE 0)
      /\ (\A j \in 2 .. k : h[p[j].nd].color = "BLACK") => b - B[e] = k - 1
  BY <1>2 DEF Alternate, End
<1>9. b \in Nat /\ B[e] \in Nat
  BY <1>3, <1>4, <1>8
<1> HIDE DEF e, b, k
<1>10. (k - 1) + (IF IsRed(h, e) THEN 1 ELSE 0) <= 2 * (b - B[e])
  BY <1>8, <1>9, <1>1 DEF k
<1> QED BY <1>1, <1>6, <1>7, <1>8, <1>9, <1>10, Zenon DEF Measured, e, b, k

(* A path in a red-black tree with fewer than 2^d nodes. *)
LEMMA SettledFits ==
    ASSUME RbAssumption, NEW h \in Heap, NEW L, NEW T, Tree(h, L, T), NEW B, Settled(h, L, B),
           NEW p, GoodPath(SubOf(h), L, p), NEW d \in Nat, d >= 1, Cardinality(L) + 1 <= 2^d
    PROVE  Len(p) <= 2 * d
<1> DEFINE b == B[RootOf(h)]
           e == End(h, p)
           k == Len(p)
           N == Cardinality(L)
           two == 2^b
           cap == 2^d
<1>1. Measured(h, L, B, p)
  BY MeasuredIs
<1>2. /\ b \in Nat /\ k \in Nat /\ N \in Nat /\ two <= N + 1 /\ B[e] \in Nat
      /\ (\E y \in L : h[y].color = "RED") => two < N + 1
      /\ k - 1 + (IF IsRed(h, e) THEN 1 ELSE 0) <= 2 * (b - B[e])
      /\ (\A j \in 2 .. k : h[p[j].nd].color = "BLACK") => k - 1 = b - B[e]
  BY <1>1, Zenon DEF Measured
<1>3. two \in Nat /\ cap \in Nat /\ (two <= cap => b <= d) /\ (two < cap => b < d)
  BY <1>2, PowerIs, PowerBound
<1>4. N + 1 <= cap
  OBVIOUS
<1>5. (\E y \in L : h[y].color = "RED") \/ \A y \in L : h[y].color = "BLACK"
  BY TreeSubs
<1>8. \A j \in 2 .. k : p[j].nd \in L
  BY PathHeap
<1> HIDE DEF b, e, k, N, two, cap
<1>6. CASE \E y \in L : h[y].color = "RED"
  <2>1. b < d
    BY <1>2, <1>3, <1>4, <1>6
  <2>2. k - 1 <= 2 * b
    BY <1>2
  <2>3. k <= 2 * d
    BY <2>1, <2>2, <1>2
  <2> QED BY <2>3 DEF k
<1>7. CASE \A y \in L : h[y].color = "BLACK"
  <2>1. b <= d
    BY <1>2, <1>3, <1>4
  <2>2. k - 1 <= b
    <3>1. k - 1 = b - B[e]
      BY <1>2, <1>7, <1>8
    <3> QED BY <3>1, <1>2
  <2>3. k <= 2 * d
    BY <2>1, <2>2, <1>2
  <2> QED BY <2>3 DEF k
<1> QED BY <1>5, <1>6, <1>7

(* A path to a node does not pass it. *)
LEMMA EndNew ==
    ASSUME RbAssumption, NEW h \in Heap, NEW L, NEW T, Tree(h, L, T),
           NEW p, GoodPath(SubOf(h), L, p), NEW n \in L, End(h, p) = n, NEW i \in 1 .. Len(p)
    PROVE  p[i].nd # n
<1> DEFINE s == SubOf(h)
           a == p[Len(p)].nd
           e == p[Len(p)].dir
<1>1. Len(p) \in 1 .. Len(p) /\ Slot(L, a, e) /\ h[a].sub[e] = n
  BY PathHeap DEF End
<1>2. Shape(KeyOf(h), s, L, T)
  BY DEF Tree
<1>3. s[a][e] = n
  <2>1. a \in Addr
    BY <1>1, TreeSubs
  <2> QED BY <2>1, <1>1 DEF SubOf
<1>4. CASE i = Len(p)
  BY <1>1, <1>4, TreeChild
<1>5. CASE i # Len(p)
  <2>1. i \in 1 .. Len(p) - 1 /\ i < Len(p)
    BY <1>1, <1>5
  <2>2. a \in T[s[p[i].nd][p[i].dir]] /\ s[p[i].nd][p[i].dir] \in L
    BY <1>1, <1>2, <2>1, PathBelow
  <2>3. a \in L
    <3>1. Len(p) \in 2 .. Len(p)
      BY <1>1, <2>1
    <3> QED BY <3>1, PathHeap
  <2>4. e \in Dirs
    BY <1>1, PathHeap
  <2>5. a \notin T[n]
    BY <1>2, <1>3, <2>3, <2>4, Child
  <2>6. SUFFICES ASSUME p[i].nd = n PROVE FALSE
    OBVIOUS
  <2>7. p[i].dir \in Dirs
    BY PathHeap
  <2>8. T[s[n][p[i].dir]] \subseteq T[n]
    BY <1>2, <2>7, SubtreeOf
  <2> QED BY <2>2, <2>5, <2>6, <2>8
<1> QED BY <1>4, <1>5

(* A path to a node of a red-black tree with at most 2^d nodes leaves room *)
(* for one more entry: if the black height is d, so that there is one red  *)
(* node at most, then a path to it has black nodes only.                   *)
LEMMA EndFits ==
    ASSUME RbAssumption, NEW h \in Heap, NEW L, NEW T, Tree(h, L, T), NEW B, Settled(h, L, B),
           NEW p, GoodPath(SubOf(h), L, p), NEW n \in L, End(h, p) = n,
           NEW d \in Nat, d >= 2, Cardinality(L) <= 2^d
    PROVE  Len(p) + 1 <= 2 * d
<1> DEFINE b == B[RootOf(h)]
           k == Len(p)
           N == Cardinality(L)
           two == 2^b
           cap == 2^d
           AllBlack == \A j \in 2 .. k : h[p[j].nd].color = "BLACK"
           TwoRed == \E x, y \in L : x # y /\ h[x].color = "RED" /\ h[y].color = "RED"
<1>1. Measured(h, L, B, p)
  BY MeasuredIs
<1>2. /\ b \in Nat /\ k \in Nat /\ N \in Nat /\ two <= N + 1 /\ B[n] \in Nat
      /\ k - 1 + (IF IsRed(h, n) THEN 1 ELSE 0) <= 2 * (b - B[n])
      /\ AllBlack => k - 1 = b - B[n]
      /\ TwoRed => two + 2 <= N + 1
  BY <1>1, Zenon DEF Measured
<1>3. /\ two \in Nat /\ cap \in Nat /\ (two <= cap + 1 => b <= d)
      /\ (b = d => two = cap)
  <2> HIDE DEF b, k, N, AllBlack, TwoRed
  <2>a. d >= 1
    OBVIOUS
  <2>b. \A m \in Nat : 2^m \in Nat
    BY PowerIs
  <2>c. two \in Nat /\ cap \in Nat
    BY <2>b, <1>2
  <2>1. two \in Nat /\ cap \in Nat /\ d >= 1
    BY <2>a, <2>c
  <2>2. two <= cap + 1 => b <= d
    BY <1>2, <2>1, PowerBound
  <2>3. b = d => two = cap
    OBVIOUS
  <2> QED BY <2>1, <2>2, <2>3
<1>4. N <= cap
  OBVIOUS
<1>5. h[n].color = "BLACK" => B[n] >= 1
  <2>1. RBT_LEFT \in Dirs /\ h[n].sub[RBT_LEFT] \in L \cup {NULL}
    <3>1. RBT_LEFT \in Dirs
      BY DEF Dirs
    <3> QED BY <3>1, TreeSubs
  <2>2. /\ B[n] = B[h[n].sub[RBT_LEFT]] + Wt(h, n) + Gap({}, n, RBT_LEFT)
        /\ B[h[n].sub[RBT_LEFT]] \in Nat
    BY <2>1 DEF Settled, Balanced
  <2>3. Gap({}, n, RBT_LEFT) = 0 /\ (h[n].color = "BLACK" => Wt(h, n) = 1)
    BY DEF Gap, Wt
  <2> QED BY <2>2, <2>3
<1>6. IsRed(h, n) <=> h[n].color # "BLACK"
  BY TreeSubs DEF IsRed
(* Only n itself can be red if there are not two red nodes, and n is not   *)
(* among the nodes above it.                                               *)
<1>10. h[n].color # "BLACK" => AllBlack \/ TwoRed
  <2>1. SUFFICES ASSUME h[n].color # "BLACK", ~AllBlack
                 PROVE  TwoRed
    OBVIOUS
  <2>2. PICK j \in 2 .. k : h[p[j].nd].color # "BLACK"
    BY <2>1
  <2>3. p[j].nd \in L /\ p[j].nd # n
    <3>1. j \in 1 .. Len(p) /\ j \in 2 .. Len(p)
      BY <2>2
    <3> HIDE DEF k
    <3> QED BY <3>1, PathHeap, EndNew
  <2>4. h[n].color = "RED" /\ h[p[j].nd].color = "RED"
    BY <2>1, <2>2, <2>3, TreeSubs
  <2> QED BY <2>3, <2>4
<1> HIDE DEF b, k, N, two, cap, AllBlack, TwoRed
<1>7. b <= d
  BY <1>2, <1>3, <1>4
<1>8. CASE h[n].color = "BLACK"
  <2>1. k - 1 <= 2 * (b - 1)
    BY <1>2, <1>5, <1>6, <1>8
  <2>2. k + 1 <= 2 * d
    BY <2>1, <1>2, <1>7
  <2> QED BY <2>2 DEF k
<1>9. CASE h[n].color # "BLACK"
  <2>1. k - 1 + 1 <= 2 * (b - B[n])
    BY <1>2, <1>6, <1>9
  <2>2. CASE b < d
    <3>1. k + 1 <= 2 * d
      BY <2>1, <2>2, <1>2
    <3> QED BY <3>1 DEF k
  <2>3. CASE b = d
    <3>1. ~TwoRed
      BY <2>3, <1>2, <1>3, <1>4
    <3>2. k - 1 = b - B[n]
      BY <3>1, <1>2, <1>9, <1>10
    <3>3. k + 1 <= 2 * d
      BY <3>2, <2>3, <1>2
    <3> QED BY <3>3 DEF k
  <2> QED BY <2>2, <2>3, <1>2, <1>7
<1> QED BY <1>8, <1>9

-----------------------------------------------------------------------------
(* The path arrays are large enough.                                       *)

(* FitsIn, of a call c and it entries. *)
Behind(c) == IF c.fn = "del" THEN 1 ELSE 0
Fits(c, it, d) == c.pc # "idle" /\ it + Behind(c) <= 2^d => Len(c.path) + Behind(c) <= 2 * d

FitInv == \A d \in Nat : d >= 2 => Fits(call, items, d)

(* A call goes on with a path that is no longer than before. *)
GoesOn(c, c1) ==
    /\ c.pc # "idle" /\ c1.fn = c.fn
    /\ Len(c.path) \in Nat /\ Len(c1.path) \in Nat /\ Len(c1.path) <= Len(c.path)

(* A call that goes on with such a path still fits. *)
LEMMA FitsOn ==
    ASSUME FitInv, GoesOn(call, call'), items' = items
    PROVE  FitInv'
<1> SUFFICES ASSUME NEW d \in Nat, d >= 2 PROVE Fits(call', items', d)
  BY DEF FitInv
<1>1. Fits(call, items, d)
  BY DEF FitInv
<1> DEFINE y == Behind(call)
           x == items + y
<1>2. Behind(call') = y /\ items' + Behind(call') = x
  BY DEF GoesOn, Behind
<1>3. y \in Nat
  BY DEF Behind
<1>4. x <= 2^d => Len(call.path) + y <= 2 * d
  BY <1>1 DEF Fits, GoesOn
<1> HIDE DEF x, y
<1>5. x <= 2^d => Len(call'.path) + y <= 2 * d
  BY <1>3, <1>4 DEF GoesOn
<1> QED BY <1>2, <1>5, Zenon DEF Fits

(* Linking a node: the path of the search for its key. *)
LEMMA AddFits ==
    ASSUME RbAssumption, Good(node, call, items), call.pc = "idle", NEW k \in Keys, NEW v \in Data,
           HXrbtree_find(k) = NULL, AddLink(k, v)
    PROVE  FitInv'
<1> DEFINE p == PathTo(k)
           L == AllocOf(node)
<1>0. node \in Heap /\ call.fn = "none" /\ k \in Int
  BY DEF Good, CallOK, RbAssumption
<1>1. InTreeOf(node, call) = L
  BY <1>0 DEF InTreeOf
<1>2. PICK T : Tree(node, L, T)
  BY <1>1 DEF Good
<1>3. PICK B : Settled(node, L, B)
  BY <1>1 DEF Good, Balance
<1>4. GoodPath(SubOf(node), L, p)
  <2>1. Found(node, L, k, p, HXrbtree_find(k))
    BY <1>0, <1>2, PathToIs
  <2> QED BY <2>1 DEF Found
<1>5. items = Cardinality(L)
  BY <1>1 DEF Good
<1>6. items' = items + 1 /\ call'.fn = "add" /\ call'.pc = "amov" /\ call'.path = p
  BY DEF AddLink
<1> HIDE DEF p, L
<1>7. Len(p) \in Nat
  BY <1>0, <1>2, <1>4, PathHeap
<1> SUFFICES ASSUME NEW d \in Nat, d >= 2 PROVE Fits(call', items', d)
  BY DEF FitInv
<1>8. Cardinality(L) + 1 <= 2^d => Len(p) <= 2 * d
  BY <1>0, <1>2, <1>3, <1>4, SettledFits
<1>9. items' <= 2^d => Len(p) <= 2 * d
  BY <1>5, <1>6, <1>8
<1>10. items' \in Int
  <2>1. Cardinality(L) \in Nat
    BY <1>2, FS_CardinalityType DEF Tree
  <2> QED BY <2>1, <1>5, <1>6
<1>11. Behind(call') = 0
  BY <1>6 DEF Behind
<1> QED BY <1>6, <1>7, <1>9, <1>10, <1>11 DEF Fits

(* HXrbtree_del_mm: its path is as long as the one to the successor. *)
LEMMA MmFits ==
    ASSUME RbAssumption, node \in Heap, NEW L, NEW T, Tree(node, L, T), NEW B, Settled(node, L, B),
           NEW p, GoodPath(SubOf(node), L, p), NEW n \in L, End(node, p) = n,
           node[n].sub[RBT_RIGHT] # NULL, NEW d \in Nat, d >= 2, Cardinality(L) <= 2^d
    PROVE  Len(HXrbtree_del_mm(p, n).path) + 1 <= 2 * d
<1> DEFINE c == node[n].sub[RBT_RIGHT]
           w == Spine(c)
           io == w[Len(w)].nd
           a == p[Len(p)].nd
           e == p[Len(p)].dir
           b == IF Len(w) = 1 THEN n ELSE w[Len(w) - 1].nd
           g == IF Len(w) = 1 THEN RBT_RIGHT ELSE RBT_LEFT
           r == p \o <<Hop(n, RBT_RIGHT)>> \o Front(w)
           mm == HXrbtree_del_mm(p, n)
<1>0. c \in L /\ L \subseteq Addr /\ L \subseteq Nodes /\ ROOT \notin L /\ n \in Addr /\ RBT_RIGHT \in Dirs
  <2>1. RBT_RIGHT \in Dirs
    BY DEF Dirs
  <2> QED BY <2>1, TreeSubs
<1>1. LeftSpine(KeyOf(node), SubOf(node), L, T, c, w)
  BY <1>0, SpineIs
<1> HIDE DEF w
<1>2. Descent(node, L, T, p, n, w, io, b, g, r)
  BY <1>0, <1>1, DescentIs
<1>3. /\ Slot(L, a, e) /\ a \in Addr /\ e \in Dirs /\ Last(p) = p[Len(p)]
      /\ p \in Seq(Hops(L \cup {ROOT}))
  <2>1. /\ Len(p) \in 1 .. Len(p) /\ Last(p) = p[Len(p)]
        /\ \A i \in 1 .. Len(p) : Slot(L, p[i].nd, p[i].dir)
    BY PathHeap
  <2>2. Slot(L, a, e)
    BY <2>1
  <2> HIDE DEF a, e
  <2>3. a \in Addr /\ e \in Dirs
    BY <2>2, TreeSubs
  <2>4. p \in Seq(Hops(L \cup {ROOT}))
    BY DEF GoodPath
  <2> QED BY <2>1, <2>2, <2>3, <2>4
<1>4. w \in Seq(Hops(L)) /\ w # <<>> /\ Len(w) \in Nat /\ Len(w) >= 1
  <2>1. w \in Seq(Hops(L)) /\ w # <<>>
    BY <1>1 DEF LeftSpine, Chain
  <2> QED BY <2>1
<1>5. Last(w) = w[Len(w)]
  BY <1>4 DEF Last
<1>6. mm.path = p \o <<Hop(io, RBT_RIGHT)>> \o Front(w)
  <2>1. Spine(node[n].sub[RBT_RIGHT]) = w
    BY DEF w
  <2> QED BY <2>1, <1>5 DEF HXrbtree_del_mm
<1>7. io \in L /\ b \in L /\ io # n /\ io # b /\ a \notin {n, io, b} /\ GoodPath(SubOf(node), L, r) /\ End(node, r) = io
  BY <1>2 DEF Descent
<1>8. Len(r) = Len(p) + 1 + Len(Front(w)) /\ Len(p \o <<Hop(io, RBT_RIGHT)>> \o Front(w)) = Len(r)
  <2> DEFINE X == L \cup {ROOT}
             q == Front(w)
  <2>1. q \in Seq(Hops(L))
    BY <1>4, FrontFacts
  <2>2. Hops(L) \subseteq Hops(X)
    BY DEF Hops
  <2>3. q \in Seq(Hops(X)) /\ p \in Seq(Hops(X))
    BY <2>1, <2>2, <1>3, SeqWider
  <2>4. Hop(n, RBT_RIGHT) \in Hops(X) /\ Hop(io, RBT_RIGHT) \in Hops(X)
    BY <1>0, <1>7 DEF Hop, Hops
  <2> HIDE DEF X, q, io
  <2>5. Len(p \o <<Hop(n, RBT_RIGHT)>> \o q) = Len(p) + 1 + Len(q)
    BY <2>3, <2>4, ThreeParts
  <2>6. Len(p \o <<Hop(io, RBT_RIGHT)>> \o q) = Len(p) + 1 + Len(q)
    BY <2>3, <2>4, ThreeParts
  <2> QED BY <2>5, <2>6 DEF q
<1> HIDE DEF io, b, g, r, a, e, mm
<1>11. Len(r) + 1 <= 2 * d
  BY <1>7, EndFits
<1>12. Len(mm.path) + 1 <= 2 * d
  BY <1>6, <1>8, <1>11
<1> QED BY <1>12 DEF mm

(* Unlinking a node. *)
LEMMA DelFits ==
    ASSUME RbAssumption, Good(node, call, items), call.pc = "idle", NEW k \in Keys,
           HXrbtree_find(k) # NULL, DelUnlink(PathTo(k), HXrbtree_find(k))
    PROVE  FitInv'
<1> DEFINE p == PathTo(k)
           n == HXrbtree_find(k)
           L == AllocOf(node)
           Replace(m) == [heap |-> Link(node, Last(p).nd, Last(p).dir, m), path |-> p]
           mm == IF node[n].sub[RBT_RIGHT] = NULL THEN Replace(node[n].sub[RBT_LEFT])
                 ELSE IF node[n].sub[RBT_LEFT] = NULL THEN Replace(node[n].sub[RBT_RIGHT])
                 ELSE HXrbtree_del_mm(p, n)
<1>0. node \in Heap /\ call.fn = "none" /\ k \in Int
  BY DEF Good, CallOK, RbAssumption
<1>1. InTreeOf(node, call) = L
  BY <1>0 DEF InTreeOf
<1>2. PICK T : Tree(node, L, T)
  BY <1>1 DEF Good
<1>3. PICK B : Settled(node, L, B)
  BY <1>1 DEF Good, Balance
<1>4. Found(node, L, k, p, n) /\ Last(p) = p[Len(p)]
  BY <1>0, <1>2, PathToIs
<1>5. GoodPath(SubOf(node), L, p) /\ n \in L /\ End(node, p) = n /\ n \in Addr
  BY <1>0, <1>2, <1>4, TreeSubs DEF Found, End
<1>6. /\ call' = [fn |-> "del", key |-> node[n].key, val |-> node[n].data,
                  pc |-> IF mm.heap[n].color = "BLACK" THEN "dmov" ELSE "free",
                  nd |-> n, path |-> mm.path]
      /\ items' = items - 1
  BY DEF DelUnlink
<1>7. items = Cardinality(L) /\ Cardinality(L) \in Nat
  <2>1. Cardinality(L) \in Nat
    BY <1>2, FS_CardinalityType DEF Tree
  <2> QED BY <2>1, <1>1 DEF Good
<1> SUFFICES ASSUME NEW d \in Nat, d >= 2 PROVE Fits(call', items', d)
  BY DEF FitInv
<1>8. ASSUME Cardinality(L) <= 2^d PROVE Len(mm.path) + 1 <= 2 * d
  <2>1. CASE node[n].sub[RBT_RIGHT] = NULL \/ node[n].sub[RBT_LEFT] = NULL
    <3>1. mm.path = p
      BY <2>1
    <3> HIDE DEF p, n, L
    <3>2. Len(p) + 1 <= 2 * d
      BY <1>0, <1>2, <1>3, <1>5, <1>8, EndFits
    <3> HIDE DEF mm
    <3> QED BY <3>1, <3>2
  <2>2. CASE node[n].sub[RBT_RIGHT] # NULL /\ node[n].sub[RBT_LEFT] # NULL
    <3>1. mm = HXrbtree_del_mm(p, n)
      BY <2>2
    <3> HIDE DEF p, n, L, mm
    <3>2. Len(HXrbtree_del_mm(p, n).path) + 1 <= 2 * d
      BY <2>2, <1>0, <1>2, <1>3, <1>5, <1>8, MmFits
    <3> QED BY <3>1, <3>2
  <2> QED BY <2>1, <2>2
<1> HIDE DEF p, n, L, mm
<1>9. Behind(call') = 1 /\ call'.path = mm.path
  BY <1>6 DEF Behind
<1>10. items' + Behind(call') = Cardinality(L)
  BY <1>6, <1>7, <1>9
<1> QED BY <1>8, <1>9, <1>10 DEF Fits

(* An iteration of HXrbtree_dmov leaves the path no longer than it was. *)
LEMMA DmovFits ==
    ASSUME call \in CallType, HXrbtree_dmov
    PROVE  GoesOn(call, call')
<1> DEFINE path == call.path
           H == [nd : Addr, dir : {RBT_LEFT, RBT_RIGHT}]
<1>1. path \in Seq(H)
  BY DEF CallType, Paths
<1>2. call.pc = "dmov"
  BY DEF HXrbtree_dmov
<1>3. \/ call' = [call EXCEPT !.pc = "free"]
      \/ Len(path) >= 2 /\ \E a, b : \/ call' = [call EXCEPT !.path = Front(path)]
                                     \/ call' = [call EXCEPT !.path = Front(Front(path) \o <<a, b>>)]
  BY DEF HXrbtree_dmov, Cases36, DmovEnd
<1> HIDE DEF path, H
<1>4. CASE call' = [call EXCEPT !.pc = "free"]
  BY <1>1, <1>2, <1>4 DEF GoesOn, CallType, path
<1>5. ASSUME Len(path) >= 2, NEW a, NEW b,
             \/ call' = [call EXCEPT !.path = Front(path)]
             \/ call' = [call EXCEPT !.path = Front(Front(path) \o <<a, b>>)]
      PROVE  GoesOn(call, call')
  <2> DEFINE X == H \cup {a, b}
             f == Front(path)
             q == Front(f \o <<a, b>>)
  <2>1. path \in Seq(X) /\ path # <<>>
    BY <1>1, <1>5, SeqWider
  <2>2. f \in Seq(X) /\ Len(f) = Len(path) - 1 /\ Len(path) \in Nat
    BY <2>1, FrontFacts
  <2>3. <<a, b>> \in Seq(X) /\ Len(<<a, b>>) = 2 /\ a \in X /\ b \in X
    OBVIOUS
  <2> HIDE DEF f, X
  <2>4. f \o <<a, b>> \in Seq(X) /\ Len(f \o <<a, b>>) = Len(path) + 1 /\ f \o <<a, b>> # <<>>
    BY <2>2, <2>3
  <2> DEFINE u == f \o <<a, b>>
  <2>u. u \in Seq(X) /\ u # <<>> /\ Len(u) = Len(path) + 1
    BY <2>4
  <2> HIDE DEF u
  <2>v. Len(Front(u)) = Len(u) - 1
    BY <2>u, FrontFacts
  <2>5. Len(q) = Len(path)
    BY <2>2, <2>u, <2>v DEF u
  <2> HIDE DEF q
  <2>6. call' = [call EXCEPT !.path = f] \/ call' = [call EXCEPT !.path = q]
    BY <1>5 DEF f, q
  <2>7. /\ call'.fn = call.fn /\ call'.pc = call.pc
        /\ call'.path = f \/ call'.path = q
    BY <2>6 DEF CallType
  <2> QED BY <2>2, <2>5, <2>7, <1>2 DEF GoesOn, path
<1> QED BY <1>3, <1>4, <1>5

(* So does one of HXrbtree_amov. *)
LEMMA AmovFits ==
    ASSUME call \in CallType, HXrbtree_amov
    PROVE  GoesOn(call, call')
<1> DEFINE path == call.path
           H == [nd : Addr, dir : {RBT_LEFT, RBT_RIGHT}]
<1>1. path \in Seq(H)
  BY DEF CallType, Paths
<1>2. call.pc = "amov" /\ Len(path) >= 3
  BY DEF HXrbtree_amov, RedRed
<1>3. call' = [call EXCEPT !.path = SubSeq(path, 1, Len(path) - 2)] \/ call' = [call EXCEPT !.pc = "blacken"]
  BY DEF HXrbtree_amov, Recolor, AddRotate
<1> DEFINE q == SubSeq(path, 1, Len(path) - 2)
<1>4. Len(q) = Len(path) - 2 /\ Len(path) \in Nat
  BY <1>1, <1>2
<1> HIDE DEF q
<1>5. /\ call'.fn = call.fn
      /\ \/ call'.pc = call.pc /\ call'.path = q
         \/ call'.pc = "blacken" /\ call'.path = path
  BY <1>3 DEF CallType, q
<1> QED BY <1>2, <1>4, <1>5 DEF GoesOn

(* Every step keeps FitInv. *)
LEMMA NextFits ==
    ASSUME RbAssumption, RbInv, FitInv, [Next]_vars
    PROVE  FitInv'
<1>0. Good(node, call, items) /\ call \in CallType
  BY DEF RbInv, Good
<1>1. ASSUME call'.pc = "idle" PROVE FitInv'
  BY <1>1 DEF FitInv, Fits
<1>2. ASSUME call' = call, items' = items PROVE FitInv'
  BY <1>2 DEF FitInv
<1>3. CASE HXrbtree_init4
  BY <1>2, <1>3 DEF HXrbtree_init4
<1>4. CASE SetFlags
  BY <1>2, <1>4 DEF SetFlags
<1>5. ASSUME NEW k \in Keys, HXmap_get(k) PROVE FitInv'
  BY <1>2, <1>5 DEF HXmap_get
<1>6. ASSUME NEW k \in Keys, HXmap_del(k) PROVE FitInv'
  <2>1. call.pc = "idle"
    BY <1>6 DEF HXmap_del, Ready
  <2>2. \/ call' = call /\ items' = items
        \/ HXrbtree_find(k) # NULL /\ DelUnlink(PathTo(k), HXrbtree_find(k))
    BY <1>6 DEF HXmap_del
  <2> QED BY <2>1, <2>2, <1>0, <1>2, DelFits
<1>7. ASSUME NEW k \in Keys, NEW v \in Data, HXmap_add(k, v) PROVE FitInv'
  <2>1. call.pc = "idle"
    BY <1>7 DEF HXmap_add, Ready
  <2>2. \/ call' = call /\ items' = items
        \/ HXrbtree_find(k) = NULL /\ AddLink(k, v)
    BY <1>7 DEF HXmap_add
  <2> QED BY <2>1, <2>2, <1>0, <1>2, AddFits
<1>8. CASE HXrbtree_amov
  <2>1. items' = items
    BY <1>8 DEF HXrbtree_amov
  <2> QED BY <2>1, <1>0, <1>8, AmovFits, FitsOn
<1>9. CASE AddEnd
  BY <1>1, <1>9, IdleIs DEF AddEnd
<1>10. CASE HXrbtree_dmov
  <2>1. items' = items
    BY <1>10 DEF HXrbtree_dmov
  <2> QED BY <2>1, <1>0, <1>10, DmovFits, FitsOn
<1>11. CASE DelEnd
  BY <1>1, <1>11, IdleIs DEF DelEnd
<1>12. ASSUME NEW t \in Travs, HXmap_travinit(t) \/ HXrbtree_traverse(t) \/ HXmap_travfree(t) PROVE FitInv'
  BY <1>2, <1>12 DEF HXmap_travinit, HXrbtree_traverse, HXmap_travfree
<1>13. CASE HXrbtree_free
  BY <1>1, <1>13 DEF HXrbtree_free, Ready
<1>14. CASE UNCHANGED vars
  BY <1>2, <1>14 DEF vars
<1> QED BY <1>3, <1>4, <1>5, <1>6, <1>7, <1>8, <1>9, <1>10, <1>11, <1>12, <1>13, <1>14 DEF Next

(* For every d from 2 on, not only that of RBT_MAXDEP: a tree of up to 2^d *)
(* entries needs no more than 2 * d entries of the path and direction      *)
(* arrays in any add or delete, the entry that every deletion writes       *)
(* behind its path (map.c:972) included.                                   *)
THEOREM AllFit == Spec => [](\A d \in Nat : d >= 2 => FitsIn(d))
<1>1. Init => FitInv
  BY IdleIs DEF Init, FitInv, Fits
<1>2. RbInv /\ FitInv /\ [Next]_vars => FitInv'
  BY NextFits, RbAssumption
<1>3. FitInv => \A d \in Nat : d >= 2 => FitsIn(d)
  BY DEF FitInv, Fits, FitsIn, Behind
<1> QED BY <1>1, <1>2, <1>3, Invariant, PTL DEF Spec

(* With RBT_MAXDEP entries the arrays are never overrun by a tree of 16    *)
(* million (2^24) entries, as map_int.h says; and the same in proportion   *)
(* for the sizes the run checks.                                           *)
THEOREM PathFitsHolds == Spec => []PathFits
<1>1. (\A d \in Nat : d >= 2 => FitsIn(d)) => PathFits
  <2>1. \A d \in (2 .. 4) \cup {RBT_MAXDEP \div 2} : d \in Nat /\ d >= 2
    BY DEF RBT_MAXDEP
  <2> HIDE DEF FitsIn
  <2> QED BY <2>1 DEF PathFits
<1> QED BY <1>1, AllFit, PTL

(* The two variables RbInv and TravInv do not mention. *)
FlagsInv == noreplace \in BOOLEAN /\ fault \in {"none", "bad free"}

(* Every step keeps the two in their types. *)
LEMMA NextFlags ==
    ASSUME FlagsInv, [Next]_vars
    PROVE  FlagsInv'
<1>1. ASSUME noreplace' = noreplace, fault' = fault PROVE FlagsInv'
  BY <1>1 DEF FlagsInv
<1>2. ASSUME noreplace' = noreplace, NEW tr, FreeCheckpoint(tr) PROVE FlagsInv'
  BY <1>2 DEF FlagsInv, FreeCheckpoint
<1>3. CASE HXrbtree_init4
  BY <1>3 DEF HXrbtree_init4, FlagsInv
<1>4. CASE SetFlags
  BY <1>4 DEF SetFlags, FlagsInv
<1>5. ASSUME NEW k \in Keys, HXmap_get(k) \/ HXmap_del(k) PROVE FlagsInv'
  BY <1>1, <1>5 DEF HXmap_get, HXmap_del, DelUnlink
<1>6. ASSUME NEW k \in Keys, NEW v \in Data, HXmap_add(k, v) PROVE FlagsInv'
  <2>1. noreplace' = noreplace
    BY <1>6 DEF HXmap_add
  <2>2. fault' = fault \/ fault' = "bad free"
    BY <1>6 DEF HXmap_add, AddLink, AddNoMem, HXrbtree_replace
  <2> QED BY <2>1, <2>2 DEF FlagsInv
<1>7. CASE HXrbtree_amov \/ AddEnd \/ HXrbtree_dmov \/ DelEnd \/ HXrbtree_free
  BY <1>1, <1>7 DEF HXrbtree_amov, AddEnd, HXrbtree_dmov, DelEnd, HXrbtree_free
<1>8. ASSUME NEW t \in Travs, HXmap_travinit(t) \/ HXrbtree_traverse(t) \/ HXmap_travfree(t) PROVE FlagsInv'
  <2>1. noreplace' = noreplace
    BY <1>8 DEF HXmap_travinit, HXrbtree_traverse, HXmap_travfree
  <2>2. fault' = fault \/ FreeCheckpoint(trav[t])
    BY <1>8 DEF HXmap_travinit, HXrbtree_traverse, HXmap_travfree
  <2> QED BY <2>1, <2>2, <1>1, <1>2
<1>9. CASE UNCHANGED vars
  BY <1>1, <1>9 DEF vars
<1> QED BY <1>3, <1>4, <1>5, <1>6, <1>7, <1>8, <1>9 DEF Next

(* Every variable keeps its type. *)
THEOREM TypeCorrect == Spec => []TypeOK
<1>1. Init => RbInv /\ TravInv /\ FlagsInv
  <2>1. Init => FlagsInv
    BY DEF Init, FlagsInv
  <2> QED BY <2>1, InitInv, InitTrav, RbAssumption
<1>2. RbInv /\ TravInv /\ FlagsInv /\ [Next]_vars => RbInv' /\ TravInv' /\ FlagsInv'
  BY NextInv, NextTrav, NextFlags, RbAssumption
<1>3. RbInv /\ TravInv /\ FlagsInv => TypeOK
  <2> SUFFICES ASSUME RbInv, TravInv, FlagsInv PROVE TypeOK
    OBVIOUS
  <2>1. node \in Heap /\ call \in CallType /\ alive \in BOOLEAN
    BY DEF RbInv, Good
  <2>2. items \in Nat
    <3>1. PICK T : Tree(node, InTreeOf(node, call), T)
      BY DEF RbInv, Good
    <3>2. Cardinality(InTreeOf(node, call)) \in Nat
      BY <3>1, FS_CardinalityType DEF Tree
    <3> QED BY <3>2 DEF RbInv, Good
  <2>3. ASSUME NEW t \in Travs PROVE trav[t].path \in Paths
    <3>1. trav[t].path \in Seq(Hops(Nodes))
      BY DEF TravInv, TravRec
    <3> DEFINE A == Hops(Nodes)
               C == [nd : Addr, dir : {RBT_LEFT, RBT_RIGHT}]
               w == trav[t].path
    <3>2. A \subseteq C /\ w \in Seq(A)
      BY <3>1 DEF Hops, Hop, Dirs, Addr
    <3> HIDE DEF A, C, w
    <3>3. w \in Seq(C)
      BY <3>2, SeqWider
    <3> QED BY <3>3 DEF Paths, C, w
  <2>4. call.pc \in {"idle", "amov", "blacken", "dmov", "free"} /\ call.path \in Paths
    BY <2>1 DEF CallType
  <2> QED BY <2>1, <2>2, <2>3, <2>4 DEF TypeOK, Heap, Node, Dirs, FlagsInv
<1> QED BY <1>1, <1>2, <1>3, PTL DEF Spec

=============================================================================
