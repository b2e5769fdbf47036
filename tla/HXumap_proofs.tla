--------------------------- MODULE HXumap_proofs ---------------------------
(* Machine-checked proofs about the hash map, for every set of keys, every *)
(* hash function, every number of nodes and traversers, and every table of *)
(* bucket counts that satisfies LoadAssumption.                            *)
EXTENDS HXumap, FiniteSetTheorems, TLAPS

-----------------------------------------------------------------------------
(* Bucket arrays.                                                          *)

(* What is left of a list when the entry at position i is unlinked. *)
LEMMA RemoveAtProps ==
    ASSUME NEW S, NEW s \in Seq(S), NEW i \in DOMAIN s
    PROVE  /\ RemoveAt(s, i) \in Seq(S)
           /\ Len(RemoveAt(s, i)) = Len(s) - 1
           /\ \A j \in 1 .. Len(s) - 1 :
                 RemoveAt(s, i)[j] = IF j < i THEN s[j] ELSE s[j + 1]
<1> DEFINE l == SubSeq(s, 1, i - 1)
           r == SubSeq(s, i + 1, Len(s))
<1>1. i \in 1 .. Len(s) /\ Len(s) \in Nat
    OBVIOUS
<1>2. /\ l \in Seq(S) /\ Len(l) = i - 1
      /\ \A j \in 1 .. i - 1 : l[j] = s[j]
    BY <1>1
<1>3. /\ r \in Seq(S) /\ Len(r) = Len(s) - i
      /\ \A j \in 1 .. Len(s) - i : r[j] = s[i + j]
    BY <1>1
<1>4. RemoveAt(s, i) = l \o r
    BY DEF RemoveAt
<1> HIDE DEF l, r
<1>5. l \o r \in Seq(S) /\ Len(l \o r) = Len(s) - 1
    BY <1>1, <1>2, <1>3
<1>6. ASSUME NEW j \in 1 .. Len(s) - 1
      PROVE  (l \o r)[j] = IF j < i THEN s[j] ELSE s[j + 1]
    <2>1. CASE j < i
        BY <2>1, <1>1, <1>2, <1>3
    <2>2. CASE j >= i
        <3>1. (l \o r)[j] = r[j - (i - 1)]
            <4>1. /\ Len(l) \in Nat /\ Len(r) \in Nat
                  /\ j \in Nat /\ j > Len(l) /\ j <= Len(l) + Len(r)
                  /\ Len(l) = i - 1
                BY <2>2, <1>1, <1>2, <1>3
            <4>2. l \in Seq(S) /\ r \in Seq(S)
                BY <1>2, <1>3
            <4>3. \A m \in 1 .. Len(l) + Len(r) :
                     (l \o r)[m] = IF m <= Len(l) THEN l[m] ELSE r[m - Len(l)]
                BY <4>2
            <4> QED
                BY <4>1, <4>3
        <3>2. j - (i - 1) \in 1 .. Len(s) - i
            BY <2>2, <1>1
        <3> QED
            BY <3>1, <3>2, <2>2, <1>1, <1>3
    <2>3. j < i \/ j >= i
        BY <1>1
    <2> QED
        BY <2>1, <2>2, <2>3
<1> QED
    BY <1>4, <1>5, <1>6

(* HXlist_add_tail of nd on bucket b, and HXlist_del of the entry at       *)
(* position i of bucket b.                                                 *)
IsArray(arr) == arr \in [DOMAIN arr -> Seq(Nodes)]

Appended(arr, b, nd, arr2) ==
    /\ IsArray(arr) /\ b \in DOMAIN arr
    /\ nd \in Nodes /\ nd \notin Linked(arr)
    /\ arr2 = [arr EXCEPT ![b] = Append(@, nd)]

Unlinked(arr, b, i, arr2) ==
    /\ IsArray(arr) /\ IsArray(arr2) /\ DOMAIN arr2 = DOMAIN arr
    /\ b \in DOMAIN arr /\ i \in DOMAIN arr[b] /\ OnceIn(arr)
    /\ Len(arr2[b]) = Len(arr[b]) - 1
    /\ \A j \in 1 .. Len(arr[b]) - 1 :
          arr2[b][j] = IF j < i THEN arr[b][j] ELSE arr[b][j + 1]
    /\ \A c \in DOMAIN arr : c # b => arr2[c] = arr[c]

(* Appending a node at the end of a bucket adds it to the table and keeps  *)
(* the others where they are.                                              *)
LEMMA AppendArray ==
    ASSUME NEW arr, NEW b, NEW nd, NEW arr2, Appended(arr, b, nd, arr2)
    PROVE  /\ IsArray(arr2) /\ DOMAIN arr2 = DOMAIN arr
           /\ Linked(arr2) = Linked(arr) \cup {nd}
           /\ OnceIn(arr) => OnceIn(arr2)
           /\ \A c \in DOMAIN arr : \A i \in DOMAIN arr[c] :
                 i \in DOMAIN arr2[c] /\ arr2[c][i] = arr[c][i]
           /\ \A c \in DOMAIN arr : \A i \in DOMAIN arr2[c] :
                 \/ i \in DOMAIN arr[c] /\ arr2[c][i] = arr[c][i]
                 \/ c = b /\ i = Len(arr[b]) + 1 /\ arr2[c][i] = nd
<1> DEFINE D == DOMAIN arr
<1>1. /\ arr2 \in [D -> Seq(Nodes)] /\ DOMAIN arr2 = D
      /\ arr \in [D -> Seq(Nodes)] /\ b \in D /\ nd \in Nodes
      /\ nd \notin Linked(arr)
      /\ arr2 = [arr EXCEPT ![b] = Append(@, nd)]
    BY DEF Appended, IsArray
<1> HIDE DEF D
<1>5. DOMAIN arr = D
    BY DEF D
<1>2. ASSUME NEW c \in D, NEW i \in DOMAIN arr[c]
      PROVE  i \in DOMAIN arr2[c] /\ arr2[c][i] = arr[c][i]
    BY <1>1
<1>3. ASSUME NEW c \in D, NEW i \in DOMAIN arr2[c]
      PROVE  \/ i \in DOMAIN arr[c] /\ arr2[c][i] = arr[c][i]
             \/ c = b /\ i = Len(arr[b]) + 1 /\ arr2[c][i] = nd
    BY <1>1
<1>4. Len(arr[b]) + 1 \in DOMAIN arr2[b] /\ arr2[b][Len(arr[b]) + 1] = nd
    BY <1>1
<1>6. Linked(arr2) = Linked(arr) \cup {nd}
    <2>1. ASSUME NEW n \in Linked(arr2) PROVE n \in Linked(arr) \cup {nd}
        BY <2>1, <1>1, <1>3, <1>5 DEF Linked
    <2>2. ASSUME NEW n \in Linked(arr) PROVE n \in Linked(arr2)
        BY <2>2, <1>1, <1>2, <1>5 DEF Linked
    <2>3. nd \in Linked(arr2)
        BY <1>1, <1>4, <1>5 DEF Linked
    <2> QED
        BY <2>1, <2>2, <2>3
<1>7. ASSUME OnceIn(arr) PROVE OnceIn(arr2)
    <2> SUFFICES ASSUME NEW b1 \in D, NEW b2 \in D,
                        NEW i1 \in DOMAIN arr2[b1], NEW i2 \in DOMAIN arr2[b2],
                        arr2[b1][i1] = arr2[b2][i2]
                 PROVE  b1 = b2 /\ i1 = i2
        BY <1>1 DEF OnceIn
    <2>1. ASSUME NEW c \in D, NEW i \in DOMAIN arr[c]
          PROVE  arr[c][i] # nd
        BY <2>1, <1>1, <1>5 DEF Linked
    <2>2. CASE i1 \in DOMAIN arr[b1] /\ i2 \in DOMAIN arr[b2]
        <3>1. arr[b1][i1] = arr[b2][i2]
            BY <2>2, <1>2
        <3> QED
            BY <2>2, <3>1, <1>5, <1>7 DEF OnceIn
    <2> QED
        BY <1>2, <1>3, <2>1, <2>2
<1> QED
    BY <1>1, <1>2, <1>3, <1>5, <1>6, <1>7 DEF IsArray

(* Unlinking one entry of a bucket takes exactly that node out of the      *)
(* table.                                                                  *)
LEMMA UnlinkArray ==
    ASSUME NEW arr, NEW b, NEW i, NEW arr2, Unlinked(arr, b, i, arr2)
    PROVE  /\ Linked(arr2) = Linked(arr) \ {arr[b][i]}
           /\ OnceIn(arr2)
           /\ \A c \in DOMAIN arr : \A j \in DOMAIN arr2[c] :
                 \E m \in DOMAIN arr[c] : arr2[c][j] = arr[c][m]
<1> DEFINE D == DOMAIN arr
           up(c, j) == IF c = b /\ j >= i THEN j + 1 ELSE j
<1>1. /\ arr \in [D -> Seq(Nodes)] /\ arr2 \in [D -> Seq(Nodes)]
      /\ DOMAIN arr = D /\ DOMAIN arr2 = D /\ b \in D
      /\ OnceIn(arr)
    BY DEF Unlinked, IsArray
<1>2. /\ i \in 1 .. Len(arr[b]) /\ Len(arr[b]) \in Nat
      /\ DOMAIN arr[b] = 1 .. Len(arr[b])
      /\ DOMAIN arr2[b] = 1 .. Len(arr[b]) - 1
    BY <1>1 DEF Unlinked
<1>3. /\ \A j \in 1 .. Len(arr[b]) - 1 :
            arr2[b][j] = IF j < i THEN arr[b][j] ELSE arr[b][j + 1]
      /\ \A c \in D : c # b => arr2[c] = arr[c]
    BY DEF Unlinked
<1> HIDE DEF D
<1>5. ASSUME NEW c \in D, NEW j \in DOMAIN arr2[c]
      PROVE  /\ up(c, j) \in DOMAIN arr[c] /\ arr2[c][j] = arr[c][up(c, j)]
             /\ j \in Nat
             /\ c = b => up(c, j) # i
    <2>1. CASE c = b
        BY <2>1, <1>2, <1>3
    <2>2. CASE c # b
        BY <2>2, <1>1, <1>3
    <2> QED
        BY <2>1, <2>2
<1>6. ASSUME NEW c \in D, NEW j \in DOMAIN arr[c], c = b => j # i
      PROVE  \E m \in DOMAIN arr2[c] : arr2[c][m] = arr[c][j]
    <2>1. CASE c = b /\ j < i
        <3>1. j \in DOMAIN arr2[c] /\ arr2[c][j] = arr[c][j]
            BY <2>1, <1>2, <1>3
        <3> QED
            BY <3>1
    <2>2. CASE c = b /\ j > i
        <3>1. j - 1 \in 1 .. Len(arr[b]) - 1 /\ ~(j - 1 < i) /\ (j - 1) + 1 = j
            BY <2>2, <1>2
        <3>2. j - 1 \in DOMAIN arr2[c] /\ arr2[c][j - 1] = arr[c][j]
            BY <3>1, <2>2, <1>2, <1>3
        <3> QED
            BY <3>2
    <2>3. CASE c # b
        BY <2>3, <1>3
    <2>4. c = b => j \in Nat /\ i \in Nat /\ j # i
        BY <1>2, <1>6
    <2> QED
        BY <2>1, <2>2, <2>3, <2>4
<1>7. ASSUME NEW c \in D, NEW j \in DOMAIN arr[c], arr[c][j] = arr[b][i]
      PROVE  c = b /\ j = i
    BY <1>7, <1>1, <1>2 DEF OnceIn
<1>8. Linked(arr2) = Linked(arr) \ {arr[b][i]}
    <2>1. ASSUME NEW n \in Linked(arr2) PROVE n \in Linked(arr) /\ n # arr[b][i]
        <3>1. PICK c \in D : \E j \in DOMAIN arr2[c] : arr2[c][j] = n
            BY <1>1 DEF Linked
        <3>2. PICK j \in DOMAIN arr2[c] : arr2[c][j] = n
            BY <3>1
        <3>3. up(c, j) \in DOMAIN arr[c] /\ n = arr[c][up(c, j)]
              /\ (c = b => up(c, j) # i)
            BY <3>2, <1>5
        <3> HIDE DEF up
        <3>4. n # arr[b][i]
            BY <3>3, <1>7
        <3> QED
            BY <3>3, <3>4, <1>1 DEF Linked
    <2>2. ASSUME NEW n \in Linked(arr), n # arr[b][i] PROVE n \in Linked(arr2)
        <3>1. PICK c \in D : \E j \in DOMAIN arr[c] : arr[c][j] = n
            BY <1>1 DEF Linked
        <3>2. PICK j \in DOMAIN arr[c] : arr[c][j] = n
            BY <3>1
        <3>3. c = b => j # i
            BY <3>2, <2>2
        <3>4. PICK m \in DOMAIN arr2[c] : arr2[c][m] = n
            BY <3>2, <3>3, <1>6
        <3> QED
            BY <3>4, <1>1, <2>2 DEF Linked
    <2> QED
        BY <2>1, <2>2
<1>9. OnceIn(arr2)
    <2> SUFFICES ASSUME NEW b1 \in D, NEW b2 \in D,
                        NEW i1 \in DOMAIN arr2[b1], NEW i2 \in DOMAIN arr2[b2],
                        arr2[b1][i1] = arr2[b2][i2]
                 PROVE  b1 = b2 /\ i1 = i2
        BY <1>1 DEF OnceIn
    <2>1. arr[b1][up(b1, i1)] = arr[b2][up(b2, i2)]
        BY <1>5
    <2>2. /\ up(b1, i1) \in DOMAIN arr[b1] /\ up(b2, i2) \in DOMAIN arr[b2]
          /\ i1 \in Nat /\ i2 \in Nat
        BY <1>5
    <2>3. b1 = b2 /\ up(b1, i1) = up(b2, i2)
        BY <2>1, <2>2, <1>1 DEF OnceIn
    <2> QED
        BY <2>2, <2>3, <1>2
<1>10. \A c \in D : \A j \in DOMAIN arr2[c] :
           \E m \in DOMAIN arr[c] : arr2[c][j] = arr[c][m]
    BY <1>5
<1> QED
    BY <1>1, <1>8, <1>9, <1>10

(* RemoveAt, as HXumap_del uses it, unlinks one entry. *)
LEMMA RemoveIsUnlinked ==
    ASSUME NEW arr, IsArray(arr), NEW b \in DOMAIN arr,
           NEW i \in DOMAIN arr[b], OnceIn(arr)
    PROVE  Unlinked(arr, b, i, [arr EXCEPT ![b] = RemoveAt(@, i)])
<1>1. arr[b] \in Seq(Nodes)
    BY DEF IsArray
<1>2. /\ RemoveAt(arr[b], i) \in Seq(Nodes)
      /\ Len(RemoveAt(arr[b], i)) = Len(arr[b]) - 1
      /\ \A j \in 1 .. Len(arr[b]) - 1 :
            RemoveAt(arr[b], i)[j] = IF j < i THEN arr[b][j] ELSE arr[b][j + 1]
    BY <1>1, RemoveAtProps
<1> QED
    BY <1>2 DEF Unlinked, IsArray

(* Taking the first entry of a bucket, as HXumap_move does, unlinks it. *)
LEMMA TailIsUnlinked ==
    ASSUME NEW arr, IsArray(arr), NEW b \in DOMAIN arr, arr[b] # <<>>,
           OnceIn(arr)
    PROVE  /\ Unlinked(arr, b, 1, [arr EXCEPT ![b] = Tail(@)])
           /\ 1 \in DOMAIN arr[b] /\ Head(arr[b]) = arr[b][1]
<1>1. arr[b] \in Seq(Nodes)
    BY DEF IsArray
<1>2. 1 \in DOMAIN arr[b] /\ Head(arr[b]) = arr[b][1]
    BY <1>1
<1>3. /\ Tail(arr[b]) \in Seq(Nodes)
      /\ Len(Tail(arr[b])) = Len(arr[b]) - 1
      /\ \A j \in 1 .. Len(arr[b]) - 1 : Tail(arr[b])[j] = arr[b][j + 1]
      /\ Len(arr[b]) \in Nat
    BY <1>1
<1> QED
    BY <1>2, <1>3 DEF Unlinked, IsArray

(* No list, nothing linked. *)
LEMMA EmptyArrayProps ==
    ASSUME NEW p \in 0 .. LastPower
    PROVE  /\ EmptyArray(p) \in Arrays(p)
           /\ Linked(EmptyArray(p)) = {}
           /\ OnceIn(EmptyArray(p))
           /\ WellPlaced(EmptyArray(p), p)
           /\ \A q : WellPlaced(EmptyArray(p), q)
BY PrimesAssumption DEF EmptyArray, Arrays, Linked, OnceIn, WellPlaced

(* The bucket array of a size has one chain per bucket. *)
LEMMA ArraysAreArrays ==
    ASSUME NEW p \in 0 .. LastPower, NEW arr \in Arrays(p)
    PROVE  IsArray(arr) /\ DOMAIN arr = 0 .. HXhash_primes[p] - 1
BY DEF Arrays, IsArray

(* The load limits of HXumap_layout are natural numbers. *)
LEMMA LoadType ==
    ASSUME NEW p \in 0 .. LastPower
    PROVE  MaxLoad(p) \in Nat /\ MinLoad(p) \in Nat
BY PrimesAssumption DEF MaxLoad, MinLoad, x_frac

(* A hash modulo the size is a bucket of the table. *)
LEMMA BucketType ==
    ASSUME NEW p \in 0 .. LastPower, NEW k \in Keys
    PROVE  BucketOf(k, p) \in 0 .. HXhash_primes[p] - 1
<1>1. HXhash_primes[p] \in Nat \ {0} /\ Hash[k] \in Nat
    BY PrimesAssumption, HashAssumption
<1> QED
    BY <1>1 DEF BucketOf

-----------------------------------------------------------------------------
(* What HXumap_find returns.                                               *)

(* Between calls there is one bucket array, with all nodes in it. *)
LEMMA IdleFacts ==
    ASSUME IndInv, call.pc \in {"idle", "insert"}
    PROVE  /\ call.fn # "del"
           /\ new_array = EmptyArray(0)
           /\ Linked(new_array) = {}
           /\ InTable = Linked(bk_array)
           /\ Allocated = Linked(bk_array)
           /\ IsArray(bk_array)
           /\ DOMAIN bk_array = 0 .. HXhash_primes[power] - 1
<1>1. 0 \in 0 .. LastPower /\ power \in 0 .. LastPower
    BY PrimesAssumption DEF IndInv, TypeOK
<1>2. call.fn # "del" /\ new_array = EmptyArray(0)
    BY DEF IndInv, CallOK
<1>3. Linked(new_array) = {}
    BY <1>1, <1>2, EmptyArrayProps
<1>4. IsArray(bk_array) /\ DOMAIN bk_array = 0 .. HXhash_primes[power] - 1
    BY <1>1, ArraysAreArrays DEF IndInv, TypeOK
<1> QED
    BY <1>2, <1>3, <1>4 DEF IndInv, NothingLost, InTable

(* When HXumap_find returns NULL no node has the key. *)
LEMMA FindMiss ==
    ASSUME IndInv, Ready, NEW k \in Keys, HXumap_find(k) = NULL
    PROVE  \A n \in Allocated : node[n].key # k
<1>0. call.pc = "idle"
    BY DEF Ready
<1> SUFFICES ASSUME NEW n \in Allocated, node[n].key = k PROVE FALSE
    OBVIOUS
<1>1. PICK b \in DOMAIN bk_array : \E i \in DOMAIN bk_array[b] : bk_array[b][i] = n
    BY <1>0, IdleFacts DEF Linked
<1>2. PICK i \in DOMAIN bk_array[b] : bk_array[b][i] = n
    BY <1>1
<1>3. b = BucketOf(k, power)
    BY <1>2 DEF IndInv, Placement, WellPlaced
<1>4. i \in Matches(k)
    BY <1>2, <1>3 DEF Matches
<1>5. PICK j \in Matches(k) : HXumap_find(k) = bk_array[b][j]
    BY <1>3, <1>4 DEF HXumap_find
<1>6. bk_array[b][j] \in Nodes
    <2>1. bk_array[b] \in Seq(Nodes) /\ j \in DOMAIN bk_array[b]
        BY <1>0, <1>3, <1>5, IdleFacts DEF IsArray, Matches
    <2> QED
        BY <2>1
<1> QED
    BY <1>5, <1>6, NodesAssumption

(* What HXumap_find compares equal is an allocated node with the key. *)
LEMMA MatchFacts ==
    ASSUME IndInv, Ready, NEW k \in Keys, NEW i \in Matches(k)
    PROVE  /\ BucketOf(k, power) \in DOMAIN bk_array
           /\ i \in DOMAIN bk_array[BucketOf(k, power)]
           /\ bk_array[BucketOf(k, power)][i] \in Allocated
           /\ node[bk_array[BucketOf(k, power)][i]].key = k
<1>0. call.pc = "idle" /\ power \in 0 .. LastPower
    BY DEF Ready, IndInv, TypeOK
<1>1. BucketOf(k, power) \in DOMAIN bk_array
    BY <1>0, IdleFacts, BucketType
<1> QED
    BY <1>1 DEF Matches, IndInv, Placement, WellPlaced

(* A node HXumap_find returns has the key. *)
LEMMA FindHit ==
    ASSUME IndInv, Ready, NEW k \in Keys, HXumap_find(k) # NULL
    PROVE  HXumap_find(k) \in Allocated /\ node[HXumap_find(k)].key = k
<1>1. PICK i \in Matches(k) : HXumap_find(k) = bk_array[BucketOf(k, power)][i]
    BY DEF HXumap_find
<1> QED
    BY <1>1, MatchFacts

-----------------------------------------------------------------------------
(* The invariant is inductive: one lemma for each action or part of one.   *)

(* The invariant holds initially. *)
LEMMA InitInv ==
    ASSUME Init PROVE IndInv
<1>0. 0 \in 0 .. LastPower
    BY PrimesAssumption
<1>1. /\ bk_array \in Arrays(0) /\ new_array \in Arrays(0)
      /\ Linked(bk_array) = {} /\ Linked(new_array) = {}
      /\ OnceIn(bk_array) /\ OnceIn(new_array)
      /\ WellPlaced(bk_array, 0) /\ WellPlaced(new_array, 0)
    BY <1>0, EmptyArrayProps DEF Init
<1>2. TypeOK
    <2>1. call \in Calls /\ call.pc # "move"
        BY <1>0 DEF Init, Idle, Calls, Data
    <2>2. trav \in [Travs -> Traversers]
        BY DEF Init, NoTrav, Traversers
    <2>3. ret \in Results
        BY DEF Init, NoResult, Result, Results, Data
    <2>4. node \in [Nodes -> [key : Keys \cup {NULL}, data : Data]]
        BY DEF Init, Freed, Data
    <2> QED
        BY <1>0, <1>1, <2>1, <2>2, <2>3, <2>4 DEF Init, TypeOK
<1>3. Allocated = {}
    BY DEF Init, Allocated, Freed
<1>4. InTable = {}
    BY <1>1 DEF InTable
<1>5. Placement /\ LinkedOnce /\ UniqueKeys
    BY <1>1, <1>3 DEF Placement, LinkedOnce, UniqueKeys, Init, Idle
<1>6. NothingLost /\ IsFiniteSet(InTable)
    <2>1. call.fn # "del" /\ items = 0
        BY DEF Init, Idle
    <2> QED
        BY <1>3, <1>4, <2>1, FS_EmptySet DEF NothingLost
<1>7. LoadBound
    BY <1>0, LoadType DEF LoadBound, Init
<1>8. HeadLinked /\ CallOK /\ TravOK
    BY DEF HeadLinked, CallOK, TravOK, Init, Idle, Ready, NoTrav
<1> QED
    BY <1>2, <1>5, <1>6, <1>7, <1>8 DEF IndInv

(* HXumap_add links a new node. *)
LEMMA InsertInv ==
    ASSUME IndInv, NEW k \in Keys, NEW v \in Data, alive,
           call.pc \in {"idle", "insert"},
           \A n \in Allocated : node[n].key # k,
           power < LastPower => items < MaxLoad(power),
           Insert(k, v)
    PROVE  IndInv'
<1> DEFINE b == BucketOf(k, power)
<1>1. PICK nd \in Nodes \ Allocated :
         /\ node' = [node EXCEPT ![nd] = [key |-> k, data |-> v]]
         /\ bk_array' = [bk_array EXCEPT ![b] = Append(@, nd)]
    BY DEF Insert
<1>2. /\ items' = items + 1 /\ call' = Idle
      /\ UNCHANGED <<alive, noreplace, power, new_array, trav>>
      /\ ret' = Result("add", k, v, "0")
    BY DEF Insert
<1>3. /\ call.fn # "del" /\ new_array = EmptyArray(0)
      /\ Linked(new_array) = {} /\ InTable = Linked(bk_array)
      /\ Allocated = Linked(bk_array) /\ IsArray(bk_array)
      /\ DOMAIN bk_array = 0 .. HXhash_primes[power] - 1
    BY IdleFacts
<1>4. power \in 0 .. LastPower /\ 0 \in 0 .. LastPower /\ items \in Nat
    BY PrimesAssumption DEF IndInv, TypeOK
<1>5. Appended(bk_array, b, nd, bk_array')
    <2>1. b \in DOMAIN bk_array
        BY <1>3, <1>4, BucketType
    <2> QED
        BY <1>1, <1>3, <2>1 DEF Appended
<1>6. /\ IsArray(bk_array') /\ DOMAIN bk_array' = DOMAIN bk_array
      /\ Linked(bk_array') = Linked(bk_array) \cup {nd}
      /\ OnceIn(bk_array) => OnceIn(bk_array')
      /\ \A c \in DOMAIN bk_array : \A i \in DOMAIN bk_array[c] :
            i \in DOMAIN bk_array'[c] /\ bk_array'[c][i] = bk_array[c][i]
      /\ \A c \in DOMAIN bk_array : \A i \in DOMAIN bk_array'[c] :
            \/ i \in DOMAIN bk_array[c] /\ bk_array'[c][i] = bk_array[c][i]
            \/ c = b /\ bk_array'[c][i] = nd
    BY <1>5, AppendArray
<1>7. /\ EmptyArray(0) \in Arrays(0) /\ OnceIn(EmptyArray(0))
      /\ \A c \in DOMAIN EmptyArray(0) : EmptyArray(0)[c] = <<>>
    BY <1>4, EmptyArrayProps DEF EmptyArray
<1>8. node \in [Nodes -> [key : Keys \cup {NULL}, data : Data]]
    BY DEF IndInv, TypeOK
<1>9. TypeOK'
    <2>1. bk_array' \in Arrays(power)
        BY <1>3, <1>6 DEF IsArray, Arrays
    <2>2. node' \in [Nodes -> [key : Keys \cup {NULL}, data : Data]]
        BY <1>1, <1>8
    <2>3. call' \in Calls /\ call'.pc # "move"
        BY <1>2, <1>4 DEF Idle, Calls, Data
    <2>4. ret' \in Results
        BY <1>2 DEF Result, Results
    <2> QED
        BY <2>1, <2>2, <2>3, <2>4, <1>2, <1>3, <1>4, <1>7 DEF IndInv, TypeOK
<1>10. Allocated' = Allocated \cup {nd}
    BY <1>1, <1>8, NodesAssumption DEF Allocated
<1>11. \A n \in Nodes : n # nd => node'[n] = node[n]
    BY <1>1, <1>8
<1>12. node'[nd].key = k
    BY <1>1, <1>8
<1>13. Placement'
    <2>1. WellPlaced(bk_array, power)
        BY DEF IndInv, Placement
    <2>2. ASSUME NEW c \in DOMAIN bk_array', NEW i \in DOMAIN bk_array'[c]
          PROVE  /\ bk_array'[c][i] \in Allocated'
                 /\ BucketOf(node'[bk_array'[c][i]].key, power) = c
        <3>1. CASE i \in DOMAIN bk_array[c] /\ bk_array'[c][i] = bk_array[c][i]
            <4>1. /\ bk_array[c][i] \in Allocated
                  /\ BucketOf(node[bk_array[c][i]].key, power) = c
                BY <3>1, <2>1, <1>6 DEF WellPlaced
            <4>2. bk_array[c][i] \in Nodes /\ bk_array[c][i] # nd
                BY <4>1, <1>1 DEF Allocated
            <4> QED
                BY <3>1, <4>1, <4>2, <1>10, <1>11
        <3>2. CASE c = b /\ bk_array'[c][i] = nd
            BY <3>2, <1>10, <1>12
        <3> QED
            BY <3>1, <3>2, <1>6
    <2>3. WellPlaced(bk_array, power)'
        BY <2>2, <1>2 DEF WellPlaced, BucketOf
    <2>4. WellPlaced(new_array, call.to)'
        BY <1>2, <1>3, <1>7 DEF WellPlaced
    <2> QED
        BY <2>3, <2>4 DEF Placement
<1>14. LinkedOnce'
    BY <1>2, <1>3, <1>6, <1>7 DEF IndInv, LinkedOnce
<1>15. UniqueKeys'
    <2> SUFFICES ASSUME NEW m \in Allocated', NEW n \in Allocated',
                        node'[m].key = node'[n].key
                 PROVE  m = n
        BY DEF UniqueKeys
    <2>1. m \in Nodes /\ n \in Nodes
        BY DEF Allocated
    <2>2. CASE m = nd \/ n = nd
        BY <2>1, <2>2, <1>10, <1>11, <1>12
    <2>3. CASE m # nd /\ n # nd
        BY <2>1, <2>3, <1>10, <1>11 DEF IndInv, UniqueKeys
    <2> QED
        BY <2>2, <2>3
<1>16. InTable' = InTable \cup {nd} /\ nd \notin InTable
    BY <1>1, <1>2, <1>3, <1>6 DEF InTable
<1>17. NothingLost' /\ IsFiniteSet(InTable')
    <2>1. IsFiniteSet(InTable) /\ items = Cardinality(InTable) /\ Allocated = InTable
        BY <1>3 DEF IndInv, NothingLost
    <2>2. IsFiniteSet(InTable') /\ Cardinality(InTable') = Cardinality(InTable) + 1
        BY <1>16, <2>1, FS_AddElement
    <2>3. call'.fn # "del" /\ alive'
        BY <1>2 DEF Idle
    <2> QED
        BY <1>2, <1>10, <1>16, <2>1, <2>2, <2>3 DEF NothingLost
<1>18. LoadBound'
    BY <1>2, <1>4, LoadType DEF LoadBound
<1>19. CallOK'
    BY <1>2, <1>3 DEF CallOK, Idle
<1>20. TravOK'
    BY <1>2 DEF IndInv, TravOK, Idle
<1>21. HeadLinked'
    <2> SUFFICES ASSUME NEW t \in Travs, trav[t].st = "open",
                        trav[t].head # NULL, trav[t].sync
                 PROVE  /\ trav[t].bk_current \in DOMAIN bk_array'
                        /\ \E i \in DOMAIN bk_array'[trav[t].bk_current] :
                              bk_array'[trav[t].bk_current][i] = trav[t].head
        BY <1>2 DEF HeadLinked
    <2>1. call.pc = "idle"
        BY DEF IndInv, TravOK
    <2>2. /\ trav[t].bk_current \in DOMAIN bk_array
          /\ \E i \in DOMAIN bk_array[trav[t].bk_current] :
                bk_array[trav[t].bk_current][i] = trav[t].head
        BY <2>1 DEF IndInv, HeadLinked, Ready
    <2> QED
        BY <2>2, <1>6
<1> QED
    BY <1>9, <1>13, <1>14, <1>15, <1>17, <1>18, <1>19, <1>20, <1>21 DEF IndInv

(* Steps that change neither the lists nor any key: lookups, traversals,   *)
(* replacements, refused and failed additions.                             *)
LEMMA KeepTableInv ==
    ASSUME IndInv, TypeOK',
           UNCHANGED <<alive, power, bk_array, items, new_array>>,
           \A n \in Nodes : node'[n].key = node[n].key,
           \/ call' = call
           \/ call.pc \in {"idle", "insert"} /\ call' = Idle,
           TravOK', HeadLinked'
    PROVE  IndInv'
<1>0. power \in 0 .. LastPower /\ 0 \in 0 .. LastPower
    BY PrimesAssumption DEF IndInv, TypeOK
<1>1. Allocated' = Allocated
    BY DEF Allocated
<1>2. InTable' = InTable
    BY DEF InTable
<1>3. WellPlaced(bk_array, power)'
    <2>1. WellPlaced(bk_array, power)
        BY DEF IndInv, Placement
    <2>2. \A n \in Allocated : n \in Nodes
        BY DEF Allocated
    <2> QED
        BY <2>1, <2>2, <1>1 DEF WellPlaced, BucketOf
<1>4. WellPlaced(new_array, call.to)'
    <2>1. CASE call' = call
        <3>1. WellPlaced(new_array, call.to)
            BY DEF IndInv, Placement
        <3>2. \A n \in Allocated : n \in Nodes
            BY DEF Allocated
        <3> QED
            BY <2>1, <3>1, <3>2, <1>1 DEF WellPlaced, BucketOf
    <2>2. CASE call.pc \in {"idle", "insert"}
        <3>1. new_array' = EmptyArray(0)
            BY <2>2, IdleFacts
        <3>2. \A c \in DOMAIN EmptyArray(0) : EmptyArray(0)[c] = <<>>
            BY DEF EmptyArray
        <3> QED
            BY <3>1, <3>2 DEF WellPlaced
    <2> QED
        BY <2>1, <2>2
<1>5. LinkedOnce'
    BY DEF IndInv, LinkedOnce
<1>6. UniqueKeys'
    <2>1. \A n \in Allocated : n \in Nodes
        BY DEF Allocated
    <2> QED
        BY <2>1, <1>1 DEF IndInv, UniqueKeys
<1>7. NothingLost' /\ IsFiniteSet(InTable')
    <2>1. CASE call' = call
        BY <2>1, <1>1, <1>2 DEF IndInv, NothingLost
    <2>2. CASE call.pc \in {"idle", "insert"} /\ call' = Idle
        <3>1. call.fn # "del" /\ call'.fn # "del"
            BY <2>2, IdleFacts DEF Idle
        <3> QED
            BY <3>1, <1>1, <1>2 DEF IndInv, NothingLost
    <2> QED
        BY <2>1, <2>2
<1>8. LoadBound'
    BY DEF IndInv, LoadBound, MaxLoad, x_frac
<1>9. CallOK'
    <2>1. CASE call' = call
        <3>1. \A n \in Allocated : n \in Nodes
            BY DEF Allocated
        <3> QED
            BY <2>1, <3>1, <1>1, <1>2 DEF IndInv, CallOK
    <2>2. CASE call.pc \in {"idle", "insert"} /\ call' = Idle
        BY <2>2, IdleFacts DEF CallOK, Idle
    <2> QED
        BY <2>1, <2>2
<1> QED
    BY <1>3, <1>4, <1>5, <1>6, <1>7, <1>8, <1>9 DEF IndInv, Placement

(* HXumap_move relinks one node. *)
LEMMA MoveInv ==
    ASSUME IndInv, HXumap_move PROVE IndInv'
<1>1. PICK b \in DOMAIN bk_array :
         /\ IsFirstInUse(bk_array, 0, b)
         /\ new_array' = [new_array EXCEPT
               ![BucketOf(node[Head(bk_array[b])].key, call.to)] =
                   Append(@, Head(bk_array[b]))]
         /\ bk_array' = [bk_array EXCEPT ![b] = Tail(@)]
    BY DEF HXumap_move, MoveOne
<1>2. /\ call.pc = "move"
      /\ UNCHANGED <<alive, noreplace, power, node, items, call, trav, ret>>
    BY DEF HXumap_move
<1> DEFINE drop == bk_array[b][1]
           c == BucketOf(node[drop].key, call.to)
<1>3. /\ power \in 0 .. LastPower /\ call.to \in 0 .. LastPower
      /\ bk_array \in Arrays(power) /\ new_array \in Arrays(call.to)
    BY <1>2 DEF IndInv, TypeOK, Calls
<1>4. /\ IsArray(bk_array) /\ IsArray(new_array)
      /\ DOMAIN new_array = 0 .. HXhash_primes[call.to] - 1
      /\ DOMAIN bk_array = 0 .. HXhash_primes[power] - 1
    BY <1>3, ArraysAreArrays
<1>5. /\ OnceIn(bk_array) /\ OnceIn(new_array)
      /\ Linked(bk_array) \cap Linked(new_array) = {}
    BY DEF IndInv, LinkedOnce
<1>6. /\ Unlinked(bk_array, b, 1, bk_array')
      /\ 1 \in DOMAIN bk_array[b] /\ Head(bk_array[b]) = drop
    BY <1>1, <1>4, <1>5, TailIsUnlinked DEF IsFirstInUse
<1>7. drop \in Linked(bk_array) /\ drop \in Nodes
    <2>1. drop \in Nodes
        BY <1>4, <1>6 DEF IsArray
    <2> QED
        BY <2>1, <1>6 DEF Linked
<1>8. drop \in Allocated /\ node[drop].key \in Keys
    <2>1. drop \in Allocated
        BY <1>6 DEF IndInv, Placement, WellPlaced
    <2> QED
        BY <2>1 DEF Allocated, IndInv, TypeOK
<1>9. Appended(new_array, c, drop, new_array')
    <2>1. c \in DOMAIN new_array
        BY <1>3, <1>4, <1>8, BucketType
    <2> QED
        BY <1>1, <1>4, <1>5, <1>6, <1>7, <2>1 DEF Appended
<1>10. /\ Linked(bk_array') = Linked(bk_array) \ {drop}
       /\ OnceIn(bk_array')
       /\ \A d \in DOMAIN bk_array : \A j \in DOMAIN bk_array'[d] :
             \E m \in DOMAIN bk_array[d] : bk_array'[d][j] = bk_array[d][m]
    BY <1>6, UnlinkArray
<1>11. /\ IsArray(new_array') /\ DOMAIN new_array' = DOMAIN new_array
       /\ Linked(new_array') = Linked(new_array) \cup {drop}
       /\ OnceIn(new_array')
       /\ \A d \in DOMAIN new_array : \A i \in DOMAIN new_array'[d] :
             \/ i \in DOMAIN new_array[d] /\ new_array'[d][i] = new_array[d][i]
             \/ d = c /\ new_array'[d][i] = drop
    BY <1>5, <1>9, AppendArray
<1>12. IsArray(bk_array') /\ DOMAIN bk_array' = DOMAIN bk_array
    BY <1>6 DEF Unlinked
<1> HIDE DEF drop, c
<1>13. TypeOK'
    <2>1. bk_array' \in Arrays(power) /\ new_array' \in Arrays(call.to)
        BY <1>4, <1>11, <1>12 DEF IsArray, Arrays
    <2> QED
        BY <2>1, <1>2 DEF IndInv, TypeOK
<1>14. Placement'
    <2>1. WellPlaced(bk_array, power) /\ WellPlaced(new_array, call.to)
        BY DEF IndInv, Placement
    <2>2. Allocated' = Allocated
        BY <1>2 DEF Allocated
    <2>3. WellPlaced(bk_array, power)'
        <3> SUFFICES ASSUME NEW d \in DOMAIN bk_array, NEW j \in DOMAIN bk_array'[d]
                     PROVE  /\ bk_array'[d][j] \in Allocated
                            /\ BucketOf(node[bk_array'[d][j]].key, power) = d
            BY <1>2, <1>12, <2>2 DEF WellPlaced, BucketOf
        <3> QED
            BY <2>1, <1>10 DEF WellPlaced
    <2>4. WellPlaced(new_array, call.to)'
        <3> SUFFICES ASSUME NEW d \in DOMAIN new_array, NEW j \in DOMAIN new_array'[d]
                     PROVE  /\ new_array'[d][j] \in Allocated
                            /\ BucketOf(node[new_array'[d][j]].key, call.to) = d
            BY <1>2, <1>11, <2>2 DEF WellPlaced, BucketOf
        <3> QED
            BY <2>1, <1>8, <1>11 DEF WellPlaced, c
    <2> QED
        BY <2>3, <2>4 DEF Placement
<1>15. LinkedOnce'
    BY <1>5, <1>10, <1>11 DEF LinkedOnce
<1>16. InTable' = InTable /\ Allocated' = Allocated
    BY <1>2, <1>7, <1>10, <1>11 DEF InTable, Allocated
<1>17. UniqueKeys' /\ NothingLost' /\ IsFiniteSet(InTable') /\ LoadBound'
    BY <1>2, <1>16 DEF IndInv, UniqueKeys, NothingLost, LoadBound, MaxLoad, x_frac
<1>18. CallOK'
    BY <1>2, <1>16 DEF IndInv, CallOK, MaxLoad, x_frac
<1>19. TravOK' /\ HeadLinked'
    BY <1>2 DEF IndInv, TravOK, HeadLinked, Ready
<1> QED
    BY <1>13, <1>14, <1>15, <1>17, <1>18, <1>19 DEF IndInv

(* HXumap_layout installs the new array. *)
LEMMA LayoutInv ==
    ASSUME IndInv, HXumap_layout PROVE IndInv'
<1>1. /\ call.pc = "move"
      /\ \A b \in DOMAIN bk_array : bk_array[b] = <<>>
      /\ power' = call.to /\ bk_array' = new_array
      /\ new_array' = EmptyArray(0)
      /\ call' = [call EXCEPT !.pc = IF call.fn = "add" THEN "insert" ELSE "free"]
      /\ trav' = TidMoved
      /\ UNCHANGED <<alive, noreplace, node, items, ret>>
    BY DEF HXumap_layout
<1>2. /\ power \in 0 .. LastPower /\ call.to \in 0 .. LastPower
      /\ 0 \in 0 .. LastPower /\ call \in Calls
      /\ bk_array \in Arrays(power) /\ new_array \in Arrays(call.to)
      /\ items \in Nat /\ trav \in [Travs -> Traversers]
    BY <1>1, PrimesAssumption DEF IndInv, TypeOK, Calls
<1>3. Linked(bk_array) = {}
    BY <1>1 DEF Linked
<1>4. /\ EmptyArray(0) \in Arrays(0) /\ OnceIn(EmptyArray(0))
      /\ Linked(EmptyArray(0)) = {}
      /\ \A c \in DOMAIN EmptyArray(0) : EmptyArray(0)[c] = <<>>
    BY <1>2, EmptyArrayProps DEF EmptyArray
<1>5. /\ InTable' = InTable /\ Allocated' = Allocated
    BY <1>1, <1>3, <1>4 DEF InTable, Allocated
<1>6. /\ call' \in Calls /\ call'.pc \in {"insert", "free"}
      /\ call'.fn = call.fn /\ call'.to = call.to /\ call'.key = call.key
      /\ call'.val = call.val /\ call'.nd = call.nd
      /\ call'.pc = "insert" <=> call.fn = "add"
    BY <1>1, <1>2 DEF Calls
<1>7. \A t \in Travs :
         /\ trav'[t] \in Traversers /\ trav'[t].st = trav[t].st
         /\ ~trav'[t].sync
    <2> SUFFICES ASSUME NEW t \in Travs
                 PROVE  /\ trav'[t] \in Traversers /\ trav'[t].st = trav[t].st
                        /\ ~trav'[t].sync
        OBVIOUS
    <2>1. trav'[t] = [trav[t] EXCEPT !.sync = FALSE, !.fresh = FALSE, !.moved = TRUE]
        BY <1>1 DEF TidMoved
    <2>2. trav[t] \in Traversers
        BY <1>2
    <2> QED
        BY <2>1, <2>2 DEF Traversers
<1>8. TypeOK'
    <2>1. trav' \in [Travs -> Traversers]
        BY <1>1, <1>7 DEF TidMoved
    <2> QED
        BY <2>1, <1>1, <1>2, <1>4, <1>6 DEF IndInv, TypeOK
<1>9. Placement'
    <2>1. WellPlaced(new_array, call.to)
        BY DEF IndInv, Placement
    <2>2. WellPlaced(bk_array, power)'
        BY <2>1, <1>1, <1>5 DEF WellPlaced, BucketOf
    <2>3. WellPlaced(new_array, call.to)'
        BY <1>1, <1>4 DEF WellPlaced
    <2> QED
        BY <2>2, <2>3 DEF Placement
<1>10. LinkedOnce'
    BY <1>1, <1>4 DEF IndInv, LinkedOnce
<1>11. UniqueKeys' /\ NothingLost' /\ IsFiniteSet(InTable')
    BY <1>1, <1>5, <1>6 DEF IndInv, UniqueKeys, NothingLost
<1>12. items' < MaxLoad(power')
    BY <1>1 DEF IndInv, CallOK
<1>13. LoadBound'
    BY <1>1, <1>2, <1>12, LoadType DEF LoadBound, MaxLoad, x_frac
<1>14. CallOK'
    <2>1. call'.pc = "insert" => items' < MaxLoad(power)' /\ call'.fn = "add"
        BY <1>6, <1>12 DEF MaxLoad, x_frac
    <2>2. call'.pc = "free" => call'.fn = "del"
        BY <1>1, <1>2, <1>6 DEF IndInv, CallOK, Calls
    <2>3. call'.pc # "idle" /\ call'.pc # "move" /\ call'.fn # "none"
        BY <1>1, <1>6 DEF IndInv, CallOK
    <2>4. /\ alive' /\ call'.key \in Keys /\ new_array' = EmptyArray(0)
        BY <1>1, <1>6 DEF IndInv, CallOK
    <2>5. call'.fn = "add" => /\ \A n \in Allocated' : node'[n].key # call'.key
                              /\ Singular => call'.val = NULL
        BY <1>1, <1>5, <1>6 DEF IndInv, CallOK
    <2>6. call'.fn = "del" => /\ call'.nd \in Allocated' \ InTable'
                              /\ node'[call'.nd].key = call'.key
        BY <1>1, <1>5, <1>6 DEF IndInv, CallOK
    <2> QED
        BY <2>1, <2>2, <2>3, <2>4, <2>5, <2>6 DEF CallOK
<1>15. TravOK'
    <2>1. alive
        BY <1>1 DEF IndInv, CallOK
    <2> QED
        BY <2>1, <1>1, <1>7 DEF TravOK
<1>16. HeadLinked'
    BY <1>6 DEF HeadLinked, Ready
<1> QED
    BY <1>8, <1>9, <1>10, <1>11, <1>13, <1>14, <1>15, <1>16 DEF IndInv

(* The sizes HXumap_add and HXumap_del ask for leave room for one more. *)
LEMMA GrowRoom ==
    ASSUME power \in 0 .. LastPower, items \in Nat, LoadBound, MustGrow
    PROVE  power + 1 \in 0 .. LastPower /\ items < MaxLoad(power + 1)
<1>1. power \in 0 .. LastPower - 1 /\ power + 1 \in 0 .. LastPower
    BY PrimesAssumption DEF MustGrow
<1>2. MaxLoad(power) < MaxLoad(power + 1)
    BY <1>1, LoadAssumption
<1>3. MaxLoad(power) \in Nat /\ MaxLoad(power + 1) \in Nat
    BY <1>1, LoadType
<1> QED
    BY <1>1, <1>2, <1>3 DEF LoadBound, MustGrow

(* A table that shrinks has room for its entries in the smaller size. *)
LEMMA ShrinkRoom ==
    ASSUME power \in 0 .. LastPower, NEW n \in Nat, power > 0, n < MinLoad(power)
    PROVE  power - 1 \in 0 .. LastPower /\ n < MaxLoad(power - 1)
<1>1. power - 1 \in 0 .. LastPower - 1 /\ power - 1 \in 0 .. LastPower
    BY PrimesAssumption
<1>2. MinLoad((power - 1) + 1) <= MaxLoad(power - 1)
    BY <1>1, LoadAssumption
<1>3. (power - 1) + 1 = power
    BY PrimesAssumption
<1>4. MinLoad(power) \in Nat /\ MaxLoad(power - 1) \in Nat
    BY <1>1, LoadType
<1> QED
    BY <1>1, <1>2, <1>3, <1>4

(* HXumap_add begins a relayout. *)
LEMMA AddLayoutInv ==
    ASSUME IndInv, Ready, NEW k \in Keys, NEW v \in Data,
           HXumap_find(k) = NULL, Singular => v = NULL,
           NEW p \in 0 .. LastPower, items < MaxLoad(p),
           LayoutBegin(AddCall(k, v), p),
           UNCHANGED <<alive, noreplace, power, bk_array, node, items,
                       trav, ret>>
    PROVE  IndInv'
<1>1. /\ new_array' = EmptyArray(p)
      /\ call' = [pc |-> "move", fn |-> "add", key |-> k, val |-> v,
                  nd |-> NULL, to |-> p]
    BY DEF LayoutBegin, AddCall, Idle
<1>2. /\ new_array = EmptyArray(0) /\ Linked(new_array) = {}
      /\ InTable = Linked(bk_array) /\ call.fn # "del" /\ call.pc = "idle"
    BY IdleFacts DEF Ready
<1>3. /\ EmptyArray(p) \in Arrays(p) /\ OnceIn(EmptyArray(p))
      /\ Linked(EmptyArray(p)) = {}
      /\ \A c \in DOMAIN EmptyArray(p) : EmptyArray(p)[c] = <<>>
    BY EmptyArrayProps DEF EmptyArray
<1>4. InTable' = InTable /\ Allocated' = Allocated
    BY <1>1, <1>2, <1>3 DEF InTable, Allocated
<1>5. call' \in Calls /\ call'.pc = "move" /\ call'.to = p
    BY <1>1 DEF Calls
<1>6. TypeOK'
    BY <1>1, <1>3, <1>5 DEF IndInv, TypeOK
<1>7. Placement'
    <2>1. WellPlaced(bk_array, power)
        BY DEF IndInv, Placement
    <2>2. WellPlaced(bk_array, power)'
        BY <2>1, <1>4 DEF WellPlaced, BucketOf
    <2>3. WellPlaced(new_array, call.to)'
        BY <1>1, <1>3 DEF WellPlaced
    <2> QED
        BY <2>2, <2>3 DEF Placement
<1>8. LinkedOnce'
    BY <1>1, <1>3 DEF IndInv, LinkedOnce
<1>9. UniqueKeys' /\ NothingLost' /\ IsFiniteSet(InTable')
    BY <1>1, <1>2, <1>4 DEF IndInv, UniqueKeys, NothingLost
<1>10. LoadBound'
    BY DEF IndInv, LoadBound, MaxLoad, x_frac
<1>11. CallOK'
    <2>1. \A n \in Allocated' : node'[n].key # k
        BY <1>4, FindMiss
    <2>2. items' < MaxLoad(call'.to)
        BY <1>5
    <2> QED
        BY <2>1, <2>2, <1>1 DEF CallOK, Ready
<1>12. TravOK' /\ HeadLinked'
    BY <1>1 DEF IndInv, TravOK, HeadLinked, Ready
<1> QED
    BY <1>6, <1>7, <1>8, <1>9, <1>10, <1>11, <1>12 DEF IndInv

(* The bookkeeping of the traversers leaves their real state alone. *)
SameTraversers(tr, tr2) ==
    \A t \in Travs : /\ tr2[t].st = tr[t].st /\ tr2[t].head = tr[t].head
                     /\ tr2[t].bk_current = tr[t].bk_current

(* The history a deletion updates leaves the traversers' own fields alone. *)
LEMMA ForgetProps ==
    ASSUME NEW tr \in [Travs -> Traversers], NEW nd
    PROVE  /\ Forget(tr, nd) \in [Travs -> Traversers]
           /\ SameTraversers(tr, Forget(tr, nd))
           /\ \A t \in Travs : Forget(tr, nd)[t].sync = tr[t].sync
<1>1. ASSUME NEW t \in Travs
      PROVE  /\ Forget(tr, nd)[t] \in Traversers
             /\ Forget(tr, nd)[t].st = tr[t].st
             /\ Forget(tr, nd)[t].sync = tr[t].sync
             /\ Forget(tr, nd)[t].head = tr[t].head
             /\ Forget(tr, nd)[t].bk_current = tr[t].bk_current
    <2>1. Forget(tr, nd)[t] = [tr[t] EXCEPT !.seen = @ \ {nd}, !.must = @ \ {nd}]
        BY DEF Forget
    <2>2. /\ tr[t] \in Traversers /\ tr[t].seen \ {nd} \in SUBSET Nodes
          /\ tr[t].must \ {nd} \in SUBSET Nodes
        BY DEF Traversers
    <2> HIDE DEF Forget
    <2> QED
        BY <2>1, <2>2 DEF Traversers
<1> QED
    BY <1>1 DEF Forget, SameTraversers

(* A change of tid leaves every traverser where it is, out of step. *)
LEMMA TidChangedProps ==
    ASSUME trav \in [Travs -> Traversers]
    PROVE  /\ TidChanged \in [Travs -> Traversers]
           /\ SameTraversers(trav, TidChanged)
           /\ \A t \in Travs : ~TidChanged[t].sync
BY DEF TidChanged, Traversers, SameTraversers

(* HXumap_del of a present key. *)
LEMMA DelInv ==
    ASSUME IndInv, Ready, NEW k \in Keys, NEW i \in Matches(k), DelEntry(k, i)
    PROVE  IndInv'
<1> DEFINE b == BucketOf(k, power)
           nd == bk_array[b][i]
<1>0. /\ bk_array' = [bk_array EXCEPT ![b] = RemoveAt(@, i)]
      /\ items' = items - 1
      /\ UNCHANGED <<alive, noreplace, power>>
    BY DEF DelEntry
<1>0a. \/ /\ items - 1 < MinLoad(power) /\ power > 0
          /\ LayoutBegin(DelCall(k, nd), power - 1)
          /\ trav' = TidChanged
          /\ UNCHANGED <<node, ret>>
       \/ /\ FreeNode(nd, k, node[nd].data)
          /\ trav' = Forget(TidChanged, nd)
          /\ UNCHANGED <<new_array, call>>
    BY DEF DelEntry
<1>1. /\ b \in DOMAIN bk_array /\ i \in DOMAIN bk_array[b]
      /\ nd \in Allocated /\ nd \in Nodes /\ node[nd].key = k
    BY MatchFacts DEF Allocated
<1>2. /\ call.fn # "del" /\ call.pc = "idle" /\ call.fn = "none"
      /\ new_array = EmptyArray(0)
      /\ Linked(new_array) = {} /\ InTable = Linked(bk_array)
      /\ Allocated = Linked(bk_array) /\ IsArray(bk_array)
      /\ DOMAIN bk_array = 0 .. HXhash_primes[power] - 1
    BY IdleFacts DEF Ready, IndInv, CallOK
<1>3. Unlinked(bk_array, b, i, bk_array')
    BY <1>0, <1>1, <1>2, RemoveIsUnlinked DEF IndInv, LinkedOnce
<1>4. /\ Linked(bk_array') = Linked(bk_array) \ {nd}
      /\ OnceIn(bk_array')
      /\ \A c \in DOMAIN bk_array : \A j \in DOMAIN bk_array'[c] :
            \E m \in DOMAIN bk_array[c] : bk_array'[c][j] = bk_array[c][m]
      /\ IsArray(bk_array') /\ DOMAIN bk_array' = DOMAIN bk_array
    <2>1. IsArray(bk_array') /\ DOMAIN bk_array' = DOMAIN bk_array
        BY <1>3 DEF Unlinked
    <2>2. /\ Linked(bk_array') = Linked(bk_array) \ {bk_array[b][i]}
          /\ OnceIn(bk_array')
          /\ \A c \in DOMAIN bk_array : \A j \in DOMAIN bk_array'[c] :
                \E m \in DOMAIN bk_array[c] : bk_array'[c][j] = bk_array[c][m]
        BY <1>3, UnlinkArray
    <2> QED
        BY <2>1, <2>2
<1>5. /\ power \in 0 .. LastPower /\ 0 \in 0 .. LastPower
      /\ items \in Nat /\ trav \in [Travs -> Traversers]
      /\ node \in [Nodes -> [key : Keys \cup {NULL}, data : Data]]
      /\ call \in Calls
    BY PrimesAssumption DEF IndInv, TypeOK
<1>6. /\ IsFiniteSet(InTable \ {nd}) /\ Cardinality(InTable \ {nd}) = items - 1
      /\ items - 1 \in Nat
    <2>1. IsFiniteSet(InTable) /\ items = Cardinality(InTable) /\ nd \in InTable
        BY <1>1, <1>2 DEF IndInv, NothingLost
    <2>2. IsFiniteSet(InTable \ {nd})
          /\ Cardinality(InTable \ {nd}) = Cardinality(InTable) - 1
        BY <2>1, FS_RemoveElement
    <2>3. Cardinality(InTable \ {nd}) \in Nat
        BY <2>2, FS_CardinalityType
    <2> QED
        BY <2>1, <2>2, <2>3
<1>7. bk_array' \in Arrays(power)
    BY <1>2, <1>4 DEF IsArray, Arrays
<1>8. \A c \in DOMAIN bk_array' : \A j \in DOMAIN bk_array'[c] :
         /\ bk_array'[c][j] \in Allocated /\ bk_array'[c][j] # nd
         /\ BucketOf(node[bk_array'[c][j]].key, power) = c
    <2> SUFFICES ASSUME NEW c \in DOMAIN bk_array', NEW j \in DOMAIN bk_array'[c]
                 PROVE  /\ bk_array'[c][j] \in Allocated /\ bk_array'[c][j] # nd
                        /\ BucketOf(node[bk_array'[c][j]].key, power) = c
        OBVIOUS
    <2>1. PICK m \in DOMAIN bk_array[c] : bk_array'[c][j] = bk_array[c][m]
        BY <1>4
    <2>2. /\ bk_array[c][m] \in Allocated
          /\ BucketOf(node[bk_array[c][m]].key, power) = c
        BY <1>4 DEF IndInv, Placement, WellPlaced
    <2>3. bk_array'[c][j] \in Linked(bk_array')
        BY <2>1, <2>2 DEF Linked, Allocated
    <2> QED
        BY <2>1, <2>2, <2>3, <1>4
<1> HIDE DEF b, nd
<1>9. LoadBound'
    BY <1>0, <1>5, <1>6, LoadType DEF IndInv, LoadBound, MaxLoad, x_frac
<1>10. CASE /\ items - 1 < MinLoad(power) /\ power > 0
            /\ LayoutBegin(DelCall(k, nd), power - 1)
            /\ trav' = TidChanged
            /\ UNCHANGED <<node, ret>>
    <2> DEFINE p == power - 1
    <2>1. p \in 0 .. LastPower /\ items - 1 < MaxLoad(p)
        BY <1>5, <1>6, <1>10, ShrinkRoom
    <2> HIDE DEF p
    <2>2. /\ new_array' = EmptyArray(p)
          /\ call' = [pc |-> "move", fn |-> "del", key |-> k, val |-> NULL,
                      nd |-> nd, to |-> p]
        BY <1>10 DEF LayoutBegin, DelCall, Idle, p
    <2>3. /\ EmptyArray(p) \in Arrays(p) /\ OnceIn(EmptyArray(p))
          /\ Linked(EmptyArray(p)) = {}
          /\ \A c \in DOMAIN EmptyArray(p) : EmptyArray(p)[c] = <<>>
        BY <2>1, EmptyArrayProps DEF EmptyArray
    <2>4. Allocated' = Allocated /\ InTable' = InTable \ {nd}
        BY <1>2, <1>4, <1>10, <2>2, <2>3 DEF Allocated, InTable
    <2>5. \A t \in Travs :
             /\ trav'[t] \in Traversers /\ trav'[t].st = trav[t].st
             /\ ~trav'[t].sync
        BY <1>5, <1>10, TidChangedProps DEF SameTraversers
    <2>6. TypeOK'
        <3>1. call' \in Calls /\ call'.pc = "move" /\ call'.to = p
            BY <1>1, <2>1, <2>2 DEF Calls, Data
        <3>2. trav' \in [Travs -> Traversers]
            BY <1>5, <1>10, TidChangedProps
        <3> QED
            BY <3>1, <3>2, <1>5, <1>6, <1>7, <1>0, <1>10, <2>2, <2>3 DEF IndInv, TypeOK
    <2>7. Placement'
        <3>1. WellPlaced(bk_array, power)'
            BY <1>0, <1>8, <1>10, <2>4 DEF WellPlaced, BucketOf
        <3>2. WellPlaced(new_array, call.to)'
            BY <2>2, <2>3 DEF WellPlaced
        <3> QED
            BY <3>1, <3>2 DEF Placement
    <2>8. LinkedOnce' /\ UniqueKeys'
        BY <1>4, <1>10, <2>2, <2>3, <2>4 DEF IndInv, LinkedOnce, UniqueKeys
    <2>9. NothingLost' /\ IsFiniteSet(InTable')
        <3>1. call'.fn = "del" /\ call'.nd = nd /\ alive'
            BY <1>0, <2>2 DEF Ready
        <3>2. Allocated = (InTable \ {nd}) \cup {nd}
            BY <1>1, <1>2
        <3> QED
            BY <3>1, <3>2, <1>0, <1>6, <2>4 DEF NothingLost
    <2>10. CallOK'
        <3>1. items' < MaxLoad(call'.to)
            BY <1>0, <2>1, <2>2
        <3>2. nd \in Allocated' \ InTable' /\ node'[nd].key = k
            BY <1>1, <1>10, <2>4
        <3> QED
            BY <3>1, <3>2, <1>0, <2>2 DEF CallOK, Ready
    <2>11. TravOK'
        BY <1>0, <2>5 DEF TravOK, Ready
    <2>12. HeadLinked'
        BY <2>2 DEF HeadLinked, Ready
    <2> QED
        BY <2>6, <2>7, <2>8, <2>9, <2>10, <2>11, <2>12, <1>9 DEF IndInv
<1>11. CASE /\ FreeNode(nd, k, node[nd].data)
            /\ trav' = Forget(TidChanged, nd)
            /\ UNCHANGED <<new_array, call>>
    <2>1. /\ node' = [node EXCEPT ![nd] = Freed]
          /\ ret' = Result("del", k, node[nd].data, "0")
        BY <1>11 DEF FreeNode
    <2>2. \A n \in Nodes : n # nd => node'[n] = node[n]
        BY <1>5, <2>1
    <2>3. Allocated' = Allocated \ {nd}
        BY <1>1, <1>5, <2>1 DEF Allocated, Freed
    <2>4. InTable' = InTable \ {nd}
        BY <1>2, <1>4, <1>11 DEF InTable
    <2>5. \A t \in Travs :
             /\ trav'[t] \in Traversers /\ trav'[t].st = trav[t].st
             /\ ~trav'[t].sync
        BY <1>5, <1>11, TidChangedProps, ForgetProps DEF SameTraversers
    <2>6. TypeOK'
        <3>1. node' \in [Nodes -> [key : Keys \cup {NULL}, data : Data]]
            BY <1>1, <1>5, <2>1 DEF Freed, Data
        <3>2. ret' \in Results
            BY <1>1, <1>5, <2>1 DEF Results, Result
        <3>3. trav' \in [Travs -> Traversers]
            BY <1>5, <1>11, TidChangedProps, ForgetProps
        <3> QED
            BY <3>1, <3>2, <3>3, <1>5, <1>6, <1>7, <1>0, <1>11 DEF IndInv, TypeOK
    <2>7. Placement'
        <3>1. WellPlaced(bk_array, power)'
            <4> SUFFICES ASSUME NEW c \in DOMAIN bk_array',
                                NEW j \in DOMAIN bk_array'[c]
                         PROVE  /\ bk_array'[c][j] \in Allocated'
                                /\ BucketOf(node'[bk_array'[c][j]].key, power) = c
                BY <1>0 DEF WellPlaced, BucketOf
            <4>1. /\ bk_array'[c][j] \in Allocated /\ bk_array'[c][j] # nd
                  /\ BucketOf(node[bk_array'[c][j]].key, power) = c
                BY <1>8
            <4>2. bk_array'[c][j] \in Nodes
                BY <4>1 DEF Allocated
            <4> QED
                BY <4>1, <4>2, <2>2, <2>3
        <3>2. WellPlaced(new_array, call.to)'
            <4>1. \A c \in DOMAIN EmptyArray(0) : EmptyArray(0)[c] = <<>>
                BY DEF EmptyArray
            <4> QED
                BY <4>1, <1>2, <1>11 DEF WellPlaced
        <3> QED
            BY <3>1, <3>2 DEF Placement
    <2>8. LinkedOnce'
        BY <1>2, <1>4, <1>11 DEF IndInv, LinkedOnce
    <2>9. UniqueKeys'
        <3>1. \A n \in Allocated' : n \in Allocated /\ n \in Nodes /\ n # nd
            BY <2>3 DEF Allocated
        <3> QED
            BY <3>1, <2>2 DEF IndInv, UniqueKeys
    <2>10. NothingLost' /\ IsFiniteSet(InTable')
        <3>1. call'.fn # "del" /\ alive'
            BY <1>0, <1>2, <1>11 DEF Ready
        <3> QED
            BY <3>1, <1>0, <1>2, <1>6, <2>3, <2>4 DEF NothingLost
    <2>11. CallOK'
        BY <1>2, <1>11 DEF CallOK
    <2>12. TravOK' /\ HeadLinked'
        BY <1>0, <2>5 DEF TravOK, HeadLinked, Ready
    <2> QED
        BY <2>6, <2>7, <2>8, <2>9, <2>10, <2>11, <2>12, <1>9 DEF IndInv
<1> QED
    BY <1>0a, <1>10, <1>11

(* HXumap_del frees the node after a relayout. *)
LEMMA DelAfterLayoutInv ==
    ASSUME IndInv, DelAfterLayout PROVE IndInv'
<1> DEFINE nd == call.nd
<1>1. /\ call.pc = "free" /\ node' = [node EXCEPT ![nd] = Freed]
      /\ ret' = Result("del", call.key, node[nd].data, "0")
      /\ call' = Idle /\ trav' = Forget(trav, nd)
      /\ UNCHANGED <<alive, noreplace, power, bk_array, items, new_array>>
    BY DEF DelAfterLayout, FreeNode
<1>2. /\ call.fn = "del" /\ alive /\ call.key \in Keys
      /\ nd \in Allocated \ InTable /\ nd \in Nodes /\ new_array = EmptyArray(0)
    BY <1>1 DEF IndInv, CallOK, Allocated
<1> HIDE DEF nd
<1>3. /\ power \in 0 .. LastPower /\ 0 \in 0 .. LastPower
      /\ node \in [Nodes -> [key : Keys \cup {NULL}, data : Data]]
      /\ trav \in [Travs -> Traversers]
    BY PrimesAssumption DEF IndInv, TypeOK
<1>4. \A n \in Nodes : n # nd => node'[n] = node[n]
    BY <1>1, <1>3
<1>5. Allocated' = Allocated \ {nd}
    BY <1>1, <1>2, <1>3 DEF Allocated, Freed
<1>6. InTable' = InTable
    BY <1>1 DEF InTable
<1>7. TypeOK'
    <2>1. node' \in [Nodes -> [key : Keys \cup {NULL}, data : Data]]
        BY <1>1, <1>2, <1>3 DEF Freed, Data
    <2>2. ret' \in Results
        BY <1>1, <1>2, <1>3 DEF Results, Result
    <2>3. trav' \in [Travs -> Traversers]
        BY <1>1, <1>3, ForgetProps
    <2>4. call' \in Calls /\ call'.pc # "move"
        BY <1>1, <1>3 DEF Idle, Calls, Data
    <2>5. new_array' \in Arrays(0)
        BY <1>1, <1>2, <1>3, EmptyArrayProps
    <2> QED
        BY <2>1, <2>2, <2>3, <2>4, <2>5, <1>1 DEF IndInv, TypeOK
<1>8. \A n \in InTable : n \in Allocated' /\ n \in Nodes /\ node'[n] = node[n]
    <2>1. \A n \in InTable : n \in Allocated /\ n # nd /\ n \in Nodes
        BY <1>2 DEF IndInv, NothingLost, Allocated
    <2> QED
        BY <2>1, <1>4, <1>5
<1>9. Placement'
    <2>1. WellPlaced(bk_array, power)'
        <3> SUFFICES ASSUME NEW c \in DOMAIN bk_array, NEW j \in DOMAIN bk_array[c]
                     PROVE  /\ bk_array[c][j] \in Allocated'
                            /\ BucketOf(node'[bk_array[c][j]].key, power) = c
            BY <1>1 DEF WellPlaced, BucketOf
        <3>1. /\ bk_array[c][j] \in Allocated
              /\ BucketOf(node[bk_array[c][j]].key, power) = c
            BY DEF IndInv, Placement, WellPlaced
        <3>2. bk_array[c][j] \in InTable
            BY <3>1 DEF InTable, Linked, Allocated
        <3> QED
            BY <3>1, <3>2, <1>8
    <2>2. WellPlaced(new_array, call.to)'
        <3>1. \A c \in DOMAIN EmptyArray(0) : EmptyArray(0)[c] = <<>>
            BY DEF EmptyArray
        <3> QED
            BY <3>1, <1>1, <1>2 DEF WellPlaced
    <2> QED
        BY <2>1, <2>2 DEF Placement
<1>10. LinkedOnce'
    BY <1>1 DEF IndInv, LinkedOnce
<1>11. UniqueKeys'
    <2>1. \A n \in Allocated' : n \in Allocated /\ n \in Nodes /\ n # nd
        BY <1>5 DEF Allocated
    <2> QED
        BY <2>1, <1>4 DEF IndInv, UniqueKeys
<1>12. NothingLost' /\ IsFiniteSet(InTable')
    <2>1. call'.fn # "del" /\ alive'
        BY <1>1, <1>2 DEF Idle
    <2>2. Allocated = InTable \cup {nd}
        BY <1>2 DEF IndInv, NothingLost, nd
    <2>3. Allocated' = InTable'
        BY <2>2, <1>2, <1>5, <1>6
    <2> QED
        BY <2>1, <2>3, <1>1, <1>6 DEF IndInv, NothingLost
<1>13. LoadBound'
    BY <1>1 DEF IndInv, LoadBound, MaxLoad, x_frac
<1>14. CallOK'
    BY <1>1, <1>2 DEF CallOK, Idle
<1>15. \A t \in Travs : trav'[t].st = trav[t].st /\ trav'[t].sync = trav[t].sync
    BY <1>1, <1>3, ForgetProps DEF SameTraversers
<1>16. TravOK' /\ HeadLinked'
    <2>1. \A t \in Travs : /\ ~alive => trav[t].st = "none"
                           /\ ~trav[t].sync
        BY <1>1 DEF IndInv, TravOK
    <2> QED
        BY <2>1, <1>1, <1>2, <1>15 DEF TravOK, HeadLinked
<1> QED
    BY <1>7, <1>9, <1>10, <1>11, <1>12, <1>13, <1>14, <1>16 DEF IndInv

(* An allocation of HXumap_add fails. *)
LEMMA AddNoMemInv ==
    ASSUME IndInv, NEW k \in Keys, NEW v \in Data,
           call.pc \in {"idle", "insert"}, AddNoMem(k, v)
    PROVE  IndInv'
<1>1. /\ call' = Idle /\ ret' = Result("add", k, v, "ENOMEM")
      /\ UNCHANGED <<alive, noreplace, power, bk_array, node, items,
                     new_array, trav>>
    BY DEF AddNoMem
<1>2. 0 \in 0 .. LastPower /\ trav \in [Travs -> Traversers]
    BY PrimesAssumption DEF IndInv, TypeOK
<1>3. TypeOK'
    <2>1. ret' \in Results
        BY <1>1 DEF Results, Result
    <2>2. call' \in Calls /\ call'.pc # "move"
        BY <1>1, <1>2 DEF Idle, Calls, Data
    <2>3. call.pc # "move"
        OBVIOUS
    <2> QED
        BY <2>1, <2>2, <2>3, <1>1 DEF IndInv, TypeOK
<1>4. TravOK'
    BY <1>1 DEF IndInv, TravOK, Idle
<1>5. HeadLinked'
    <2>1. CASE call.pc = "idle"
        BY <2>1, <1>1 DEF IndInv, HeadLinked, Ready
    <2>2. CASE call.pc = "insert"
        <3>1. \A t \in Travs : ~trav[t].sync
            BY <2>2 DEF IndInv, TravOK
        <3> QED
            BY <3>1, <1>1 DEF HeadLinked
    <2> QED
        BY <2>1, <2>2
<1> QED
    BY <1>1, <1>3, <1>4, <1>5, KeepTableInv

(* One call of HXumap_traverse. *)
LEMMA TravStepInv ==
    ASSUME IndInv, Ready, NEW t \in Travs, NEW tr \in Traversers,
           trav' = [trav EXCEPT ![t] = tr], UNCHANGED mapvars, ret' \in Results,
           tr.st = "open" /\ tr.head # NULL /\ tr.sync =>
               /\ tr.bk_current \in DOMAIN bk_array
               /\ \E i \in DOMAIN bk_array[tr.bk_current] :
                     bk_array[tr.bk_current][i] = tr.head
    PROVE  IndInv'
<1>1. UNCHANGED <<alive, noreplace, power, bk_array, node, items, new_array, call>>
    BY DEF mapvars
<1>2. trav \in [Travs -> Traversers] /\ trav' \in [Travs -> Traversers]
      /\ trav'[t] = tr /\ \A s \in Travs : s # t => trav'[s] = trav[s]
    BY DEF IndInv, TypeOK
<1>3. TypeOK'
    BY <1>1, <1>2 DEF IndInv, TypeOK
<1>4. alive /\ call.pc = "idle" /\ call.fn = "none"
    BY DEF Ready, IndInv, CallOK
<1>5. TravOK'
    BY <1>1, <1>4 DEF TravOK
<1>6. HeadLinked'
    <2> SUFFICES ASSUME NEW s \in Travs, trav'[s].st = "open",
                        trav'[s].head # NULL, trav'[s].sync
                 PROVE  /\ trav'[s].bk_current \in DOMAIN bk_array
                        /\ \E i \in DOMAIN bk_array[trav'[s].bk_current] :
                              bk_array[trav'[s].bk_current][i] = trav'[s].head
        BY <1>1 DEF HeadLinked
    <2>1. CASE s = t
        BY <2>1, <1>2
    <2>2. CASE s # t
        BY <2>2, <1>2 DEF IndInv, HeadLinked
    <2> QED
        BY <2>1, <2>2
<1> QED
    BY <1>1, <1>3, <1>5, <1>6, KeepTableInv

(* Returning an entry makes it the traverser's head, in its bucket. *)
LEMMA VisitInv ==
    ASSUME IndInv, Ready, NEW t \in Travs, NEW tr \in Traversers,
           NEW b \in DOMAIN bk_array, NEW i \in DOMAIN bk_array[b],
           Visit(t, tr, b, i), UNCHANGED mapvars
    PROVE  IndInv'
<1> DEFINE n == bk_array[b][i]
           tr2 == [tr EXCEPT !.head = n, !.bk_current = b, !.seen = @ \cup {n}]
<1>1. /\ trav' = [trav EXCEPT ![t] = tr2]
      /\ ret' = Result("traverse", node[n].key, node[n].data, "0")
    BY DEF Visit
<1>2. /\ n \in Nodes /\ b \in Nat
      /\ node \in [Nodes -> [key : Keys \cup {NULL}, data : Data]]
    <2>1. IsArray(bk_array) /\ DOMAIN bk_array = 0 .. HXhash_primes[power] - 1
        BY IdleFacts DEF Ready
    <2>2. HXhash_primes[power] \in Nat
        BY PrimesAssumption DEF IndInv, TypeOK
    <2> QED
        BY <2>1, <2>2 DEF IsArray, IndInv, TypeOK
<1> HIDE DEF n
<1>3. /\ tr2 \in Traversers /\ tr2.st = tr.st
      /\ tr2.head = n /\ tr2.bk_current = b
    <2>1. tr.seen \cup {n} \in SUBSET Nodes
        BY <1>2 DEF Traversers
    <2> QED
        BY <1>2, <2>1 DEF Traversers
<1>4. ret' \in Results
    BY <1>1, <1>2 DEF Result, Results
<1> HIDE DEF tr2
<1> QED
    BY <1>1, <1>3, <1>4, TravStepInv DEF n

(* A traverser at the end has no head. *)
LEMMA VisitEndInv ==
    ASSUME IndInv, Ready, NEW t \in Travs, NEW tr \in Traversers,
           VisitEnd(t, tr), UNCHANGED mapvars
    PROVE  IndInv'
<1> DEFINE tr2 == [tr EXCEPT !.st = "end", !.head = NULL, !.bk_current = 0]
<1>1. /\ trav' = [trav EXCEPT ![t] = tr2]
      /\ ret' = Result("traverse", NULL, NULL, "0")
    BY DEF VisitEnd
<1>2. tr2 \in Traversers /\ tr2.st # "open"
    BY DEF Traversers
<1>3. ret' \in Results
    BY <1>1 DEF Result, Results, Data
<1> HIDE DEF tr2
<1> QED
    BY <1>1, <1>2, <1>3, TravStepInv

(* The search for the next bucket in use keeps the invariant. *)
LEMMA FromBucketInv ==
    ASSUME IndInv, Ready, NEW t \in Travs, NEW tr \in Traversers,
           NEW lo, FromBucket(t, tr, lo), UNCHANGED mapvars
    PROVE  IndInv'
<1>1. CASE VisitEnd(t, tr)
    BY <1>1, VisitEndInv
<1>2. CASE \E b \in DOMAIN bk_array : IsFirstInUse(bk_array, lo, b) /\ Visit(t, tr, b, 1)
    <2>1. PICK b \in DOMAIN bk_array : IsFirstInUse(bk_array, lo, b) /\ Visit(t, tr, b, 1)
        BY <1>2
    <2>2. 1 \in DOMAIN bk_array[b]
        <3>1. bk_array[b] \in Seq(Nodes) /\ bk_array[b] # <<>>
            BY <2>1, IdleFacts DEF IsArray, IsFirstInUse, Ready
        <3> QED
            BY <3>1
    <2> QED
        BY <2>1, <2>2, VisitInv
<1> QED
    BY <1>1, <1>2 DEF FromBucket

(* HXumap_traverse keeps the invariant, whether or not tid has changed. *)
LEMMA TraverseInv ==
    ASSUME IndInv, NEW t \in Travs, HXumap_traverse(t) PROVE IndInv'
<1> DEFINE tr == trav[t]
           bk == tr.bk_current
<1>1. Ready /\ tr.st = "open" /\ UNCHANGED mapvars
    BY DEF HXumap_traverse
<1>2. tr \in Traversers
    BY DEF IndInv, TypeOK
<1>3. CASE tr.head = NULL /\ FromBucket(t, tr, bk)
    BY <1>1, <1>2, <1>3, FromBucketInv
<1>5. CASE VisitEnd(t, tr)
    BY <1>1, <1>2, <1>5, VisitEndInv
<1>6. CASE FromBucket(t, [tr EXCEPT !.sync = TRUE], bk + 1)
    <2> DEFINE tr2 == [tr EXCEPT !.sync = TRUE]
    <2>1. tr2 \in Traversers
        BY <1>2 DEF Traversers
    <2> HIDE DEF tr2
    <2>2. FromBucket(t, tr2, bk + 1)
        BY <1>6 DEF tr2
    <2> QED
        BY <2>1, <2>2, <1>1, FromBucketInv
<1>7. CASE /\ tr.head # NULL /\ tr.sync
           /\ \E i \in DOMAIN bk_array[bk] :
                 /\ bk_array[bk][i] = tr.head
                 /\ \/ i < Len(bk_array[bk]) /\ Visit(t, tr, bk, i + 1)
                    \/ i = Len(bk_array[bk]) /\ FromBucket(t, tr, bk + 1)
    <2>1. PICK i \in DOMAIN bk_array[bk] :
                 /\ bk_array[bk][i] = tr.head
                 /\ \/ i < Len(bk_array[bk]) /\ Visit(t, tr, bk, i + 1)
                    \/ i = Len(bk_array[bk]) /\ FromBucket(t, tr, bk + 1)
        BY <1>7
    <2>2. CASE FromBucket(t, tr, bk + 1)
        BY <2>2, <1>1, <1>2, FromBucketInv
    <2>3. CASE i < Len(bk_array[bk]) /\ Visit(t, tr, bk, i + 1)
        <3>1. bk \in DOMAIN bk_array
            BY <1>1, <1>7 DEF IndInv, HeadLinked
        <3>2. i + 1 \in DOMAIN bk_array[bk]
            <4>1. bk_array[bk] \in Seq(Nodes)
                BY <3>1, <1>1, IdleFacts DEF IsArray, Ready
            <4> QED
                BY <4>1, <2>3
        <3> QED
            BY <2>3, <3>1, <3>2, <1>1, <1>2, VisitInv
    <2> QED
        BY <2>1, <2>2, <2>3
<1> QED
    BY <1>3, <1>5, <1>6, <1>7 DEF HXumap_traverse, AfterChange

(* HXumap_replace overwrites the data of an entry. *)
LEMMA ReplaceInv ==
    ASSUME IndInv, Ready, NEW k \in Keys, NEW v \in Data,
           HXumap_find(k) # NULL, HXumap_replace(k, v)
    PROVE  IndInv'
<1>1. call.pc = "idle"
    BY DEF Ready
<1>2. CASE noreplace /\ ret' = Result("add", k, v, "EEXIST") /\ UNCHANGED <<mapvars, trav>>
    <2>1. UNCHANGED <<alive, noreplace, power, bk_array, node, items,
                      new_array, call, trav>>
        BY <1>2 DEF mapvars
    <2>2. ret' \in Results
        BY <1>2 DEF Result, Results
    <2>3. TypeOK' /\ TravOK' /\ HeadLinked'
        BY <2>1, <2>2 DEF IndInv, TypeOK, TravOK, HeadLinked, Ready
    <2> QED
        BY <2>1, <2>3, KeepTableInv
<1>3. CASE /\ node' = [node EXCEPT ![HXumap_find(k)].data = v]
           /\ ret' = Result("add", k, v, "0")
           /\ UNCHANGED <<alive, noreplace, power, bk_array, items,
                          new_array, call, trav>>
    <2>1. node \in [Nodes -> [key : Keys \cup {NULL}, data : Data]]
        BY DEF IndInv, TypeOK
    <2>2. /\ node' \in [Nodes -> [key : Keys \cup {NULL}, data : Data]]
          /\ \A n \in Nodes : node'[n].key = node[n].key
        BY <1>3, <2>1
    <2>3. ret' \in Results
        BY <1>3 DEF Result, Results
    <2>4. TypeOK' /\ TravOK' /\ HeadLinked'
        BY <1>3, <2>2, <2>3 DEF IndInv, TypeOK, TravOK, HeadLinked, Ready
    <2> QED
        BY <1>3, <2>2, <2>4, KeepTableInv
<1>4. CASE AddNoMem(k, v)
    BY <1>1, <1>4, AddNoMemInv
<1> QED
    BY <1>2, <1>3, <1>4 DEF HXumap_replace

(* HXmap_add keeps the invariant: replacing, inserting, starting a         *)
(* relayout or failing.                                                    *)
LEMMA AddInv ==
    ASSUME IndInv, NEW k \in Keys, NEW v \in Data, HXmap_add(k, v)
    PROVE  IndInv'
<1>1. Ready /\ alive /\ call.pc = "idle"
    BY DEF HXmap_add, Ready
<1>2. CASE ret' = Result("add", k, v, "EINVAL") /\ UNCHANGED <<mapvars, trav>>
    <2>1. UNCHANGED <<alive, noreplace, power, bk_array, node, items,
                      new_array, call, trav>>
        BY <1>2 DEF mapvars
    <2>2. ret' \in Results
        BY <1>2 DEF Result, Results
    <2>3. TypeOK' /\ TravOK' /\ HeadLinked'
        BY <2>1, <2>2 DEF IndInv, TypeOK, TravOK, HeadLinked, Ready
    <2> QED
        BY <2>1, <2>3, KeepTableInv
<1>3. CASE HXumap_find(k) # NULL /\ HXumap_replace(k, v)
    BY <1>1, <1>3, ReplaceInv
<1>4. CASE AddNoMem(k, v)
    BY <1>1, <1>4, AddNoMemInv
<1>5. power \in 0 .. LastPower /\ items \in Nat /\ LoadBound
    BY DEF IndInv, TypeOK
<1>6. CASE /\ Singular => v = NULL
           /\ HXumap_find(k) = NULL
           /\ MustGrow \/ MustShrink
           /\ LayoutBegin(AddCall(k, v), IF MustGrow THEN power + 1 ELSE power - 1)
           /\ UNCHANGED <<alive, noreplace, power, bk_array, node, items,
                          trav, ret>>
    <2>1. CASE MustGrow
        <3>1. power + 1 \in 0 .. LastPower /\ items < MaxLoad(power + 1)
            BY <2>1, <1>5, GrowRoom
        <3>2. LayoutBegin(AddCall(k, v), power + 1)
            BY <1>6, <2>1
        <3> QED
            BY <3>1, <3>2, <1>1, <1>6, AddLayoutInv
    <2>2. CASE ~MustGrow /\ MustShrink
        <3>1. power - 1 \in 0 .. LastPower /\ items < MaxLoad(power - 1)
            BY <2>2, <1>5, ShrinkRoom DEF MustShrink
        <3>2. LayoutBegin(AddCall(k, v), power - 1)
            BY <1>6, <2>2
        <3> QED
            BY <3>1, <3>2, <1>1, <1>6, AddLayoutInv
    <2> QED
        BY <1>6, <2>1, <2>2
<1>7. CASE HXumap_find(k) = NULL /\ ~MustGrow /\ Insert(k, v)
    <2>1. \A n \in Allocated : node[n].key # k
        BY <1>1, <1>7, FindMiss
    <2>2. power < LastPower => items < MaxLoad(power)
        BY <1>5, <1>7, LoadType DEF MustGrow
    <2> QED
        BY <2>1, <2>2, <1>1, <1>7, InsertInv
<1> QED
    BY <1>2, <1>3, <1>4, <1>6, <1>7 DEF HXmap_add

(* The insertion after a relayout keeps the invariant. *)
LEMMA AddAfterLayoutInv ==
    ASSUME IndInv, AddAfterLayout PROVE IndInv'
<1>1. call.pc = "insert" /\ (Insert(call.key, call.val) \/ AddNoMem(call.key, call.val))
    BY DEF AddAfterLayout
<1>2. /\ call.fn = "add" /\ alive /\ call.key \in Keys /\ call.val \in Data
      /\ items < MaxLoad(power)
      /\ \A n \in Allocated : node[n].key # call.key
    BY <1>1 DEF IndInv, CallOK, TypeOK, Calls
<1> QED
    BY <1>1, <1>2, InsertInv, AddNoMemInv

(* HXmap_del keeps the invariant, up to the relayout and after it. *)
LEMMA DelInvAll ==
    ASSUME IndInv, NEW k \in Keys, HXmap_del(k) PROVE IndInv'
<1>1. Ready
    BY DEF HXmap_del
<1>2. CASE ret' = Result("del", k, NULL, "ENOENT") /\ UNCHANGED <<mapvars, trav>>
    <2>1. UNCHANGED <<alive, noreplace, power, bk_array, node, items,
                      new_array, call, trav>>
        BY <1>2 DEF mapvars
    <2>2. ret' \in Results
        BY <1>2 DEF Result, Results, Data
    <2>3. TypeOK' /\ TravOK' /\ HeadLinked'
        BY <2>1, <2>2 DEF IndInv, TypeOK, TravOK, HeadLinked, Ready
    <2> QED
        BY <2>1, <2>3, KeepTableInv
<1>3. CASE \E i \in Matches(k) : DelEntry(k, i)
    BY <1>1, <1>3, DelInv
<1> QED
    BY <1>2, <1>3 DEF HXmap_del

(* Steps that leave table, nodes and traversers alone keep the invariant. *)
LEMMA QuietInv ==
    ASSUME IndInv, \/ SetFlags
                   \/ \E k \in Keys : HXmap_get(k)
    PROVE  IndInv'
<1>1. /\ UNCHANGED <<alive, power, bk_array, node, items, new_array,
                     call, trav>>
      /\ noreplace' \in BOOLEAN
      /\ Ready
    BY DEF SetFlags, HXmap_get, mapvars, IndInv, TypeOK
<1>2. ret' \in Results
    <2>1. CASE SetFlags
        BY <2>1 DEF SetFlags, IndInv, TypeOK
    <2>2. CASE \E k \in Keys : HXmap_get(k)
        <3>1. PICK k \in Keys : HXmap_get(k)
            BY <2>2
        <3>2. CASE HXumap_find(k) = NULL
            BY <3>1, <3>2 DEF HXmap_get, Result, Results, Data
        <3>3. CASE HXumap_find(k) # NULL
            <4>1. HXumap_find(k) \in Nodes
                BY <3>3, <1>1, FindHit DEF Allocated
            <4>2. node[HXumap_find(k)].data \in Data
                BY <4>1 DEF IndInv, TypeOK
            <4> QED
                BY <3>1, <3>3, <4>2 DEF HXmap_get, Result, Results
        <3> QED
            BY <3>2, <3>3
    <2> QED
        BY <2>1, <2>2
<1>3. TypeOK' /\ TravOK' /\ HeadLinked'
    BY <1>1, <1>2 DEF IndInv, TypeOK, TravOK, HeadLinked, Ready
<1> QED
    BY <1>1, <1>3, KeepTableInv

(* HXmap_travinit keeps the invariant. *)
LEMMA TravInitInv ==
    ASSUME IndInv, NEW t \in Travs, HXmap_travinit(t) PROVE IndInv'
<1> DEFINE tr == [st |-> "open", head |-> NULL, bk_current |-> 0, sync |-> TRUE,
                  seen |-> {}, must |-> Linked(bk_array), fresh |-> TRUE,
                  moved |-> FALSE]
<1>1. Ready /\ trav' = [trav EXCEPT ![t] = tr] /\ UNCHANGED mapvars /\ ret' = ret
    BY DEF HXmap_travinit
<1>2. ret' \in Results
    BY <1>1 DEF IndInv, TypeOK
<1>3. tr \in Traversers /\ tr.head = NULL
    <2>1. Linked(bk_array) \in SUBSET Nodes
        BY DEF Linked
    <2> QED
        BY <2>1, <1>2 DEF Traversers
<1> HIDE DEF tr
<1> QED
    BY <1>1, <1>2, <1>3, TravStepInv

(* HXmap_travfree keeps the invariant. *)
LEMMA TravFreeInv ==
    ASSUME IndInv, NEW t \in Travs, HXmap_travfree(t) PROVE IndInv'
<1>1. /\ call.pc = "idle" /\ trav' = [trav EXCEPT ![t] = NoTrav]
      /\ UNCHANGED mapvars /\ ret' = ret /\ trav[t].st # "none"
    BY DEF HXmap_travfree
<1>2. Ready
    BY <1>1 DEF Ready, IndInv, TravOK
<1>3. NoTrav \in Traversers /\ NoTrav.st # "open"
    BY DEF NoTrav, Traversers
<1>4. ret' \in Results
    BY <1>1 DEF IndInv, TypeOK
<1> QED
    BY <1>1, <1>2, <1>3, <1>4, TravStepInv

(* The beginning and the end of a map's life. *)
LEMMA LifeInv ==
    ASSUME IndInv, HXhashmap_init4 \/ HXumap_free PROVE IndInv'
<1>1. /\ power' = 0 /\ bk_array' = EmptyArray(0) /\ items' = 0
      /\ ret' = NoResult /\ UNCHANGED <<new_array, call, trav>>
      /\ alive' \in BOOLEAN /\ noreplace' \in BOOLEAN
    BY DEF HXhashmap_init4, HXumap_free, IndInv, TypeOK
<1>2. call.pc = "idle" /\ call.fn = "none" /\ new_array = EmptyArray(0)
    BY DEF HXhashmap_init4, HXumap_free, IndInv, CallOK, Ready, TypeOK, Calls
<1>3. \A t \in Travs : trav[t].st = "none"
    BY DEF HXhashmap_init4, HXumap_free, IndInv, TravOK
<1>4. 0 \in 0 .. LastPower
    BY PrimesAssumption
<1>5. /\ EmptyArray(0) \in Arrays(0) /\ OnceIn(EmptyArray(0))
      /\ Linked(EmptyArray(0)) = {}
      /\ \A c \in DOMAIN EmptyArray(0) : EmptyArray(0)[c] = <<>>
    BY <1>4, EmptyArrayProps DEF EmptyArray
<1>6. /\ node' \in [Nodes -> [key : Keys \cup {NULL}, data : Data]]
      /\ Allocated' = {}
    <2>1. node \in [Nodes -> [key : Keys \cup {NULL}, data : Data]]
        BY DEF IndInv, TypeOK
    <2>2. CASE HXhashmap_init4
        <3>1. ~alive /\ node' = node
            BY <2>2 DEF HXhashmap_init4
        <3>2. Allocated = {}
            BY <3>1 DEF IndInv, NothingLost
        <3> QED
            BY <3>1, <3>2, <2>1 DEF Allocated
    <2>3. CASE HXumap_free
        <3>1. node' = [n \in Nodes |-> IF n \in Linked(bk_array) THEN Freed ELSE node[n]]
            BY <2>3 DEF HXumap_free
        <3>2. Allocated = Linked(bk_array)
            BY <1>2, IdleFacts
        <3>3. node' \in [Nodes -> [key : Keys \cup {NULL}, data : Data]]
            BY <3>1, <2>1 DEF Freed, Data
        <3>4. \A n \in Nodes : node'[n].key = NULL
            BY <3>1, <3>2 DEF Allocated, Freed
        <3> QED
            BY <3>3, <3>4 DEF Allocated
    <2> QED
        BY <2>2, <2>3
<1>7. InTable' = {}
    BY <1>1, <1>2, <1>5 DEF InTable
<1>8. TypeOK'
    <2>1. ret' \in Results
        BY <1>1 DEF NoResult, Result, Results, Data
    <2> QED
        BY <2>1, <1>1, <1>2, <1>4, <1>5, <1>6 DEF IndInv, TypeOK
<1>9. Placement' /\ LinkedOnce' /\ UniqueKeys'
    BY <1>1, <1>2, <1>5, <1>6 DEF Placement, WellPlaced, LinkedOnce, UniqueKeys
<1>10. NothingLost' /\ IsFiniteSet(InTable')
    <2>1. call'.fn # "del"
        BY <1>1, <1>2
    <2> QED
        BY <2>1, <1>1, <1>6, <1>7, FS_EmptySet DEF NothingLost
<1>11. LoadBound'
    BY <1>1, <1>4, LoadType DEF LoadBound
<1>12. CallOK' /\ TravOK' /\ HeadLinked'
    BY <1>1, <1>2, <1>3 DEF CallOK, TravOK, HeadLinked
<1> QED
    BY <1>8, <1>9, <1>10, <1>11, <1>12 DEF IndInv

(* A step that changes nothing. *)
LEMMA StutterInv ==
    ASSUME IndInv, UNCHANGED vars PROVE IndInv'
<1>1. UNCHANGED <<alive, noreplace, power, bk_array, node, items,
                  new_array, call, trav, ret>>
    BY DEF vars
<1>2. TypeOK' /\ TravOK' /\ HeadLinked'
    BY <1>1 DEF IndInv, TypeOK, TravOK, HeadLinked, Ready
<1> QED
    BY <1>1, <1>2, KeepTableInv

(* Every step keeps the invariant. *)
LEMMA NextInv ==
    ASSUME IndInv, [Next]_vars PROVE IndInv'
<1>1. CASE HXhashmap_init4 \/ HXumap_free
    BY <1>1, LifeInv
<1>2. CASE SetFlags \/ \E k \in Keys : HXmap_get(k)
    BY <1>2, QuietInv
<1>3. CASE \E k \in Keys : HXmap_del(k)
    BY <1>3, DelInvAll
<1>4. CASE \E k \in Keys, v \in Data : HXmap_add(k, v)
    BY <1>4, AddInv
<1>5. CASE HXumap_move \/ HXumap_layout
    BY <1>5, MoveInv, LayoutInv
<1>6. CASE AddAfterLayout \/ DelAfterLayout
    BY <1>6, AddAfterLayoutInv, DelAfterLayoutInv
<1>7. CASE \E t \in Travs : HXmap_travinit(t) \/ HXumap_traverse(t) \/ HXmap_travfree(t)
    BY <1>7, TravInitInv, TraverseInv, TravFreeInv
<1>8. CASE UNCHANGED vars
    BY <1>8, StutterInv
<1> QED
    BY <1>1, <1>2, <1>3, <1>4, <1>5, <1>6, <1>7, <1>8 DEF Next

(* The inductive invariant: the table at every step of a relayout, the     *)
(* call under way and the traversers.                                      *)
THEOREM Invariance == Spec => []IndInv
<1>1. Init => IndInv
    BY InitInv
<1>2. IndInv /\ [Next]_vars => IndInv'
    BY NextInv
<1> QED
    BY <1>1, <1>2, PTL DEF Spec

(* Type correctness of the hash map. *)
THEOREM TypeCorrect == Spec => []TypeOK
<1>1. IndInv => TypeOK
    BY DEF IndInv
<1> QED
    BY <1>1, Invariance, PTL

(* Every entry is where HXumap_find looks for it, once, and is the only    *)
(* one with its key, at every moment of a relayout.                        *)
THEOREM TableCorrect == Spec => []TableOK
<1>1. IndInv => TableOK
    BY DEF IndInv, TableOK
<1> QED
    BY <1>1, Invariance, PTL

(* No node is lost or leaked and items counts the entries, whichever       *)
(* allocations fail.                                                       *)
THEOREM NothingLostEver == Spec => []NothingLost
<1>1. IndInv => NothingLost
    BY DEF IndInv
<1> QED
    BY <1>1, Invariance, PTL

(* The load factor is bounded for every table of sizes that satisfies      *)
(* LoadAssumption.                                                         *)
THEOREM LoadBounded == Spec => []LoadBound
<1>1. IndInv => LoadBound
    BY DEF IndInv
<1> QED
    BY <1>1, Invariance, PTL

(* HXumap_traverse never follows a dangling or misplaced head, however     *)
(* many traversers are interleaved with additions and deletions.           *)
THEOREM HeadAlwaysLinked == Spec => []HeadLinked
<1>1. IndInv => HeadLinked
    BY DEF IndInv
<1> QED
    BY <1>1, Invariance, PTL

-----------------------------------------------------------------------------
(* Traversals: what has been returned and what is still to come.           *)

(* Position j of bucket b of arr is behind the traverser, which is exact   *)
(* within a bucket only while the traverser follows head->next.            *)
Passed(tr, arr, b, j) ==
    /\ b <= tr.bk_current
    /\ tr.sync /\ b = tr.bk_current =>
         \A i \in DOMAIN arr[b] : arr[b][i] = tr.head => j <= i

(* Position j of bucket b of arr is ahead of the traverser. *)
Coming(tr, arr, b, j) ==
    \/ tr.head = NULL
    \/ b > tr.bk_current
    \/ b = tr.bk_current /\ \A i \in DOMAIN arr[b] : arr[b][i] = tr.head => i < j

(* What the traverser has returned is behind it. *)
BackOK(tr, arr) ==
    \A b \in DOMAIN arr : \A j \in DOMAIN arr[b] :
        arr[b][j] \in tr.seen => Passed(tr, arr, b, j)

(* Of what was there at travinit, all that is not returned yet is ahead. *)
AheadOK(tr, arr) ==
    /\ tr.sync
    /\ tr.must \subseteq Linked(arr)
    /\ \A b \in DOMAIN arr : \A j \in DOMAIN arr[b] :
         arr[b][j] \in tr.must \ tr.seen => Coming(tr, arr, b, j)

SeenOK(tr, pc, arr, all) ==
    /\ pc \in {"insert", "free"} => ~tr.fresh /\ tr.moved
    /\ tr.st = "end" /\ tr.fresh => tr.must \subseteq tr.seen
    /\ tr.st = "open" => tr.seen \subseteq all
    /\ tr.st = "open" /\ tr.head = NULL => tr.seen = {} /\ tr.bk_current = 0
    /\ tr.st = "open" /\ pc = "idle" /\ tr.fresh => AheadOK(tr, arr)
    /\ tr.st = "open" /\ pc = "idle" /\ ~tr.moved => BackOK(tr, arr)

(* Every traverser keeps this: until the table is relaid out what was      *)
(* returned is behind, and until tid changes what was not is ahead.        *)
SeenInv == \A t \in Travs : SeenOK(trav[t], call.pc, bk_array, Allocated)

(* Linking a new node at the end of a bucket moves nothing. *)
LEMMA SeenAppend ==
    ASSUME NEW tr \in Traversers, NEW arr, NEW b, NEW nd, NEW arr2,
           Appended(arr, b, nd, arr2), nd \notin tr.seen,
           tr.sync => tr.head # nd
    PROVE  /\ BackOK(tr, arr) => BackOK(tr, arr2)
           /\ AheadOK(tr, arr) => AheadOK(tr, arr2)
<1>1. /\ DOMAIN arr2 = DOMAIN arr
      /\ Linked(arr2) = Linked(arr) \cup {nd}
      /\ \A c \in DOMAIN arr : \A i \in DOMAIN arr2[c] :
            \/ i \in DOMAIN arr[c] /\ arr2[c][i] = arr[c][i]
            \/ c = b /\ i = Len(arr[b]) + 1 /\ arr2[c][i] = nd
    BY AppendArray
<1>2. ASSUME BackOK(tr, arr) PROVE BackOK(tr, arr2)
    <2> SUFFICES ASSUME NEW c \in DOMAIN arr2, NEW j \in DOMAIN arr2[c],
                        arr2[c][j] \in tr.seen
                 PROVE  Passed(tr, arr2, c, j)
        BY DEF BackOK
    <2>1. c \in DOMAIN arr /\ j \in DOMAIN arr[c] /\ arr2[c][j] = arr[c][j]
        BY <1>1
    <2>2. Passed(tr, arr, c, j)
        BY <2>1, <1>2 DEF BackOK
    <2> QED
        BY <1>1, <2>1, <2>2 DEF Passed
<1>3. ASSUME AheadOK(tr, arr) PROVE AheadOK(tr, arr2)
    <2>1. /\ tr.sync /\ tr.must \subseteq Linked(arr2)
          /\ nd \notin tr.must
        BY <1>1, <1>3 DEF AheadOK, Appended
    <2>2. ASSUME NEW c \in DOMAIN arr2, NEW j \in DOMAIN arr2[c],
                 arr2[c][j] \in tr.must \ tr.seen
          PROVE  Coming(tr, arr2, c, j)
        <3>1. c \in DOMAIN arr /\ j \in DOMAIN arr[c] /\ arr2[c][j] = arr[c][j]
            BY <1>1, <2>1, <2>2
        <3>2. Coming(tr, arr, c, j)
            BY <3>1, <1>3, <2>2 DEF AheadOK
        <3> QED
            BY <1>1, <2>1, <3>1, <3>2 DEF Coming
    <2> QED
        BY <2>1, <2>2 DEF AheadOK
<1> QED
    BY <1>2, <1>3

(* Unlinking an entry changes tid, after which a traverser skips the rest  *)
(* of its bucket.                                                          *)
LEMMA SeenUnlink ==
    ASSUME NEW tr \in Traversers, NEW tr2 \in Traversers, NEW arr,
           NEW b, NEW i, NEW arr2, Unlinked(arr, b, i, arr2),
           BackOK(tr, arr), ~tr2.sync, tr2.bk_current = tr.bk_current,
           tr2.seen \subseteq tr.seen
    PROVE  BackOK(tr2, arr2)
<1> SUFFICES ASSUME NEW c \in DOMAIN arr2, NEW j \in DOMAIN arr2[c],
                    arr2[c][j] \in tr2.seen
             PROVE  Passed(tr2, arr2, c, j)
    BY DEF BackOK
<1>1. c \in DOMAIN arr
    BY DEF Unlinked
<1>2. PICK m \in DOMAIN arr[c] : arr2[c][j] = arr[c][m]
    BY <1>1, UnlinkArray
<1>3. Passed(tr, arr, c, m)
    BY <1>1, <1>2 DEF BackOK
<1> QED
    BY <1>3 DEF Passed

(* Position i of bucket b is the one HXumap_traverse goes on to. *)
IsNext(tr, arr, b, i) ==
    /\ b \in DOMAIN arr /\ i \in DOMAIN arr[b]
    /\ \/ /\ tr.head = NULL /\ i = 1
          /\ \A c \in DOMAIN arr : c < b => arr[c] = <<>>
       \/ /\ tr.head # NULL /\ i = 1 /\ b > tr.bk_current
          /\ \A c \in DOMAIN arr : c > tr.bk_current /\ c < b => arr[c] = <<>>
          /\ tr.sync => arr[tr.bk_current][Len(arr[tr.bk_current])] = tr.head
       \/ /\ tr.head # NULL /\ tr.sync /\ b = tr.bk_current
          /\ i - 1 \in DOMAIN arr[b] /\ arr[b][i - 1] = tr.head

(* There is no further position. *)
NoNext(tr, arr) ==
    \/ tr.head = NULL /\ \A c \in DOMAIN arr : arr[c] = <<>>
    \/ tr.head # NULL /\ ~tr.sync
    \/ /\ tr.head # NULL /\ tr.sync
       /\ arr[tr.bk_current][Len(arr[tr.bk_current])] = tr.head
       /\ \A c \in DOMAIN arr : c > tr.bk_current => arr[c] = <<>>

(* The array a traverser walks over. *)
Walked(tr, arr) ==
    /\ IsArray(arr) /\ OnceIn(arr) /\ DOMAIN arr \subseteq Nat
    /\ tr \in Traversers
    /\ tr.head = NULL => tr.seen = {} /\ tr.bk_current = 0
    /\ tr.head # NULL /\ tr.sync => tr.bk_current \in DOMAIN arr

(* The next position has not been returned before. *)
LEMMA NextUnseen ==
    ASSUME NEW tr, NEW arr, NEW b, NEW i, Walked(tr, arr),
           IsNext(tr, arr, b, i), BackOK(tr, arr)
    PROVE  arr[b][i] \notin tr.seen
<1> SUFFICES ASSUME arr[b][i] \in tr.seen PROVE FALSE
    OBVIOUS
<1>1. b \in DOMAIN arr /\ i \in DOMAIN arr[b] /\ tr.head # NULL
    BY DEF IsNext, Walked
<1>2. Passed(tr, arr, b, i)
    BY <1>1 DEF BackOK
<1>3. b \in Nat /\ tr.bk_current \in Nat /\ i \in Nat
    <2>1. arr[b] \in Seq(Nodes)
        BY <1>1 DEF Walked, IsArray
    <2> QED
        BY <1>1, <2>1 DEF Walked, Traversers
<1> QED
    BY <1>1, <1>2, <1>3 DEF IsNext, Passed

(* Going on to the next position keeps what was returned behind. *)
LEMMA NextBack ==
    ASSUME NEW tr, NEW tr2, NEW arr, NEW b, NEW i, Walked(tr, arr),
           IsNext(tr, arr, b, i), BackOK(tr, arr),
           tr2.head = arr[b][i], tr2.bk_current = b,
           tr2.seen = tr.seen \cup {arr[b][i]}
    PROVE  BackOK(tr2, arr)
<1>1. b \in DOMAIN arr /\ i \in DOMAIN arr[b]
    BY DEF IsNext
<1> SUFFICES ASSUME NEW c \in DOMAIN arr, NEW j \in DOMAIN arr[c],
                    arr[c][j] \in tr2.seen
             PROVE  Passed(tr2, arr, c, j)
    BY DEF BackOK
<1>2. \A m \in DOMAIN arr[b] : arr[b][m] = arr[b][i] => m = i
    BY <1>1 DEF Walked, OnceIn
<1>3. b \in Nat /\ c \in Nat /\ tr.bk_current \in Nat /\ i \in Nat /\ j \in Nat
    <2>1. arr[b] \in Seq(Nodes) /\ arr[c] \in Seq(Nodes)
        BY <1>1 DEF Walked, IsArray
    <2> QED
        BY <1>1, <2>1 DEF Walked, Traversers
<1>4. CASE arr[c][j] = arr[b][i]
    <2>1. c = b /\ j = i
        BY <1>1, <1>4 DEF Walked, OnceIn
    <2> QED
        BY <2>1, <1>2, <1>3 DEF Passed
<1>5. CASE arr[c][j] \in tr.seen
    <2>1. tr.head # NULL
        BY <1>5 DEF Walked
    <2>2. Passed(tr, arr, c, j)
        BY <1>5 DEF BackOK
    <2>3. CASE b > tr.bk_current
        BY <2>2, <2>3, <1>3 DEF Passed
    <2>4. CASE /\ tr.sync /\ b = tr.bk_current
               /\ i - 1 \in DOMAIN arr[b] /\ arr[b][i - 1] = tr.head
        <3>1. c <= b /\ (c = b => j <= i - 1)
            BY <2>2, <2>4 DEF Passed
        <3> QED
            BY <3>1, <1>2, <1>3 DEF Passed
    <2> QED
        BY <2>1, <2>3, <2>4 DEF IsNext
<1> QED
    BY <1>4, <1>5

(* Going on to the next position skips nothing that is to be returned. *)
LEMMA NextAhead ==
    ASSUME NEW tr, NEW tr2, NEW arr, NEW b, NEW i, Walked(tr, arr),
           IsNext(tr, arr, b, i), AheadOK(tr, arr), tr2.sync,
           tr2.head = arr[b][i], tr2.bk_current = b, tr2.must = tr.must,
           tr2.seen = tr.seen \cup {arr[b][i]}
    PROVE  AheadOK(tr2, arr)
<1>1. b \in DOMAIN arr /\ i \in DOMAIN arr[b]
    BY DEF IsNext
<1>2. tr2.sync /\ tr2.must \subseteq Linked(arr) /\ tr.sync
    BY DEF AheadOK
<1> SUFFICES ASSUME NEW c \in DOMAIN arr, NEW j \in DOMAIN arr[c],
                    arr[c][j] \in tr2.must \ tr2.seen
             PROVE  Coming(tr2, arr, c, j)
    BY <1>2 DEF AheadOK
<1>3. \A m \in DOMAIN arr[b] : arr[b][m] = arr[b][i] => m = i
    BY <1>1 DEF Walked, OnceIn
<1>4. /\ arr[b] \in Seq(Nodes) /\ arr[c] \in Seq(Nodes)
      /\ b \in Nat /\ c \in Nat /\ tr.bk_current \in Nat
    BY <1>1 DEF Walked, IsArray, Traversers
<1>5. /\ i \in 1 .. Len(arr[b]) /\ j \in 1 .. Len(arr[c]) /\ arr[c] # <<>>
      /\ Len(arr[b]) \in Nat /\ Len(arr[c]) \in Nat
    BY <1>1, <1>4
<1>6. c # b \/ j # i
    OBVIOUS
<1>7. Coming(tr, arr, c, j)
    BY DEF AheadOK
<1>8. c > b \/ (c = b /\ j > i)
    <2>1. CASE tr.head = NULL
        BY <2>1, <1>4, <1>5, <1>6 DEF IsNext
    <2>2. CASE tr.head # NULL /\ c > tr.bk_current
        BY <2>2, <1>4, <1>5, <1>6 DEF IsNext
    <2>3. CASE /\ tr.head # NULL /\ c = tr.bk_current
               /\ \A m \in DOMAIN arr[c] : arr[c][m] = tr.head => m < j
        <3>1. CASE arr[c][Len(arr[c])] = tr.head
            <4>1. Len(arr[c]) \in DOMAIN arr[c]
                BY <1>4, <1>5
            <4> QED
                BY <4>1, <3>1, <2>3, <1>5
        <3>2. CASE b = tr.bk_current /\ i - 1 \in DOMAIN arr[b] /\ arr[b][i - 1] = tr.head
            <4>1. i - 1 < j
                BY <3>2, <2>3
            <4> QED
                BY <4>1, <3>2, <2>3, <1>5, <1>6
        <3> QED
            BY <3>1, <3>2, <2>3, <1>2 DEF IsNext
    <2> QED
        BY <2>1, <2>2, <2>3, <1>7 DEF Coming
<1> QED
    BY <1>3, <1>4, <1>5, <1>8 DEF Coming

(* At the end nothing is left to be returned. *)
LEMMA EndComplete ==
    ASSUME NEW tr, NEW arr, Walked(tr, arr), NoNext(tr, arr),
           AheadOK(tr, arr)
    PROVE  tr.must \subseteq tr.seen
<1> SUFFICES ASSUME NEW n \in tr.must, n \notin tr.seen PROVE FALSE
    OBVIOUS
<1>1. PICK c \in DOMAIN arr : \E j \in DOMAIN arr[c] : arr[c][j] = n
    BY DEF AheadOK, Linked
<1>2. PICK j \in DOMAIN arr[c] : arr[c][j] = n
    BY <1>1
<1>3. arr[c] \in Seq(Nodes) /\ c \in Nat /\ tr.bk_current \in Nat /\ tr.sync
    BY <1>1 DEF Walked, IsArray, Traversers, AheadOK
<1>4. /\ j \in 1 .. Len(arr[c]) /\ arr[c] # <<>> /\ Len(arr[c]) \in DOMAIN arr[c]
      /\ Len(arr[c]) \in Nat
    BY <1>2, <1>3
<1>5. Coming(tr, arr, c, j)
    BY <1>2 DEF AheadOK
<1> QED
    BY <1>3, <1>4, <1>5 DEF Coming, NoNext

-----------------------------------------------------------------------------
(* SeenInv is kept: one lemma for each action or part of one.              *)

(* Steps that leave the table and the traversers alone. *)
LEMMA SeenSame ==
    ASSUME SeenInv, trav' = trav, bk_array' = bk_array,
           Allocated \subseteq Allocated',
           \/ call'.pc = call.pc
           \/ call.pc = "insert" /\ call'.pc = "idle"
           \/ call'.pc = "move"
    PROVE  SeenInv'
<1> SUFFICES ASSUME NEW t \in Travs
             PROVE  SeenOK(trav[t], call'.pc, bk_array, Allocated')
    BY DEF SeenInv
<1>1. SeenOK(trav[t], call.pc, bk_array, Allocated)
    BY DEF SeenInv
<1> QED
    BY <1>1 DEF SeenOK

(* HXumap_add links a new node. *)
LEMMA InsertSeen ==
    ASSUME IndInv, SeenInv, alive, call.pc \in {"idle", "insert"},
           NEW k \in Keys, NEW v \in Data, Insert(k, v)
    PROVE  SeenInv'
<1> DEFINE b == BucketOf(k, power)
<1>1. PICK nd \in Nodes \ Allocated :
         /\ node' = [node EXCEPT ![nd] = [key |-> k, data |-> v]]
         /\ bk_array' = [bk_array EXCEPT ![b] = Append(@, nd)]
    BY DEF Insert
<1>2. call' = Idle /\ trav' = trav
    BY DEF Insert
<1>3. Appended(bk_array, b, nd, bk_array')
    <2>1. /\ Allocated = Linked(bk_array) /\ IsArray(bk_array)
          /\ DOMAIN bk_array = 0 .. HXhash_primes[power] - 1
        BY IdleFacts
    <2>2. b \in DOMAIN bk_array
        BY <2>1, BucketType DEF IndInv, TypeOK
    <2> QED
        BY <1>1, <2>1, <2>2 DEF Appended
<1>4. Allocated \subseteq Allocated'
    <2>1. node \in [Nodes -> [key : Keys \cup {NULL}, data : Data]]
        BY DEF IndInv, TypeOK
    <2> QED
        BY <1>1, <2>1 DEF Allocated
<1> SUFFICES ASSUME NEW t \in Travs
             PROVE  SeenOK(trav[t], "idle", bk_array', Allocated')
    BY <1>2 DEF SeenInv, Idle
<1>5. SeenOK(trav[t], call.pc, bk_array, Allocated)
    BY DEF SeenInv
<1>6. trav[t] \in Traversers
    BY DEF IndInv, TypeOK
<1>7. CASE call.pc = "insert"
    BY <1>4, <1>5, <1>7 DEF SeenOK
<1>8. CASE call.pc = "idle" /\ trav[t].st = "open"
    <2>1. nd \notin trav[t].seen
        BY <1>1, <1>5, <1>8 DEF SeenOK
    <2>2. trav[t].sync => trav[t].head # nd
        <3> SUFFICES ASSUME trav[t].sync, trav[t].head = nd PROVE FALSE
            OBVIOUS
        <3>1. nd # NULL
            BY <1>1, NodesAssumption
        <3>2. nd \in Linked(bk_array)
            BY <3>1, <1>1, <1>8 DEF IndInv, HeadLinked, Ready, Linked
        <3> QED
            BY <3>2, <1>3 DEF Appended
    <2>4. trav[t].fresh => AheadOK(trav[t], bk_array')
        BY <1>3, <1>5, <1>6, <1>8, <2>1, <2>2, SeenAppend DEF SeenOK
    <2>5. ~trav[t].moved => BackOK(trav[t], bk_array')
        BY <1>3, <1>5, <1>6, <1>8, <2>1, <2>2, SeenAppend DEF SeenOK
    <2> QED
        BY <1>4, <1>5, <1>8, <2>4, <2>5 DEF SeenOK
<1>9. CASE call.pc = "idle" /\ trav[t].st # "open"
    BY <1>5, <1>9 DEF SeenOK
<1> QED
    BY <1>7, <1>8, <1>9

(* HXumap_add fails or replaces: neither links nor unlinks. *)
LEMMA AddSeen ==
    ASSUME IndInv, SeenInv, NEW k \in Keys, NEW v \in Data, HXmap_add(k, v)
    PROVE  SeenInv'
<1>1. Ready /\ alive /\ call.pc = "idle"
    BY DEF HXmap_add, Ready
<1>2. CASE Insert(k, v)
    BY <1>1, <1>2, InsertSeen
<1>3. CASE AddNoMem(k, v)
    <2>1. Allocated' = Allocated
        BY <1>3 DEF AddNoMem, Allocated
    <2> QED
        BY <1>1, <1>3, <2>1, SeenSame DEF AddNoMem, Idle
<1>4. CASE UNCHANGED <<mapvars, trav>>
    <2>1. Allocated' = Allocated
        BY <1>4 DEF mapvars, Allocated
    <2> QED
        BY <1>4, <2>1, SeenSame DEF mapvars
<1>5. CASE /\ LayoutBegin(AddCall(k, v), IF MustGrow THEN power + 1 ELSE power - 1)
           /\ UNCHANGED <<alive, noreplace, power, bk_array, node, items,
                          trav, ret>>
    <2>1. Allocated' = Allocated
        BY <1>5 DEF Allocated
    <2>2. call'.pc = "move"
        BY <1>5 DEF LayoutBegin, AddCall, Idle
    <2> QED
        BY <1>5, <2>1, <2>2, SeenSame
<1>6. CASE /\ HXumap_find(k) # NULL
           /\ node' = [node EXCEPT ![HXumap_find(k)].data = v]
           /\ UNCHANGED <<alive, noreplace, power, bk_array, items,
                          new_array, call, trav>>
    <2>1. node \in [Nodes -> [key : Keys \cup {NULL}, data : Data]]
        BY DEF IndInv, TypeOK
    <2>2. Allocated' = Allocated
        BY <1>6, <2>1 DEF Allocated
    <2> QED
        BY <1>6, <2>2, SeenSame
<1> QED
    BY <1>2, <1>3, <1>4, <1>5, <1>6 DEF HXmap_add, HXumap_replace

(* The rest of HXumap_add after a relayout. *)
LEMMA AddAfterLayoutSeen ==
    ASSUME IndInv, SeenInv, AddAfterLayout PROVE SeenInv'
<1>1. call.pc = "insert" /\ (Insert(call.key, call.val) \/ AddNoMem(call.key, call.val))
    BY DEF AddAfterLayout
<1>2. alive /\ call.key \in Keys /\ call.val \in Data
    BY <1>1 DEF IndInv, CallOK, TypeOK, Calls
<1>3. CASE Insert(call.key, call.val)
    BY <1>1, <1>2, <1>3, InsertSeen
<1>4. CASE AddNoMem(call.key, call.val)
    <2>1. Allocated' = Allocated
        BY <1>4 DEF AddNoMem, Allocated
    <2> QED
        BY <1>1, <1>4, <2>1, SeenSame DEF AddNoMem, Idle
<1> QED
    BY <1>1, <1>3, <1>4

(* Moving entries is invisible to a traverser; the relayout ends every     *)
(* promise to it.                                                          *)
LEMMA LayoutSeen ==
    ASSUME IndInv, SeenInv, HXumap_move \/ HXumap_layout PROVE SeenInv'
<1> SUFFICES ASSUME NEW t \in Travs
             PROVE  SeenOK(trav'[t], call'.pc, bk_array', Allocated')
    BY DEF SeenInv
<1>1. SeenOK(trav[t], call.pc, bk_array, Allocated)
    BY DEF SeenInv
<1>2. call.pc = "move" /\ Allocated' = Allocated
    BY DEF HXumap_move, HXumap_layout, Allocated
<1>3. CASE HXumap_move
    <2>1. call'.pc = "move" /\ trav' = trav
        BY <1>2, <1>3 DEF HXumap_move
    <2> QED
        BY <1>1, <1>2, <2>1 DEF SeenOK
<1>4. CASE HXumap_layout
    <2>1. call'.pc \in {"insert", "free"}
        BY <1>4 DEF HXumap_layout, IndInv, TypeOK, Calls
    <2>2. trav'[t] = [trav[t] EXCEPT !.sync = FALSE, !.fresh = FALSE,
                                     !.moved = TRUE]
        BY <1>4 DEF HXumap_layout, TidMoved
    <2>3. trav[t] \in Traversers
        BY DEF IndInv, TypeOK
    <2>4. /\ ~trav'[t].fresh /\ trav'[t].moved
          /\ trav'[t].st = trav[t].st /\ trav'[t].seen = trav[t].seen
          /\ trav'[t].head = trav[t].head /\ trav'[t].bk_current = trav[t].bk_current
        BY <2>2, <2>3 DEF Traversers
    <2> QED
        BY <1>1, <1>2, <2>1, <2>4 DEF SeenOK
<1> QED
    BY <1>3, <1>4

(* HXumap_del changes tid, and whoever held the entry forgets it when its  *)
(* node is freed.                                                          *)
LEMMA DelSeen ==
    ASSUME IndInv, SeenInv, Ready, NEW k \in Keys, NEW i \in Matches(k),
           DelEntry(k, i)
    PROVE  SeenInv'
<1> DEFINE b == BucketOf(k, power)
           nd == bk_array[b][i]
<1>0. bk_array' = [bk_array EXCEPT ![b] = RemoveAt(@, i)]
    BY DEF DelEntry
<1>1. \/ /\ LayoutBegin(DelCall(k, nd), power - 1)
         /\ trav' = TidChanged
         /\ UNCHANGED <<node, ret>>
      \/ /\ FreeNode(nd, k, node[nd].data)
         /\ trav' = Forget(TidChanged, nd)
         /\ UNCHANGED <<new_array, call>>
    BY DEF DelEntry
<1>2. b \in DOMAIN bk_array /\ i \in DOMAIN bk_array[b]
    BY MatchFacts
<1>3. Unlinked(bk_array, b, i, bk_array')
    BY <1>0, <1>2, IdleFacts, RemoveIsUnlinked DEF Ready, IndInv, LinkedOnce
<1> HIDE DEF b, nd
<1> SUFFICES ASSUME NEW t \in Travs
             PROVE  SeenOK(trav'[t], call'.pc, bk_array', Allocated')
    BY DEF SeenInv
<1>4. SeenOK(trav[t], "idle", bk_array, Allocated)
    BY DEF SeenInv, Ready
<1>5. trav[t] \in Traversers
    BY DEF IndInv, TypeOK
<1>6. /\ TidChanged[t] = [trav[t] EXCEPT !.sync = FALSE, !.fresh = FALSE]
      /\ TidChanged[t] \in Traversers
    BY <1>5 DEF TidChanged, Traversers
<1>7. CASE LayoutBegin(DelCall(k, nd), power - 1) /\ trav' = TidChanged /\ node' = node
    <2>1. call'.pc = "move" /\ Allocated' = Allocated
        BY <1>7 DEF LayoutBegin, DelCall, Idle, Allocated
    <2>2. /\ ~trav'[t].fresh
          /\ trav'[t].st = trav[t].st /\ trav'[t].seen = trav[t].seen
          /\ trav'[t].head = trav[t].head /\ trav'[t].bk_current = trav[t].bk_current
        BY <1>5, <1>6, <1>7 DEF Traversers
    <2> QED
        BY <1>4, <2>1, <2>2 DEF SeenOK
<1>8. CASE FreeNode(nd, k, node[nd].data) /\ trav' = Forget(TidChanged, nd) /\ call' = call
    <2>1. Allocated \ {nd} \subseteq Allocated'
        <3>1. node \in [Nodes -> [key : Keys \cup {NULL}, data : Data]]
            BY DEF IndInv, TypeOK
        <3>2. node' = [node EXCEPT ![nd] = Freed]
            BY <1>8 DEF FreeNode
        <3> QED
            BY <3>1, <3>2 DEF Allocated
    <2>2. trav'[t] = [TidChanged[t] EXCEPT !.seen = @ \ {nd}, !.must = @ \ {nd}]
        BY <1>8 DEF Forget
    <2>3. /\ TidChanged[t].st = trav[t].st /\ ~TidChanged[t].fresh
          /\ TidChanged[t].moved = trav[t].moved /\ ~TidChanged[t].sync
          /\ TidChanged[t].seen = trav[t].seen /\ TidChanged[t].head = trav[t].head
          /\ TidChanged[t].bk_current = trav[t].bk_current
        BY <1>5, <1>6 DEF Traversers
    <2>4. /\ trav'[t] \in Traversers
          /\ trav'[t].st = trav[t].st /\ ~trav'[t].fresh
          /\ trav'[t].moved = trav[t].moved /\ ~trav'[t].sync
          /\ trav'[t].seen = trav[t].seen \ {nd} /\ trav'[t].head = trav[t].head
          /\ trav'[t].bk_current = trav[t].bk_current
        <3>1. /\ TidChanged[t].seen \ {nd} \in SUBSET Nodes
              /\ TidChanged[t].must \ {nd} \in SUBSET Nodes
            BY <1>6 DEF Traversers
        <3> HIDE DEF TidChanged
        <3> QED
            BY <1>6, <2>2, <2>3, <3>1 DEF Traversers
    <2>5. trav[t].st = "open" /\ ~trav[t].moved => BackOK(trav'[t], bk_array')
        <3> HAVE trav[t].st = "open" /\ ~trav[t].moved
        <3>3. BackOK(trav[t], bk_array)
            BY <1>4 DEF SeenOK
        <3>4. trav'[t].seen \subseteq trav[t].seen
            BY <2>4
        <3> QED
            BY <1>3, <1>5, <2>4, <3>3, <3>4, SeenUnlink
    <2> QED
        BY <1>4, <1>8, <2>1, <2>4, <2>5 DEF SeenOK, Ready
<1> QED
    BY <1>1, <1>7, <1>8

(* HXmap_del of an absent or a present key. *)
LEMMA DelSeenAll ==
    ASSUME IndInv, SeenInv, NEW k \in Keys, HXmap_del(k) PROVE SeenInv'
<1>1. Ready
    BY DEF HXmap_del
<1>2. CASE UNCHANGED <<mapvars, trav>>
    <2>1. Allocated' = Allocated
        BY <1>2 DEF mapvars, Allocated
    <2> QED
        BY <1>2, <2>1, SeenSame DEF mapvars
<1>3. CASE \E i \in Matches(k) : DelEntry(k, i)
    BY <1>1, <1>3, DelSeen
<1> QED
    BY <1>2, <1>3 DEF HXmap_del

(* The node of a deleted entry is freed after the relayout. *)
LEMMA DelAfterLayoutSeen ==
    ASSUME IndInv, SeenInv, DelAfterLayout PROVE SeenInv'
<1> DEFINE nd == call.nd
<1>1. /\ call.pc = "free" /\ node' = [node EXCEPT ![nd] = Freed]
      /\ call' = Idle /\ trav' = Forget(trav, nd)
    BY DEF DelAfterLayout, FreeNode
<1>2. Allocated \ {nd} \subseteq Allocated'
    <2>1. node \in [Nodes -> [key : Keys \cup {NULL}, data : Data]]
        BY DEF IndInv, TypeOK
    <2> QED
        BY <1>1, <2>1 DEF Allocated
<1> HIDE DEF nd
<1> SUFFICES ASSUME NEW t \in Travs
             PROVE  SeenOK(trav'[t], call'.pc, bk_array', Allocated')
    BY DEF SeenInv
<1>3. SeenOK(trav[t], "free", bk_array, Allocated)
    BY <1>1 DEF SeenInv
<1>4. trav[t] \in Traversers
    BY DEF IndInv, TypeOK
<1>5. trav'[t] = [trav[t] EXCEPT !.seen = @ \ {nd}, !.must = @ \ {nd}]
    BY <1>1 DEF Forget
<1>6. /\ trav'[t].st = trav[t].st /\ trav'[t].fresh = trav[t].fresh
      /\ trav'[t].moved = trav[t].moved
      /\ trav'[t].seen = trav[t].seen \ {nd} /\ trav'[t].head = trav[t].head
      /\ trav'[t].bk_current = trav[t].bk_current
    BY <1>4, <1>5 DEF Traversers
<1> QED
    BY <1>1, <1>2, <1>3, <1>6 DEF SeenOK, Idle

(* A step of one traverser. *)
LEMMA TravStepSeen ==
    ASSUME IndInv, SeenInv, call.pc = "idle", NEW t \in Travs, NEW tr,
           trav' = [trav EXCEPT ![t] = tr], UNCHANGED mapvars,
           SeenOK(tr, "idle", bk_array, Allocated)
    PROVE  SeenInv'
<1>1. /\ trav' = [trav EXCEPT ![t] = tr] /\ trav \in [Travs -> Traversers]
      /\ call'.pc = "idle" /\ bk_array' = bk_array
      /\ Allocated' = Allocated
    BY DEF mapvars, IndInv, TypeOK, Allocated
<1> SUFFICES ASSUME NEW s \in Travs
             PROVE  SeenOK(trav'[s], "idle", bk_array, Allocated)
    BY <1>1 DEF SeenInv
<1>2. CASE s = t
    BY <1>1, <1>2
<1>3. CASE s # t
    BY <1>1, <1>3 DEF SeenInv
<1> QED
    BY <1>2, <1>3

(* What one call of HXumap_traverse does: it returns the next position, or *)
(* ends when there is none; tr1 is the traverser with its tid brought up   *)
(* to date where the code does so.                                         *)
Advances(t, tr, tr1) ==
    /\ tr1 \in {tr, [tr EXCEPT !.sync = TRUE]}
    /\ \/ \E b \in DOMAIN bk_array : \E i \in DOMAIN bk_array[b] :
             IsNext(tr, bk_array, b, i) /\ Visit(t, tr1, b, i)
       \/ NoNext(tr, bk_array) /\ VisitEnd(t, tr1)

(* The search for the next bucket in use finds the next position. *)
LEMMA FromBucketAdvances ==
    ASSUME NEW t \in Travs, NEW tr, NEW tr1 \in {tr, [tr EXCEPT !.sync = TRUE]}, NEW lo,
           Walked(tr, bk_array), FromBucket(t, tr1, lo),
           \/ tr.head = NULL /\ lo = 0
           \/ /\ tr.head # NULL /\ lo = tr.bk_current + 1
              /\ tr.sync => bk_array[tr.bk_current][Len(bk_array[tr.bk_current])] = tr.head
    PROVE  Advances(t, tr, tr1)
<1>1. /\ \A c \in DOMAIN bk_array : c \in Nat /\ bk_array[c] \in Seq(Nodes)
      /\ tr.bk_current \in Nat
    BY DEF Walked, IsArray, Traversers
<1>2. CASE \E b \in DOMAIN bk_array : IsFirstInUse(bk_array, lo, b) /\ Visit(t, tr1, b, 1)
    <2>1. PICK b \in DOMAIN bk_array : IsFirstInUse(bk_array, lo, b) /\ Visit(t, tr1, b, 1)
        BY <1>2
    <2>2. 1 \in DOMAIN bk_array[b]
        BY <2>1, <1>1 DEF IsFirstInUse
    <2>3. IsNext(tr, bk_array, b, 1)
        BY <2>1, <2>2, <1>1 DEF IsNext, IsFirstInUse
    <2> QED
        BY <2>1, <2>2, <2>3 DEF Advances
<1>3. CASE VisitEnd(t, tr1) /\ \A b \in DOMAIN bk_array : b >= lo => bk_array[b] = <<>>
    <2>1. NoNext(tr, bk_array)
        BY <1>3, <1>1 DEF NoNext
    <2> QED
        BY <1>3, <2>1 DEF Advances
<1> QED
    BY <1>2, <1>3 DEF FromBucket

(* HXumap_traverse advances. *)
LEMMA TraverseAdvances ==
    ASSUME IndInv, SeenInv, NEW t \in Travs, HXumap_traverse(t)
    PROVE  /\ Ready /\ trav[t].st = "open" /\ UNCHANGED mapvars
           /\ Walked(trav[t], bk_array)
           /\ \E tr1 : Advances(t, trav[t], tr1)
<1> DEFINE tr == trav[t]
           bk == tr.bk_current
<1>1. Ready /\ tr.st = "open" /\ UNCHANGED mapvars
    BY DEF HXumap_traverse
<1>2. Walked(tr, bk_array)
    <2>1. /\ IsArray(bk_array) /\ DOMAIN bk_array = 0 .. HXhash_primes[power] - 1
          /\ OnceIn(bk_array) /\ tr \in Traversers
        BY <1>1, IdleFacts DEF Ready, IndInv, LinkedOnce, TypeOK
    <2>2. HXhash_primes[power] \in Nat
        BY PrimesAssumption DEF IndInv, TypeOK
    <2>3. tr.head = NULL => tr.seen = {} /\ bk = 0
        BY <1>1 DEF SeenInv, SeenOK
    <2>4. tr.head # NULL /\ tr.sync => bk \in DOMAIN bk_array
        BY <1>1 DEF IndInv, HeadLinked
    <2> QED
        BY <2>1, <2>2, <2>3, <2>4 DEF Walked
<1> HIDE DEF tr
<1>3. CASE tr.head = NULL /\ FromBucket(t, tr, bk)
    <2>1. bk = 0
        BY <1>2, <1>3 DEF Walked
    <2> QED
        BY <1>1, <1>2, <1>3, <2>1, FromBucketAdvances DEF tr
<1>4. CASE tr.head # NULL /\ ~tr.sync /\ VisitEnd(t, tr)
    <2>1. Advances(t, tr, tr)
        BY <1>4 DEF Advances, NoNext
    <2> QED
        BY <1>1, <1>2, <2>1 DEF tr
<1>5. CASE /\ tr.head # NULL /\ ~tr.sync
           /\ FromBucket(t, [tr EXCEPT !.sync = TRUE], bk + 1)
    <2>1. Advances(t, tr, [tr EXCEPT !.sync = TRUE])
        BY <1>2, <1>5, FromBucketAdvances
    <2> QED
        BY <1>1, <1>2, <2>1 DEF tr
<1>6. CASE /\ tr.head # NULL /\ tr.sync
           /\ \E i \in DOMAIN bk_array[bk] :
                 /\ bk_array[bk][i] = tr.head
                 /\ \/ i < Len(bk_array[bk]) /\ Visit(t, tr, bk, i + 1)
                    \/ i = Len(bk_array[bk]) /\ FromBucket(t, tr, bk + 1)
    <2>1. PICK i \in DOMAIN bk_array[bk] :
                 /\ bk_array[bk][i] = tr.head
                 /\ \/ i < Len(bk_array[bk]) /\ Visit(t, tr, bk, i + 1)
                    \/ i = Len(bk_array[bk]) /\ FromBucket(t, tr, bk + 1)
        BY <1>6
    <2>2. bk \in DOMAIN bk_array /\ bk_array[bk] \in Seq(Nodes)
        BY <1>2, <1>6 DEF Walked, IsArray
    <2>3. CASE i < Len(bk_array[bk]) /\ Visit(t, tr, bk, i + 1)
        <3>1. i + 1 \in DOMAIN bk_array[bk] /\ (i + 1) - 1 = i
            BY <2>2, <2>3
        <3>2. IsNext(tr, bk_array, bk, i + 1)
            BY <1>6, <2>1, <2>2, <3>1 DEF IsNext
        <3>3. Advances(t, tr, tr)
            BY <2>2, <2>3, <3>1, <3>2 DEF Advances
        <3> QED
            BY <1>1, <1>2, <3>3 DEF tr
    <2>4. CASE i = Len(bk_array[bk]) /\ FromBucket(t, tr, bk + 1)
        <3>1. Advances(t, tr, tr)
            BY <1>2, <1>6, <2>1, <2>4, FromBucketAdvances
        <3> QED
            BY <1>1, <1>2, <3>1 DEF tr
    <2> QED
        BY <2>1, <2>3, <2>4
<1> QED
    BY <1>3, <1>4, <1>5, <1>6 DEF HXumap_traverse, AfterChange, tr

(* HXumap_traverse keeps what was returned behind and the rest ahead. *)
LEMMA TraverseSeen ==
    ASSUME IndInv, SeenInv, NEW t \in Travs, HXumap_traverse(t) PROVE SeenInv'
<1> DEFINE tr == trav[t]
<1>1. /\ call.pc = "idle" /\ tr.st = "open" /\ UNCHANGED mapvars
      /\ Walked(tr, bk_array) /\ \E tr1 : Advances(t, tr, tr1)
    BY TraverseAdvances DEF Ready
<1>2. SeenOK(tr, "idle", bk_array, Allocated)
    BY <1>1 DEF SeenInv
<1>3. tr \in Traversers
    BY DEF IndInv, TypeOK
<1>4. PICK tr1 : Advances(t, tr, tr1)
    BY <1>1
<1>5. /\ tr1 \in Traversers /\ (tr.sync => tr1.sync) /\ tr1.st = tr.st
      /\ tr1.head = tr.head /\ tr1.bk_current = tr.bk_current
      /\ tr1.seen = tr.seen /\ tr1.must = tr.must
      /\ tr1.fresh = tr.fresh /\ tr1.moved = tr.moved
    BY <1>3, <1>4 DEF Advances, Traversers
<1> HIDE DEF tr
<1>6. CASE NoNext(tr, bk_array) /\ VisitEnd(t, tr1)
    <2> DEFINE tr2 == [tr1 EXCEPT !.st = "end", !.head = NULL, !.bk_current = 0]
    <2>1. tr2.st = "end" /\ tr2.fresh = tr.fresh /\ tr2.must = tr.must /\ tr2.seen = tr.seen
        BY <1>5 DEF Traversers
    <2>2. tr.fresh => tr.must \subseteq tr.seen
        BY <1>1, <1>2, <1>6, EndComplete DEF SeenOK
    <2>3. trav' = [trav EXCEPT ![t] = tr2]
        BY <1>6 DEF VisitEnd
    <2> HIDE DEF tr2
    <2>4. SeenOK(tr2, "idle", bk_array, Allocated)
        BY <2>1, <2>2 DEF SeenOK
    <2> QED
        BY <1>1, <2>3, <2>4, TravStepSeen
<1>7. CASE \E b \in DOMAIN bk_array : \E i \in DOMAIN bk_array[b] :
             IsNext(tr, bk_array, b, i) /\ Visit(t, tr1, b, i)
    <2>0. PICK b \in DOMAIN bk_array : \E i \in DOMAIN bk_array[b] :
             IsNext(tr, bk_array, b, i) /\ Visit(t, tr1, b, i)
        BY <1>7
    <2>1. PICK i \in DOMAIN bk_array[b] :
             IsNext(tr, bk_array, b, i) /\ Visit(t, tr1, b, i)
        BY <2>0
    <2> DEFINE n == bk_array[b][i]
               tr2 == [tr1 EXCEPT !.head = n, !.bk_current = b, !.seen = @ \cup {n}]
    <2>2. trav' = [trav EXCEPT ![t] = tr2]
        BY <2>1 DEF Visit
    <2>3. n \in Nodes /\ n \in Allocated
        <3>1. n \in Allocated
            BY DEF IndInv, Placement, WellPlaced
        <3> QED
            BY <3>1 DEF Allocated
    <2>4. /\ tr2.st = "open" /\ tr2.fresh = tr.fresh /\ tr2.moved = tr.moved
          /\ tr2.head = n /\ tr2.bk_current = b /\ tr2.must = tr.must
          /\ tr2.seen = tr.seen \cup {n} /\ (tr1.sync => tr2.sync)
        BY <1>1, <1>5 DEF Traversers
    <2> HIDE DEF tr2
    <2>5. ~tr.moved => BackOK(tr2, bk_array)
        BY <1>1, <1>2, <2>1, <2>4, NextBack DEF SeenOK
    <2>6. tr.fresh => AheadOK(tr2, bk_array)
        <3> HAVE tr.fresh
        <3>1. AheadOK(tr, bk_array)
            BY <1>1, <1>2 DEF SeenOK
        <3>2. tr2.sync
            BY <1>5, <2>4, <3>1 DEF AheadOK
        <3> QED
            BY <1>1, <2>1, <2>4, <3>1, <3>2, NextAhead
    <2>7. tr2.head # NULL /\ tr2.seen \subseteq Allocated
        BY <1>1, <1>2, <2>3, <2>4, NodesAssumption DEF SeenOK
    <2>8. SeenOK(tr2, "idle", bk_array, Allocated)
        BY <2>4, <2>5, <2>6, <2>7 DEF SeenOK
    <2> QED
        BY <1>1, <2>2, <2>8, TravStepSeen
<1> QED
    BY <1>4, <1>6, <1>7 DEF Advances

(* A new traverser has everything ahead of it. *)
LEMMA TravInitSeen ==
    ASSUME IndInv, SeenInv, NEW t \in Travs, HXmap_travinit(t) PROVE SeenInv'
<1> DEFINE tr == [st |-> "open", head |-> NULL, bk_current |-> 0, sync |-> TRUE,
                  seen |-> {}, must |-> Linked(bk_array), fresh |-> TRUE,
                  moved |-> FALSE]
<1>1. call.pc = "idle" /\ trav' = [trav EXCEPT ![t] = tr] /\ UNCHANGED mapvars
    BY DEF HXmap_travinit, Ready
<1>2. /\ tr.st = "open" /\ tr.head = NULL /\ tr.bk_current = 0 /\ tr.sync
      /\ tr.seen = {} /\ tr.must = Linked(bk_array)
    OBVIOUS
<1> HIDE DEF tr
<1>3. SeenOK(tr, "idle", bk_array, Allocated)
    BY <1>2 DEF SeenOK, AheadOK, BackOK, Coming
<1> QED
    BY <1>1, <1>3, TravStepSeen

(* A released traverser has nothing to account for. *)
LEMMA TravFreeSeen ==
    ASSUME IndInv, SeenInv, NEW t \in Travs, HXmap_travfree(t) PROVE SeenInv'
<1>1. call.pc = "idle" /\ trav' = [trav EXCEPT ![t] = NoTrav] /\ UNCHANGED mapvars
    BY DEF HXmap_travfree
<1>2. SeenOK(NoTrav, "idle", bk_array, Allocated)
    BY DEF NoTrav, SeenOK
<1> QED
    BY <1>1, <1>2, TravStepSeen

(* When a map is made or freed there are no traversers. *)
LEMMA LifeSeen ==
    ASSUME IndInv, SeenInv, HXhashmap_init4 \/ HXumap_free PROVE SeenInv'
<1>1. /\ UNCHANGED <<call, trav>> /\ call.pc = "idle"
      /\ \A t \in Travs : trav[t].st = "none"
    BY DEF HXhashmap_init4, HXumap_free, Ready, IndInv, TravOK, CallOK, TypeOK, Calls
<1> QED
    BY <1>1 DEF SeenInv, SeenOK

(* Every step keeps SeenInv. *)
LEMMA NextSeen ==
    ASSUME IndInv, SeenInv, [Next]_vars PROVE SeenInv'
<1>1. CASE HXhashmap_init4 \/ HXumap_free
    BY <1>1, LifeSeen
<1>2. CASE SetFlags \/ (\E k \in Keys : HXmap_get(k)) \/ UNCHANGED vars
    <2>1. UNCHANGED <<bk_array, node, call, trav>>
        BY <1>2 DEF SetFlags, HXmap_get, mapvars, vars
    <2>2. Allocated' = Allocated
        BY <2>1 DEF Allocated
    <2> QED
        BY <2>1, <2>2, SeenSame
<1>3. CASE \E k \in Keys : HXmap_del(k)
    BY <1>3, DelSeenAll
<1>4. CASE \E k \in Keys, v \in Data : HXmap_add(k, v)
    BY <1>4, AddSeen
<1>5. CASE HXumap_move \/ HXumap_layout
    BY <1>5, LayoutSeen
<1>6. CASE AddAfterLayout \/ DelAfterLayout
    BY <1>6, AddAfterLayoutSeen, DelAfterLayoutSeen
<1>7. CASE \E t \in Travs : HXmap_travinit(t) \/ HXumap_traverse(t) \/ HXmap_travfree(t)
    BY <1>7, TravInitSeen, TraverseSeen, TravFreeSeen
<1> QED
    BY <1>1, <1>2, <1>3, <1>4, <1>5, <1>6, <1>7 DEF Next

(* SeenInv holds together with IndInv. *)
LEMMA SeenAlways == Spec => [](IndInv /\ SeenInv)
<1>1. Init => IndInv /\ SeenInv
    <2> SUFFICES ASSUME Init PROVE SeenInv
        BY InitInv
    <2>1. call.pc = "idle" /\ \A t \in Travs : trav[t].st = "none"
        BY DEF Init, Idle, NoTrav
    <2> QED
        BY <2>1 DEF SeenInv, SeenOK
<1>2. IndInv /\ SeenInv /\ [Next]_vars => (IndInv /\ SeenInv)'
    BY NextInv, NextSeen
<1> QED
    BY <1>1, <1>2, PTL DEF Spec

(* A traversal during which tid does not change returns every entry that   *)
(* was there when it began, whatever is added meanwhile and however many   *)
(* other traversals are interleaved with it.                               *)
THEOREM TraversalsComplete == Spec => []TraversalComplete
<1>1. IndInv /\ SeenInv => TraversalComplete
    BY DEF SeenInv, SeenOK, TraversalComplete
<1> QED
    BY <1>1, SeenAlways, PTL

(* HXumap_traverse returns no entry twice as long as the table is not      *)
(* relaid out, although tid changes under it and nodes it has seen are     *)
(* freed and allocated again.                                              *)
THEOREM NeverRepeats == Spec => NoRepeat
<1>1. ASSUME IndInv, SeenInv, NEW t \in Travs, HXumap_traverse(t), ~trav[t].moved
      PROVE  trav'[t].head \notin trav[t].seen
    <2> DEFINE tr == trav[t]
    <2>1. /\ call.pc = "idle" /\ tr.st = "open"
          /\ Walked(tr, bk_array) /\ \E tr1 : Advances(t, tr, tr1)
        BY <1>1, TraverseAdvances DEF Ready
    <2>2. BackOK(tr, bk_array)
        BY <1>1, <2>1 DEF SeenInv, SeenOK
    <2>3. PICK tr1 : Advances(t, tr, tr1)
        BY <2>1
    <2>4. trav \in [Travs -> Traversers] /\ tr \in Traversers
        BY <1>1 DEF IndInv, TypeOK
    <2>5. tr1 \in Traversers
        BY <2>3, <2>4 DEF Advances, Traversers
    <2>6. CASE VisitEnd(t, tr1)
        <3>1. trav'[t].head = NULL
            BY <2>4, <2>5, <2>6 DEF VisitEnd, Traversers
        <3> QED
            BY <3>1, <2>4, NodesAssumption DEF Traversers
    <2>7. CASE \E b \in DOMAIN bk_array : \E i \in DOMAIN bk_array[b] :
                 IsNext(tr, bk_array, b, i) /\ Visit(t, tr1, b, i)
        <3>0. PICK b \in DOMAIN bk_array : \E i \in DOMAIN bk_array[b] :
                 IsNext(tr, bk_array, b, i) /\ Visit(t, tr1, b, i)
            BY <2>7
        <3>1. PICK i \in DOMAIN bk_array[b] :
                 IsNext(tr, bk_array, b, i) /\ Visit(t, tr1, b, i)
            BY <3>0
        <3>2. trav'[t].head = bk_array[b][i]
            BY <2>4, <2>5, <3>1 DEF Visit, Traversers
        <3> QED
            BY <3>1, <3>2, <2>1, <2>2, NextUnseen
    <2> QED
        BY <2>3, <2>6, <2>7 DEF Advances
<1>2. IndInv /\ SeenInv /\ [Next]_vars =>
        [\A t \in Travs : HXumap_traverse(t) /\ ~trav[t].moved
              => trav'[t].head \notin trav[t].seen]_vars
    BY <1>1
<1> QED
    BY <1>2, SeenAlways, PTL DEF Spec, NoRepeat

-----------------------------------------------------------------------------
(* The hash map implements the dictionary of HXmap.  First, the dictionary *)
(* the nodes stand for.                                                    *)

Present == {node[n].key : n \in Allocated}

(* When no key has two nodes, Dict maps each present key to the data of    *)
(* its node.                                                               *)
LEMMA DictFacts ==
    ASSUME UniqueKeys
    PROVE  /\ DOMAIN Dict = Present
           /\ \A n \in Allocated : Dict[node[n].key] = node[n].data
<1>1. DOMAIN Dict = Present
    BY DEF Dict, Present
<1>2. ASSUME NEW n \in Allocated PROVE Dict[node[n].key] = node[n].data
    <2>1. NodeFor(node[n].key) \in Allocated
          /\ node[NodeFor(node[n].key)].key = node[n].key
        BY DEF NodeFor
    <2>2. NodeFor(node[n].key) = n
        BY <2>1 DEF UniqueKeys
    <2>3. node[n].key \in Present
        BY DEF Present
    <2> QED
        BY <2>2, <2>3 DEF Dict, Present
<1> QED
    BY <1>1, <1>2

(* Steps that leave the nodes alone leave the dictionary alone. *)
LEMMA DictSame ==
    ASSUME node' = node PROVE Dict' = Dict
<1>1. Allocated' = Allocated
    BY DEF Allocated
<1>2. \A k : NodeFor(k)' = NodeFor(k)
    BY <1>1 DEF NodeFor
<1> QED
    BY <1>1, <1>2 DEF Dict

(* Without nodes the dictionary is empty. *)
LEMMA DictEmpty ==
    ASSUME Allocated = {} PROVE Dict = [k \in {} |-> NULL]
BY DEF Dict

(* HXmap_init and HXmap_free leave an empty dictionary. *)
LEMMA FreeIsEmpty ==
    ASSUME IndInv, HXhashmap_init4 \/ HXumap_free
    PROVE  Dict' = [k \in {} |-> NULL] /\ ret' = NoResult
<1>1. IndInv'
    BY LifeInv
<1>2. items' = 0 /\ ret' = NoResult /\ call'.fn # "del" /\ new_array' = EmptyArray(0)
      /\ bk_array' = EmptyArray(0)
    <2>1. call.pc = "idle"
        BY DEF HXhashmap_init4, HXumap_free, IndInv, CallOK, Ready, TypeOK, Calls
    <2> QED
        BY <2>1, IdleFacts DEF HXhashmap_init4, HXumap_free
<1>3. Linked(EmptyArray(0)) = {}
    BY EmptyArrayProps, PrimesAssumption
<1>4. Allocated' = {}
    BY <1>1, <1>2, <1>3 DEF IndInv, NothingLost, InTable
<1>5. (Allocated = {} => Dict = [k \in {} |-> NULL])'
    BY DictEmpty, PTL
<1> QED
    BY <1>2, <1>4, <1>5

(* Linking in a node with a new key adds one association. *)
LEMMA InsertIsAdd ==
    ASSUME IndInv, IndInv', NEW k \in Keys, NEW v \in Data, alive,
           \A n \in Allocated : node[n].key # k,
           Singular => v = NULL, Insert(k, v)
    PROVE  Map!AddNew(k, v)
<1>1. PICK nd \in Nodes \ Allocated : node' = [node EXCEPT ![nd] = [key |-> k, data |-> v]]
    BY DEF Insert
<1>2. /\ ret' = Result("add", k, v, "0") /\ UNCHANGED <<alive, noreplace>>
    BY DEF Insert
<1>3. node \in [Nodes -> [key : Keys \cup {NULL}, data : Data]]
    BY DEF IndInv, TypeOK
<1>4. /\ Allocated' = Allocated \cup {nd} /\ node'[nd].key = k /\ node'[nd].data = v
      /\ \A n \in Allocated : node'[n] = node[n]
    BY <1>1, <1>3, NodesAssumption DEF Allocated
<1>5. /\ DOMAIN Dict = Present
      /\ \A n \in Allocated : Dict[node[n].key] = node[n].data
    BY DictFacts DEF IndInv
<1>6. /\ DOMAIN Dict' = Present'
      /\ \A n \in Allocated' : Dict'[node'[n].key] = node'[n].data
    <2>1. UniqueKeys'
        BY DEF IndInv
    <2>2. UniqueKeys => /\ DOMAIN Dict = Present
                        /\ \A n \in Allocated : Dict[node[n].key] = node[n].data
        BY DictFacts
    <2>3. (UniqueKeys => /\ DOMAIN Dict = Present
                         /\ \A n \in Allocated : Dict[node[n].key] = node[n].data)'
        BY DictFacts, PTL
    <2> QED
        BY <2>1, <2>3
<1>7. k \notin DOMAIN Dict /\ Present' = Present \cup {k}
    BY <1>4, <1>5 DEF Present
<1>8. Dict' = [x \in DOMAIN Dict \cup {k} |-> IF x = k THEN v ELSE Dict[x]]
    <2>1. ASSUME NEW x \in Present' PROVE Dict'[x] = IF x = k THEN v ELSE Dict[x]
        <3>1. PICK n \in Allocated' : node'[n].key = x
            BY DEF Present
        <3>2. CASE n = nd
            BY <3>1, <3>2, <1>4, <1>6
        <3>3. CASE n \in Allocated
            <4>1. node'[n] = node[n] /\ x = node[n].key /\ x # k
                BY <3>1, <3>3, <1>4
            <4> QED
                BY <4>1, <3>3, <3>1, <1>5, <1>6
        <3> QED
            BY <3>2, <3>3, <1>4
    <2>2. Dict' = [x \in DOMAIN Dict' |-> Dict'[x]]
        BY DEF Dict
    <2> QED
        BY <2>1, <2>2, <1>5, <1>6, <1>7
<1>9. k \notin DOMAIN Dict
    BY <1>7
<1> QED
    BY <1>2, <1>8, <1>9 DEF Map!AddNew, Map!Result, Result

(* DictFacts in the next state. *)
LEMMA DictFactsNext ==
    ASSUME UniqueKeys'
    PROVE  /\ DOMAIN Dict' = Present'
           /\ \A n \in Allocated' : Dict'[node'[n].key] = node'[n].data
<1>1. (UniqueKeys => /\ DOMAIN Dict = Present
                     /\ \A n \in Allocated : Dict[node[n].key] = node[n].data)'
    BY DictFacts, PTL
<1> QED
    BY <1>1

(* HXumap_find answers from the dictionary. *)
LEMMA FindIsLookup ==
    ASSUME IndInv, Ready, NEW k \in Keys
    PROVE  /\ HXumap_find(k) = NULL <=> k \notin DOMAIN Dict
           /\ HXumap_find(k) # NULL => Dict[k] = node[HXumap_find(k)].data
<1>1. /\ DOMAIN Dict = Present
      /\ \A n \in Allocated : Dict[node[n].key] = node[n].data
    BY DictFacts DEF IndInv
<1>2. CASE HXumap_find(k) = NULL
    BY <1>1, <1>2, FindMiss DEF Present
<1>3. CASE HXumap_find(k) # NULL
    BY <1>1, <1>3, FindHit DEF Present
<1> QED
    BY <1>2, <1>3

(* HXumap_replace replaces, refuses or fails as the abstract map does. *)
LEMMA ReplaceIsReplace ==
    ASSUME IndInv, IndInv', Ready, NEW k \in Keys, NEW v \in Data,
           Singular => v = NULL, HXumap_find(k) # NULL, HXumap_replace(k, v)
    PROVE  Map!AddReplace(k, v) \/ Map!AddExists(k, v) \/ Map!AddNoMem(k, v)
<1>0. k \in DOMAIN Dict /\ alive
    BY FindIsLookup DEF Ready
<1>1. CASE noreplace /\ ret' = Result("add", k, v, "EEXIST") /\ UNCHANGED <<mapvars, trav>>
    <2>1. Dict' = Dict /\ UNCHANGED <<alive, noreplace>>
        BY <1>1, DictSame DEF mapvars
    <2> QED
        BY <2>1, <1>0, <1>1 DEF Map!AddExists, Map!Result, Result
<1>2. CASE ~noreplace /\ AddNoMem(k, v)
    <2>1. Dict' = Dict /\ UNCHANGED <<alive, noreplace>>
          /\ ret' = Result("add", k, v, "ENOMEM")
        BY <1>2, DictSame DEF AddNoMem
    <2> QED
        BY <2>1, <1>0, <1>2 DEF Map!AddNoMem, Map!Result, Result
<1>3. CASE /\ ~noreplace
           /\ node' = [node EXCEPT ![HXumap_find(k)].data = v]
           /\ ret' = Result("add", k, v, "0")
           /\ UNCHANGED <<alive, noreplace, power, bk_array, items,
                          new_array, call, trav>>
    <2> DEFINE nd == HXumap_find(k)
    <2>1. nd \in Allocated /\ node[nd].key = k /\ nd \in Nodes
        BY FindHit DEF Allocated
    <2>2. node \in [Nodes -> [key : Keys \cup {NULL}, data : Data]]
        BY DEF IndInv, TypeOK
    <2>3. node' = [node EXCEPT ![nd].data = v]
        BY <1>3
    <2> HIDE DEF nd
    <2>4. /\ \A n \in Nodes : node'[n].key = node[n].key
          /\ \A n \in Nodes : n # nd => node'[n] = node[n]
          /\ node'[nd].data = v
        BY <2>1, <2>2, <2>3
    <2>5. Allocated' = Allocated
        BY <2>4 DEF Allocated
    <2>5a. \A n \in Allocated : n \in Nodes
        BY DEF Allocated
    <2>6. /\ DOMAIN Dict = Present
          /\ \A n \in Allocated : Dict[node[n].key] = node[n].data
        BY DictFacts DEF IndInv
    <2>7. /\ DOMAIN Dict' = Present'
          /\ \A n \in Allocated' : Dict'[node'[n].key] = node'[n].data
        BY DictFactsNext DEF IndInv
    <2>8. Present' = Present
        BY <2>4, <2>5, <2>5a DEF Present
    <2>9. ASSUME NEW x \in Present PROVE Dict'[x] = IF x = k THEN v ELSE Dict[x]
        <3>1. PICK n \in Allocated : node[n].key = x
            BY DEF Present
        <3>2. CASE n = nd
            BY <3>1, <3>2, <2>1, <2>4, <2>5, <2>7
        <3>3. CASE n # nd
            <4>1. x # k
                BY <3>1, <3>3, <2>1 DEF IndInv, UniqueKeys
            <4>2. node'[n] = node[n]
                BY <3>3, <2>4, <2>5a
            <4> QED
                BY <4>1, <4>2, <3>1, <2>5, <2>6, <2>7
        <3> QED
            BY <3>2, <3>3
    <2>10. Dict' = [Dict EXCEPT ![k] = v]
        <3>1. Dict' = [x \in DOMAIN Dict' |-> Dict'[x]]
              /\ Dict = [x \in DOMAIN Dict |-> Dict[x]]
            BY DEF Dict
        <3> QED
            BY <3>1, <2>6, <2>7, <2>8, <2>9
    <2> QED
        BY <2>10, <1>0, <1>3 DEF Map!AddReplace, Map!Result, Result
<1> QED
    BY <1>1, <1>2, <1>3 DEF HXumap_replace

(* Freeing a node is deleting its key. *)
LEMMA FreeIsDel ==
    ASSUME IndInv, IndInv', alive, UNCHANGED <<alive, noreplace>>,
           NEW nd \in Allocated, NEW k, node[nd].key = k,
           node' = [node EXCEPT ![nd] = Freed],
           ret' = Result("del", k, node[nd].data, "0")
    PROVE  Map!DelHit(k)
<1>1. node \in [Nodes -> [key : Keys \cup {NULL}, data : Data]] /\ nd \in Nodes
    BY DEF IndInv, TypeOK, Allocated
<1>2. /\ \A n \in Nodes : n # nd => node'[n] = node[n]
      /\ Allocated' = Allocated \ {nd}
    BY <1>1 DEF Allocated, Freed
<1>3. /\ DOMAIN Dict = Present
      /\ \A n \in Allocated : Dict[node[n].key] = node[n].data
    BY DictFacts DEF IndInv
<1>4. /\ DOMAIN Dict' = Present'
      /\ \A n \in Allocated' : Dict'[node'[n].key] = node'[n].data
    BY DictFactsNext DEF IndInv
<1>5. \A n \in Allocated' : n \in Allocated /\ n # nd /\ node'[n] = node[n]
    BY <1>2 DEF Allocated
<1>6. \A n \in Allocated : n # nd => node[n].key # k
    BY DEF IndInv, UniqueKeys
<1>7. Present' = Present \ {k}
    BY <1>2, <1>5, <1>6 DEF Present
<1>8. ASSUME NEW x \in Present' PROVE Dict'[x] = Dict[x]
    <2>1. PICK n \in Allocated' : node'[n].key = x
        BY DEF Present
    <2> QED
        BY <2>1, <1>3, <1>4, <1>5
<1>9. Dict' = [x \in DOMAIN Dict \ {k} |-> Dict[x]]
    <2>1. Dict' = [x \in DOMAIN Dict' |-> Dict'[x]]
        BY DEF Dict
    <2> QED
        BY <2>1, <1>3, <1>4, <1>7, <1>8
<1>10. k \in DOMAIN Dict /\ Dict[k] = node[nd].data
    BY <1>3 DEF Present
<1> QED
    BY <1>9, <1>10 DEF Map!DelHit, Map!Result, Result

(* HXmap_add is an addition of the abstract map, or a step that starts a   *)
(* relayout.                                                               *)
LEMMA AddIsAdd ==
    ASSUME IndInv, IndInv', NEW k \in Keys, NEW v \in Data, HXmap_add(k, v)
    PROVE  \/ Map!AddNew(k, v) \/ Map!AddReplace(k, v) \/ Map!AddExists(k, v)
           \/ Map!AddInval(k, v) \/ Map!AddNoMem(k, v)
           \/ UNCHANGED Map!vars
<1>1. Ready /\ alive
    BY DEF HXmap_add, Ready
<1>2. CASE /\ Singular /\ v # NULL
           /\ ret' = Result("add", k, v, "EINVAL") /\ UNCHANGED <<mapvars, trav>>
    <2>1. Dict' = Dict /\ UNCHANGED <<alive, noreplace>>
        BY <1>2, DictSame DEF mapvars
    <2> QED
        BY <2>1, <1>1, <1>2 DEF Map!AddInval, Map!Result, Result
<1>3. CASE (Singular => v = NULL) /\ HXumap_find(k) # NULL /\ HXumap_replace(k, v)
    BY <1>1, <1>3, ReplaceIsReplace
<1>4. CASE (Singular => v = NULL) /\ HXumap_find(k) = NULL /\ AddNoMem(k, v)
    <2>1. Dict' = Dict /\ UNCHANGED <<alive, noreplace>>
          /\ ret' = Result("add", k, v, "ENOMEM")
        BY <1>4, DictSame DEF AddNoMem
    <2>2. k \notin DOMAIN Dict
        BY <1>1, <1>4, FindIsLookup
    <2> QED
        BY <2>1, <2>2, <1>1, <1>4 DEF Map!AddNoMem, Map!Result, Result
<1>5. CASE UNCHANGED <<alive, noreplace, power, bk_array, node, items, trav, ret>>
    <2>1. Dict' = Dict
        BY <1>5, DictSame
    <2> QED
        BY <2>1, <1>5 DEF Map!vars
<1>6. CASE (Singular => v = NULL) /\ HXumap_find(k) = NULL /\ Insert(k, v)
    <2>1. \A n \in Allocated : node[n].key # k
        BY <1>1, <1>6, FindMiss
    <2> QED
        BY <2>1, <1>1, <1>6, InsertIsAdd
<1> QED
    BY <1>2, <1>3, <1>4, <1>5, <1>6 DEF HXmap_add

(* The rest of HXumap_add after the relayout is the addition. *)
LEMMA AddRestIsAdd ==
    ASSUME IndInv, IndInv', AddAfterLayout
    PROVE  \E k \in Keys, v \in Data : Map!AddNew(k, v) \/ Map!AddNoMem(k, v)
<1>1. /\ call.pc = "insert" /\ call.fn = "add" /\ alive /\ call.key \in Keys
      /\ call.val \in Data /\ (Singular => call.val = NULL)
      /\ \A n \in Allocated : node[n].key # call.key
    BY DEF AddAfterLayout, IndInv, CallOK, TypeOK, Calls
<1>2. CASE Insert(call.key, call.val)
    BY <1>1, <1>2, InsertIsAdd
<1>3. CASE AddNoMem(call.key, call.val)
    <2>1. Dict' = Dict /\ UNCHANGED <<alive, noreplace>>
          /\ ret' = Result("add", call.key, call.val, "ENOMEM")
        BY <1>3, DictSame DEF AddNoMem
    <2>2. call.key \notin DOMAIN Dict
        BY <1>1, DictFacts DEF IndInv, Present
    <2> QED
        BY <2>1, <2>2, <1>1 DEF Map!AddNoMem, Map!Result, Result
<1> QED
    BY <1>2, <1>3 DEF AddAfterLayout

(* HXmap_del is a deletion of the abstract map, or a step that starts a    *)
(* relayout.                                                               *)
LEMMA DelIsDel ==
    ASSUME IndInv, IndInv', NEW k \in Keys, HXmap_del(k)
    PROVE  Map!DelHit(k) \/ Map!DelMiss(k) \/ UNCHANGED Map!vars
<1>1. Ready /\ alive
    BY DEF HXmap_del, Ready
<1>2. CASE /\ Matches(k) = {}
           /\ ret' = Result("del", k, NULL, "ENOENT") /\ UNCHANGED <<mapvars, trav>>
    <2>1. Dict' = Dict /\ UNCHANGED <<alive, noreplace>>
        BY <1>2, DictSame DEF mapvars
    <2>2. k \notin DOMAIN Dict
        BY <1>1, <1>2, FindIsLookup DEF HXumap_find
    <2> QED
        BY <2>1, <2>2, <1>1, <1>2 DEF Map!DelMiss, Map!Result, Result
<1>3. ASSUME NEW i \in Matches(k), DelEntry(k, i)
      PROVE  Map!DelHit(k) \/ UNCHANGED Map!vars
    <2> DEFINE nd == bk_array[BucketOf(k, power)][i]
    <2>1. nd \in Allocated /\ node[nd].key = k
        BY <1>1, MatchFacts
    <2>2. UNCHANGED <<alive, noreplace>>
        BY <1>3 DEF DelEntry
    <2>3. CASE UNCHANGED <<node, ret>>
        BY <2>2, <2>3, DictSame DEF Map!vars
    <2>4. CASE FreeNode(nd, k, node[nd].data)
        <3> HIDE DEF nd
        <3>1. /\ node' = [node EXCEPT ![nd] = Freed]
              /\ ret' = Result("del", k, node[nd].data, "0")
            BY <2>4 DEF FreeNode
        <3> QED
            BY <3>1, <2>1, <2>2, <1>1, FreeIsDel
    <2> QED
        BY <1>3, <2>3, <2>4 DEF DelEntry
<1> QED
    BY <1>2, <1>3 DEF HXmap_del

(* The rest of HXumap_del after the relayout is the deletion. *)
LEMMA DelRestIsDel ==
    ASSUME IndInv, IndInv', DelAfterLayout
    PROVE  \E k \in Keys : Map!DelHit(k)
<1>1. /\ call.pc = "free" /\ call.fn = "del" /\ alive /\ call.key \in Keys
      /\ call.nd \in Allocated /\ node[call.nd].key = call.key
    BY DEF DelAfterLayout, IndInv, CallOK
<1>2. /\ node' = [node EXCEPT ![call.nd] = Freed]
      /\ ret' = Result("del", call.key, node[call.nd].data, "0")
      /\ UNCHANGED <<alive, noreplace>>
    BY DEF DelAfterLayout, FreeNode
<1> QED
    BY <1>1, <1>2, FreeIsDel

(* HXumap_traverse returns an association the dictionary has, or the end. *)
LEMMA TraverseIsTraverse ==
    ASSUME IndInv, NEW t \in Travs, HXumap_traverse(t)
    PROVE  (\E k \in Keys : Map!TraverseNode(k)) \/ Map!TraverseEnd
<1> DEFINE tr == trav[t]
           bk == tr.bk_current
<1>1. Ready /\ alive /\ UNCHANGED mapvars
    BY DEF HXumap_traverse, Ready
<1>2. Dict' = Dict /\ UNCHANGED <<alive, noreplace>>
    BY <1>1, DictSame DEF mapvars
<1>3. ASSUME NEW x, NEW b \in DOMAIN bk_array, NEW i \in DOMAIN bk_array[b],
             Visit(t, x, b, i)
      PROVE  \E k \in Keys : Map!TraverseNode(k)
    <2> DEFINE n == bk_array[b][i]
    <2>1. n \in Allocated
        BY DEF IndInv, Placement, WellPlaced
    <2>2. node[n].key \in Keys
        BY <2>1 DEF Allocated, IndInv, TypeOK
    <2>3. node[n].key \in DOMAIN Dict /\ Dict[node[n].key] = node[n].data
        BY <2>1, DictFacts DEF IndInv, Present
    <2>4. ret' = Result("traverse", node[n].key, node[n].data, "0")
        BY <1>3 DEF Visit
    <2> HIDE DEF n
    <2>5. Map!TraverseNode(node[n].key)
        BY <2>3, <2>4, <1>1, <1>2 DEF Map!TraverseNode, Map!Result, Result
    <2> QED
        BY <2>2, <2>5
<1>4. ASSUME NEW x, VisitEnd(t, x) PROVE Map!TraverseEnd
    BY <1>1, <1>2, <1>4 DEF VisitEnd, Map!TraverseEnd, Map!Result, Result
<1>5. ASSUME NEW x, NEW lo, FromBucket(t, x, lo)
      PROVE  (\E k \in Keys : Map!TraverseNode(k)) \/ Map!TraverseEnd
    <2>1. CASE VisitEnd(t, x)
        BY <2>1, <1>4
    <2>2. ASSUME NEW b \in DOMAIN bk_array, IsFirstInUse(bk_array, lo, b),
                 Visit(t, x, b, 1)
          PROVE  \E k \in Keys : Map!TraverseNode(k)
        <3>1. bk_array[b] \in Seq(Nodes) /\ bk_array[b] # <<>>
            BY <2>2, <1>1, IdleFacts DEF IsArray, IsFirstInUse, Ready
        <3>2. 1 \in DOMAIN bk_array[b]
            BY <3>1
        <3> QED
            BY <2>2, <3>2, <1>3
    <2> QED
        BY <1>5, <2>1, <2>2 DEF FromBucket
<1>6. ASSUME tr.head # NULL, tr.sync, tr.st = "open",
             NEW i \in DOMAIN bk_array[bk],
             \/ i < Len(bk_array[bk]) /\ Visit(t, tr, bk, i + 1)
             \/ i = Len(bk_array[bk]) /\ FromBucket(t, tr, bk + 1)
      PROVE  (\E k \in Keys : Map!TraverseNode(k)) \/ Map!TraverseEnd
    <2>1. bk \in DOMAIN bk_array
        BY <1>1, <1>6 DEF IndInv, HeadLinked
    <2>2. bk_array[bk] \in Seq(Nodes)
        BY <2>1, <1>1, IdleFacts DEF IsArray, Ready
    <2>3. CASE i < Len(bk_array[bk]) /\ Visit(t, tr, bk, i + 1)
        <3>1. i + 1 \in DOMAIN bk_array[bk]
            BY <2>2, <2>3
        <3> QED
            BY <2>1, <2>3, <3>1, <1>3
    <2>4. CASE FromBucket(t, tr, bk + 1)
        BY <2>4, <1>5
    <2> QED
        BY <1>6, <2>3, <2>4
<1> QED
    BY <1>4, <1>5, <1>6 DEF HXumap_traverse, AfterChange

(* Every step of the hash map is a step of the abstract map or leaves it   *)
(* as it is.                                                               *)
LEMMA StepIsStep ==
    ASSUME IndInv, IndInv', [Next]_vars PROVE [Map!Next]_(Map!vars)
<1>1. CASE HXhashmap_init4
    BY <1>1, FreeIsEmpty DEF HXhashmap_init4, Map!Next, Map!MapInit,
                             Map!NoResult, Map!Result, NoResult, Result
<1>2. CASE HXumap_free
    BY <1>2, FreeIsEmpty DEF HXumap_free, Ready, Map!Next, Map!MapFree,
                             Map!NoResult, Map!Result, NoResult, Result
<1>3. CASE SetFlags
    <2>1. Map!SetFlags
        BY <1>3, DictSame DEF SetFlags, Ready, Map!SetFlags
    <2> QED
        BY <2>1 DEF Map!Next
<1>4. ASSUME NEW k \in Keys, HXmap_get(k) PROVE Map!Next
    <2>1. Ready /\ alive /\ Dict' = Dict /\ UNCHANGED <<alive, noreplace>>
        BY <1>4, DictSame DEF HXmap_get, mapvars, Ready
    <2>2. Map!Get(k)
        BY <1>4, <2>1, FindIsLookup DEF HXmap_get, Map!Get, Map!Result, Result
    <2> QED
        BY <2>2 DEF Map!Next
<1>5. ASSUME NEW k \in Keys, HXmap_del(k) PROVE [Map!Next]_(Map!vars)
    BY <1>5, DelIsDel DEF Map!Next
<1>6. ASSUME NEW k \in Keys, NEW v \in Data, HXmap_add(k, v)
      PROVE  [Map!Next]_(Map!vars)
    BY <1>6, AddIsAdd DEF Map!Next, Map!Data, Data
<1>7. CASE UNCHANGED <<alive, noreplace, node, ret>>
    BY <1>7, DictSame DEF Map!vars
<1>8. CASE AddAfterLayout
    BY <1>8, AddRestIsAdd DEF Map!Next, Map!Data, Data
<1>9. CASE DelAfterLayout
    BY <1>9, DelRestIsDel DEF Map!Next
<1>10. ASSUME NEW t \in Travs, HXumap_traverse(t) PROVE Map!Next
    BY <1>10, TraverseIsTraverse DEF Map!Next
<1>11. CASE \/ HXumap_move \/ HXumap_layout \/ UNCHANGED vars
            \/ \E t \in Travs : HXmap_travinit(t) \/ HXmap_travfree(t)
    BY <1>7, <1>11 DEF HXumap_move, HXumap_layout, HXmap_travinit,
                       HXmap_travfree, mapvars, vars
<1> QED
    BY <1>1, <1>2, <1>3, <1>4, <1>5, <1>6, <1>8, <1>9, <1>10, <1>11 DEF Next

(* The hash map implements the dictionary: HXmap_add, HXmap_get,           *)
(* HXmap_del and HXmap_traverse on a table that grows, shrinks and runs    *)
(* out of memory give the results HXmap specifies.                         *)
THEOREM Refinement == Spec => ImplementsMap
<1>1. Init => Map!Init
    <2> SUFFICES ASSUME Init PROVE Map!Init
        OBVIOUS
    <2>1. Allocated = {}
        BY DEF Init, Allocated, Freed
    <2>2. Dict = [k \in {} |-> NULL]
        BY <2>1, DictEmpty
    <2> QED
        BY <2>2 DEF Init, Map!Init, Map!NoResult, Map!Result, NoResult, Result
<1>2. IndInv /\ IndInv' /\ [Next]_vars => [Map!Next]_(Map!vars)
    BY StepIsStep
<1> QED
    BY <1>1, <1>2, Invariance, PTL DEF Spec, ImplementsMap, Map!Spec

=============================================================================
