--------------------------- MODULE HXbase_proofs ----------------------------
(***************************************************************************)
(* The library's base: its users (init.c), its times (time.c), its         *)
(* sockets (socket.c) and its resolution of paths (io.c).                  *)
(*                                                                         *)
(* HX_use_count counts the users, for any number of threads.  UsersCounted *)
(* is not inductive: a thread that has read HX_use_count must still find   *)
(* it there when it stores.  IndInv adds that, the reason for it (between  *)
(* Lock and Store the thread owns the mutex), and that a thread in HX_init *)
(* still has room for the reference it is to get.                          *)
(*                                                                         *)
(* Time arithmetic is exact.  The invariant is that the accumulator is the *)
(* normal form of its time; that each operation keeps it so is a fact      *)
(* about division that rounds towards zero.                                *)
(*                                                                         *)
(* What the calls of socket.c return, and who has the local address, is    *)
(* proved for any number of processes, addresses and inherited             *)
(* descriptors.                                                            *)
(*                                                                         *)
(* HX_realpath is compared with the kernel's walk, a recursive function.   *)
(* That there is such a function, and one only, comes first: of the walks  *)
(* without one, ordered by links and components left, none is least.       *)
(***************************************************************************)
EXTENDS HXinit, HXtime, HXsocket, HXrealpath, FiniteSetTheorems, SequenceTheorems,
        WellFoundedInduction, TLAPS

TypeOK ==
    /\ HX_use_count \in Nat
    /\ HX_init_lock \in Threads \cup {NoThread}
    /\ pc \in [Threads -> {"idle", "lock", "test", "store"}]
    /\ op \in [Threads -> {"init", "exit"}]
    /\ tmp \in [Threads -> Nat]
    /\ held \in [Threads -> 0 .. MaxHeld]
    /\ stolen \in Int

(* Who is between lock and unlock is the owner of the mutex. *)
Exclusive == \A t \in Threads : pc[t] \in {"test", "store"} => HX_init_lock = t

(* What was read is what is there. *)
ReadFresh == \A t \in Threads : pc[t] = "store" => tmp[t] = HX_use_count

Room == \A t \in Threads : pc[t] # "idle" /\ op[t] = "init" => held[t] < MaxHeld

IndInv == TypeOK /\ Exclusive /\ ReadFresh /\ Room /\ HX_use_count + stolen = Users

-----------------------------------------------------------------------------
(* The references of a state, as a set that depends on held only. *)
RefsOf(h) == {x \in Threads \X (1 .. MaxHeld) : x[2] <= h[x[1]]}

(* Users is a number. *)
LEMMA UsersFinite ==
    ASSUME ThreadsAssumption, NEW h \in [Threads -> 0 .. MaxHeld]
    PROVE  IsFiniteSet(RefsOf(h)) /\ Cardinality(RefsOf(h)) \in Nat
<1>0. IsFiniteSet(1 .. MaxHeld)
  BY FS_Interval DEF ThreadsAssumption
<1>1. IsFiniteSet(Threads \X (1 .. MaxHeld))
  BY <1>0, FS_Product DEF ThreadsAssumption
<1>2. IsFiniteSet(RefsOf(h))
  BY <1>1, FS_Subset DEF RefsOf
<1> QED BY <1>2, FS_CardinalityType

(* One reference more or less changes Users by one. *)
LEMMA OneMore ==
    ASSUME ThreadsAssumption, NEW h \in [Threads -> 0 .. MaxHeld], NEW t \in Threads,
           h[t] < MaxHeld
    PROVE  Cardinality(RefsOf([h EXCEPT ![t] = @ + 1])) = Cardinality(RefsOf(h)) + 1
<1> DEFINE g == [h EXCEPT ![t] = @ + 1]
<1> DEFINE x == <<t, h[t] + 1>>
<1>0. MaxHeld \in Nat /\ h[t] \in 0 .. MaxHeld
  BY DEF ThreadsAssumption
<1>1. x \notin RefsOf(h)
  BY <1>0 DEF RefsOf
<1>2. RefsOf(g) = RefsOf(h) \cup {x}
  <2>1. ASSUME NEW y \in Threads \X (1 .. MaxHeld)
        PROVE  y[2] <= g[y[1]] <=> y[2] <= h[y[1]] \/ y = x
    BY <1>0
  <2>2. x \in Threads \X (1 .. MaxHeld)
    BY <1>0
  <2> QED BY <2>1, <2>2 DEF RefsOf
<1> QED BY <1>1, <1>2, UsersFinite, FS_AddElement

LEMMA OneLess ==
    ASSUME ThreadsAssumption, NEW h \in [Threads -> 0 .. MaxHeld], NEW t \in Threads,
           h[t] > 0
    PROVE  Cardinality(RefsOf([h EXCEPT ![t] = @ - 1])) = Cardinality(RefsOf(h)) - 1
<1> DEFINE g == [h EXCEPT ![t] = @ - 1]
<1>0. MaxHeld \in Nat /\ h[t] \in 0 .. MaxHeld
  BY DEF ThreadsAssumption
<1>1. g \in [Threads -> 0 .. MaxHeld] /\ g[t] < MaxHeld
  BY <1>0
<1>2. h = [g EXCEPT ![t] = @ + 1]
  <2>1. ASSUME NEW u \in Threads PROVE h[u] = [g EXCEPT ![t] = @ + 1][u]
    BY <1>0
  <2>2. DOMAIN h = Threads /\ DOMAIN [g EXCEPT ![t] = @ + 1] = Threads
    OBVIOUS
  <2> QED BY <2>1, <2>2
<1>3. Cardinality(RefsOf(g)) \in Nat
  BY <1>1, UsersFinite
<1> HIDE DEF g
<1>4. Cardinality(RefsOf(h)) = Cardinality(RefsOf(g)) + 1
  BY <1>1, <1>2, OneMore
<1> QED BY <1>3, <1>4 DEF g

-----------------------------------------------------------------------------
LEMMA InitInv == ASSUME ThreadsAssumption, UseInit PROVE IndInv
<1>1. held \in [Threads -> 0 .. MaxHeld]
  BY DEF UseInit, ThreadsAssumption
<1>2. References = {}
  BY DEF UseInit, References, ThreadsAssumption
<1>3. Users = 0
  BY <1>2, FS_EmptySet DEF Users
<1> QED BY <1>1, <1>3 DEF UseInit, IndInv, TypeOK, Exclusive, ReadFresh, Room

(* The step that writes the count is the one that changes the users. *)
LEMMA StoreInv ==
    ASSUME ThreadsAssumption, IndInv, NEW t \in Threads, Store(t)
    PROVE  IndInv'
<1> USE DEF IndInv
<1>0. /\ MaxHeld \in Nat
      /\ held \in [Threads -> 0 .. MaxHeld]
      /\ held[t] \in 0 .. MaxHeld
      /\ tmp[t] = HX_use_count
      /\ HX_use_count \in Nat
      /\ stolen \in Int
      /\ op[t] \in {"init", "exit"}
      /\ Users = Cardinality(RefsOf(held)) /\ Users' = Cardinality(RefsOf(held'))
      /\ Users \in Nat
      /\ HX_use_count + stolen = Users
  BY UsersFinite DEF ThreadsAssumption, TypeOK, ReadFresh, Store, Users, References, RefsOf
<1>1. /\ HX_use_count' \in Nat
      /\ held' \in [Threads -> 0 .. MaxHeld]
      /\ stolen' \in Int
      /\ HX_use_count' + stolen' = Users'
  <2>1. CASE op[t] = "init"
    <3>1. held[t] < MaxHeld
      BY <2>1 DEF Room, Store
    <3>2. /\ HX_use_count' = HX_use_count + 1
          /\ held' = [held EXCEPT ![t] = @ + 1]
          /\ stolen' = stolen
      BY <1>0, <2>1 DEF Store
    <3>3. Users' = Users + 1
      BY <1>0, <3>1, <3>2, OneMore
    <3>4. held' \in [Threads -> 0 .. MaxHeld]
      BY <1>0, <3>1, <3>2
    <3> QED BY <1>0, <3>2, <3>3, <3>4
  <2>2. CASE op[t] = "exit" /\ held[t] > 0
    <3>1. held' = [held EXCEPT ![t] = @ - 1]
      BY <1>0, <2>2 DEF Store
    <3>2. Users' = Users - 1
      BY <1>0, <2>2, <3>1, OneLess
    <3>3. /\ HX_use_count' \in Nat
          /\ stolen' \in Int
          /\ HX_use_count' + stolen' = (HX_use_count + stolen) - 1
      BY <1>0, <2>2 DEF Store
    <3>4. held' \in [Threads -> 0 .. MaxHeld]
      BY <1>0, <2>2, <3>1
    <3> QED BY <1>0, <3>2, <3>3, <3>4
  <2>3. CASE op[t] = "exit" /\ held[t] = 0
    <3>1. held' = held
      BY <1>0, <2>3 DEF Store
    <3>2. /\ HX_use_count' \in Nat
          /\ stolen' \in Int
          /\ HX_use_count' + stolen' = HX_use_count + stolen
      BY <1>0, <2>3 DEF Store
    <3> QED BY <1>0, <3>1, <3>2
  <2> QED BY <1>0, <2>1, <2>2, <2>3
<1>2. TypeOK'
  BY <1>1 DEF TypeOK, Store
<1>3. \A u \in Threads : u # t => pc[u] \notin {"test", "store"}
  BY DEF Exclusive, Store, TypeOK
<1>4. Exclusive' /\ ReadFresh'
  BY <1>3 DEF Exclusive, ReadFresh, Store, TypeOK
<1>5. Room'
  <2>1. \A u \in Threads : u # t => pc'[u] = pc[u] /\ op'[u] = op[u] /\ held'[u] = held[u]
    BY DEF Store, TypeOK
  <2>2. pc'[t] = "idle"
    BY DEF Store, TypeOK
  <2> QED BY <2>1, <2>2 DEF Room
<1> QED BY <1>1, <1>2, <1>4, <1>5

(* The other steps leave the count and the users alone. *)
LEMMA NextInv == ASSUME ThreadsAssumption, IndInv, [UseNext]_usevars PROVE IndInv'
<1> USE DEF IndInv
<1>1. ASSUME NEW t \in Threads, NEW o \in {"init", "exit"}, Call(t, o) PROVE IndInv'
  <2>1. Users' = Users
    BY <1>1 DEF Call, Users, References
  <2>2. TypeOK' /\ Exclusive' /\ ReadFresh'
    BY <1>1 DEF Call, TypeOK, Exclusive, ReadFresh
  <2>3. Room'
    BY <1>1 DEF Call, TypeOK, Room
  <2> QED BY <1>1, <2>1, <2>2, <2>3 DEF Call
<1>2. ASSUME NEW t \in Threads, Lock(t) PROVE IndInv'
  <2>1. Users' = Users
    BY <1>2 DEF Lock, Users, References
  <2>2. TypeOK' /\ ReadFresh' /\ Room'
    BY <1>2 DEF Lock, TypeOK, ReadFresh, Room
  <2>3. Exclusive'
    BY <1>2 DEF Lock, TypeOK, Exclusive, ThreadsAssumption
  <2> QED BY <1>2, <2>1, <2>2, <2>3 DEF Lock
<1>3. ASSUME NEW t \in Threads, Test(t) PROVE IndInv'
  <2>1. Users' = Users
    BY <1>3 DEF Test, Users, References
  <2>2. TypeOK' /\ ReadFresh' /\ Room' /\ Exclusive'
    BY <1>3 DEF Test, TypeOK, ReadFresh, Room, Exclusive
  <2> QED BY <1>3, <2>1, <2>2 DEF Test
<1>4. ASSUME NEW t \in Threads, Store(t) PROVE IndInv'
  BY <1>4, StoreInv
<1>5. CASE UNCHANGED usevars
  BY <1>5 DEF usevars, TypeOK, Exclusive, ReadFresh, Room, Users, References
<1> QED BY <1>1, <1>2, <1>3, <1>4, <1>5 DEF UseNext

(* HX_use_count is the number of users, less those whose reference an      *)
(* HX_exit too many took, and srand is called only while there is none,    *)
(* for any number of threads and any interleaving of HX_init and HX_exit.  *)
THEOREM CountsUsers == ASSUME ThreadsAssumption PROVE UseSpec => []UsersCounted
<1>1. UseInit => IndInv
  BY InitInv
<1>2. IndInv /\ [UseNext]_usevars => IndInv'
  BY NextInv
<1>3. IndInv => UsersCounted
  <2> SUFFICES ASSUME IndInv PROVE UsersCounted
    OBVIOUS
  <2>1. Users \in Nat
    BY UsersFinite DEF IndInv, TypeOK, Users, References, RefsOf
  <2> QED BY <2>1 DEF IndInv, TypeOK, ReadFresh, UsersCounted
<1> QED BY <1>1, <1>2, <1>3, PTL DEF UseSpec

-----------------------------------------------------------------------------
(* Division of integers by a positive number: it is its quotient times    *)
(* the number, and the remainder.                                          *)
LEMMA DivMod ==
    ASSUME NEW b \in Nat \ {0}, NEW a \in Int
    PROVE  a \div b \in Int /\ a % b \in 0 .. b - 1 /\ a = b * (a \div b) + (a % b)
OBVIOUS

LEMMA Apart ==
    ASSUME NEW b \in Nat \ {0}, NEW x \in Int, NEW y \in Int, x >= y + 1
    PROVE  b * x \in Int /\ b * y \in Int /\ b * x >= b * y + b
OBVIOUS

(* The quotient and the remainder of C, whose signs are those of a. *)
LEMMA QuoRem ==
    ASSUME NEW b \in Nat \ {0}, NEW a \in Int
    PROVE  /\ Quo(a, b) \in Int /\ Rem(a, b) \in Int
           /\ b * Quo(a, b) \in Int
           /\ a = b * Quo(a, b) + Rem(a, b)
           /\ a >= 0 => Quo(a, b) >= 0 /\ Rem(a, b) \in 0 .. b - 1
           /\ a <= 0 => Quo(a, b) <= 0 /\ -Rem(a, b) \in 0 .. b - 1
<1>1. CASE a >= 0
  <2> DEFINE q == a \div b
  <2>1. q \in Int /\ a - b * q \in 0 .. b - 1
    BY DivMod
  <2>2. Quo(a, b) = q /\ Rem(a, b) = a - b * q
    BY <1>1 DEF Quo, Rem
  <2> HIDE DEF q
  <2>3. q >= 0
    <3> SUFFICES ASSUME 0 >= q + 1 PROVE FALSE
      BY <2>1
    <3>1. b * 0 >= b * q + b
      BY <2>1, Apart
    <3> QED BY <1>1, <2>1, <3>1
  <2>4. a = 0 => q = 0
    <3> SUFFICES ASSUME a = 0, q >= 0 + 1 PROVE FALSE
      BY <2>1, <2>3
    <3>1. b * q >= b * 0 + b
      BY <2>1, Apart
    <3> QED BY <1>1, <2>1, <3>1
  <2> QED BY <1>1, <2>1, <2>2, <2>3, <2>4
<1>2. CASE a < 0
  <2> DEFINE c == -a
  <2> DEFINE q == c \div b
  <2>0. c \in Int /\ c > 0
    BY <1>2
  <2>1. q \in Int /\ c - b * q \in 0 .. b - 1
    BY <2>0, DivMod
  <2>2. Quo(a, b) = -q /\ Rem(a, b) = a - b * (-q)
    BY <1>2 DEF Quo, Rem
  <2> HIDE DEF q
  <2>3. q >= 0
    <3> SUFFICES ASSUME 0 >= q + 1 PROVE FALSE
      BY <2>1
    <3>1. b * 0 >= b * q + b
      BY <2>1, Apart
    <3> QED BY <2>0, <2>1, <3>1
  <2>4. b * (-q) = -(b * q) /\ b * q \in Int
    BY <2>1
  <2>5. a = -c
    BY <2>0
  <2> QED BY <1>2, <2>0, <2>1, <2>2, <2>3, <2>4, <2>5
<1> QED BY <1>1, <1>2

(* Negation goes through. *)
LEMMA QuoRemNeg ==
    ASSUME NEW b \in Nat \ {0}, NEW a \in Int
    PROVE  Quo(-a, b) = -Quo(a, b) /\ Rem(-a, b) = -Rem(a, b)
<1>1. Quo(-a, b) = -Quo(a, b)
  <2>1. CASE a = 0
    <3>1. Quo(a, b) \in Int /\ Quo(a, b) >= 0 /\ Quo(a, b) <= 0
      BY <2>1, QuoRem
    <3>2. -Quo(a, b) = Quo(a, b)
      BY <3>1
    <3>3. a <= 0 /\ a >= 0
      BY <2>1
    <3>4. -a = a
      BY <3>3
    <3> QED BY <3>2, <3>4
  <2>2. CASE a > 0
    <3>1. Quo(a, b) = a \div b /\ -(-a) = a /\ ~(-a >= 0)
      BY <2>2 DEF Quo
    <3> QED BY <3>1 DEF Quo
  <2>3. CASE a < 0
    <3>1. Quo(a, b) = -((-a) \div b) /\ -a >= 0
      BY <2>3 DEF Quo
    <3>2. Quo(-a, b) = (-a) \div b
      BY <3>1 DEF Quo
    <3>3. (-a) \div b \in Int
      BY DivMod
    <3> QED BY <3>1, <3>2, <3>3
  <2> QED BY <2>1, <2>2, <2>3
<1> DEFINE q == Quo(a, b)
<1>2. q \in Int /\ b * q \in Int /\ b * (-q) = -(b * q)
  BY QuoRem
<1> HIDE DEF q
<1>3. Rem(-a, b) = (-a) - b * (-q) /\ Rem(a, b) = a - b * q
  BY <1>1 DEF Rem, q
<1> QED BY <1>1, <1>2, <1>3

(* The quotient is negative from -b downwards and positive from b upwards. *)
LEMMA QuoSign ==
    ASSUME NEW b \in Nat \ {0}, NEW a \in Int
    PROVE  /\ Quo(a, b) < 0 <=> a <= -b
           /\ Quo(a, b) > 0 <=> a >= b
<1> DEFINE q == Quo(a, b)
<1> DEFINE m == Rem(a, b)
<1>1. /\ q \in Int /\ m \in Int /\ b * q \in Int /\ a = b * q + m
      /\ a >= 0 => q >= 0 /\ m \in 0 .. b - 1
      /\ a <= 0 => q <= 0 /\ -m \in 0 .. b - 1
  BY QuoRem
<1> HIDE DEF q, m
<1>2. ASSUME q >= 1 PROVE a >= b
  <2>1. b * q >= b * 0 + b
    BY <1>1, <1>2, Apart
  <2> QED BY <1>1, <1>2, <2>1
<1>3. ASSUME q <= -1 PROVE a <= -b
  <2>1. b * 0 >= b * q + b
    BY <1>1, <1>3, Apart
  <2> QED BY <1>1, <1>3, <2>1
<1>4. q = 0 => a = m
  BY <1>1
<1>5. q < 0 <=> a <= -b
  BY <1>1, <1>2, <1>3, <1>4
<1>6. q > 0 <=> a >= b
  BY <1>1, <1>2, <1>3, <1>4
<1> QED BY <1>5, <1>6 DEF q

-----------------------------------------------------------------------------
(* The operations are exact and keep to the one way to write a time. *)
LEMMA UnitsSpecOf ==
    ASSUME TimeAssumption, NEW t \in Int
    PROVE  Units(Spec_of(t)) = t
<1> DEFINE q == Quo(t, NANOSECOND)
<1> DEFINE m == Rem(t, NANOSECOND)
<1>0. NANOSECOND \in Nat \ {0}
  BY DEF TimeAssumption
<1>1. /\ q \in Int /\ m \in Int /\ NANOSECOND * q \in Int /\ t = NANOSECOND * q + m
      /\ q < 0 <=> t <= -NANOSECOND
      /\ Rem(-t, NANOSECOND) = -m
  BY <1>0, QuoRem, QuoSign, QuoRemNeg
<1>2. Spec_of(t) = [tv_sec |-> q, tv_nsec |-> IF t <= -NANOSECOND THEN -m ELSE m]
  BY <1>1 DEF Spec_of
<1> HIDE DEF q, m
<1>3. q * NANOSECOND = NANOSECOND * q
  BY <1>0, <1>1
<1>4. -(-m) = m
  BY <1>1
<1> QED BY <1>0, <1>1, <1>2, <1>3, <1>4 DEF Units

LEMMA AddExact ==
    ASSUME TimeAssumption, NEW x \in Int, NEW y \in Int
    PROVE  HX_timespec_add(Spec_of(x), Spec_of(y)) = Spec_of(x + y)
<1>0. NANOSECOND \in Nat \ {0} /\ x + y \in Int
  BY DEF TimeAssumption
<1>1. Quo(x + y, NANOSECOND) < 0 <=> x + y <= -NANOSECOND
  BY <1>0, QuoSign
<1>2. Units(Spec_of(x)) = x /\ Units(Spec_of(y)) = y
  BY UnitsSpecOf
<1>3. HX_timespec_add(Spec_of(x), Spec_of(y))
        = [tv_sec |-> Quo(x + y, NANOSECOND),
           tv_nsec |-> Rem(IF Quo(x + y, NANOSECOND) < 0 THEN -(x + y) ELSE x + y, NANOSECOND)]
  BY <1>2 DEF HX_timespec_add
<1> QED BY <1>1, <1>3 DEF Spec_of

LEMMA NegExact ==
    ASSUME TimeAssumption, NEW x \in Int
    PROVE  HX_timespec_neg(Spec_of(x)) = Spec_of(-x)
<1> DEFINE q == Quo(x, NANOSECOND)
<1> DEFINE m == Rem(x, NANOSECOND)
<1>0. NANOSECOND \in Nat \ {0} /\ -x \in Int /\ -(-x) = x
  BY DEF TimeAssumption
<1>1. /\ q \in Int /\ m \in Int
      /\ q < 0 <=> x <= -NANOSECOND
      /\ q > 0 <=> x >= NANOSECOND
      /\ Quo(-x, NANOSECOND) = -q /\ Rem(-x, NANOSECOND) = -m
  BY <1>0, QuoRem, QuoSign, QuoRemNeg
<1>2. Spec_of(x) = [tv_sec |-> q, tv_nsec |-> IF x <= -NANOSECOND THEN -m ELSE m]
  BY <1>1 DEF Spec_of
<1>3. Spec_of(-x) = [tv_sec |-> -q, tv_nsec |-> IF -x <= -NANOSECOND THEN m ELSE -m]
  BY <1>0, <1>1 DEF Spec_of
<1> HIDE DEF q, m
<1>4. CASE q = 0
  <2>0. q <= 0 /\ q >= 0
    BY <1>4
  <2>1. ~(q < 0) /\ ~(q > 0) /\ -q = 0
    BY <1>1, <2>0
  <2>2. ~(x <= -NANOSECOND) /\ ~(-x <= -NANOSECOND)
    BY <1>0, <1>1, <2>1
  <2> QED BY <2>2, <1>2, <1>3, <1>4, <2>1 DEF HX_timespec_neg
<1>5. CASE q # 0
  <2>1. x <= -NANOSECOND <=> ~(-x <= -NANOSECOND)
    BY <1>0, <1>1, <1>5
  <2> QED BY <1>2, <1>3, <1>5, <2>1 DEF HX_timespec_neg
<1> QED BY <1>4, <1>5

LEMMA SubExact ==
    ASSUME TimeAssumption, NEW x \in Int, NEW y \in Int
    PROVE  HX_timespec_sub(Spec_of(x), Spec_of(y)) = Spec_of(x - y)
<1>1. -y \in Int /\ x + (-y) = x - y
  OBVIOUS
<1> QED BY <1>1, NegExact, AddExact DEF HX_timespec_sub

LEMMA MulExact ==
    ASSUME TimeAssumption, NEW x \in Int, NEW f \in Int
    PROVE  HX_timespec_mul(Spec_of(x), f) = Spec_of(x * f)
<1> DEFINE t == x * f
<1> DEFINE q == Quo(t, NANOSECOND)
<1> DEFINE m == Rem(t, NANOSECOND)
<1>0. NANOSECOND \in Nat \ {0} /\ t \in Int
  BY DEF TimeAssumption
<1> HIDE DEF t
<1>1. /\ q \in Int /\ m \in Int
      /\ q < 0 <=> t <= -NANOSECOND
      /\ t <= 0 => -m \in 0 .. NANOSECOND - 1
      /\ Rem(-t, NANOSECOND) = -m
  BY <1>0, QuoRem, QuoSign, QuoRemNeg
<1>2. HX_timespec_mul(Spec_of(x), f)
        = [tv_sec |-> q, tv_nsec |-> IF q < 0 /\ m < 0 THEN -m ELSE m]
  BY UnitsSpecOf DEF HX_timespec_mul, t
<1>3. Spec_of(t) = [tv_sec |-> q, tv_nsec |-> IF t <= -NANOSECOND THEN -m ELSE m]
  BY <1>1 DEF Spec_of
<1> HIDE DEF q, m
<1>4. t <= -NANOSECOND => (m < 0 \/ -m = m)
  BY <1>0, <1>1
<1> QED BY <1>1, <1>2, <1>3, <1>4 DEF t

(* Counting forward, seconds come before their parts in the order. *)
LEMMA StampOrder ==
    ASSUME TimeAssumption, NEW x \in Int, NEW y \in Int
    PROVE  LET c == HX_time_compare(Stamp_of(x), Stamp_of(y))
           IN  (c < 0) = (x < y) /\ (c > 0) = (x > y)
<1> DEFINE p == x \div NANOSECOND
<1> DEFINE m == x % NANOSECOND
<1> DEFINE q == y \div NANOSECOND
<1> DEFINE n == y % NANOSECOND
<1> DEFINE c == HX_time_compare(Stamp_of(x), Stamp_of(y))
<1>0. NANOSECOND \in Nat \ {0}
  BY DEF TimeAssumption
<1>1. /\ p \in Int /\ m \in 0 .. NANOSECOND - 1 /\ x = NANOSECOND * p + m
      /\ q \in Int /\ n \in 0 .. NANOSECOND - 1 /\ y = NANOSECOND * q + n
  BY <1>0, DivMod
<1>2. c = IF p # q THEN p - q ELSE m - n
  BY DEF HX_time_compare, Stamp_of
<1> HIDE DEF p, q, m, n, c
<1>3. NANOSECOND * p \in Int /\ NANOSECOND * q \in Int
  BY <1>0, <1>1
<1>4. CASE p = q
  <2>1. c = m - n /\ x - y = m - n
    BY <1>0, <1>1, <1>2, <1>3, <1>4
  <2>2. (c < 0) = (x < y) /\ (c > 0) = (x > y)
    BY <1>1, <2>1
  <2> QED BY <2>2 DEF c
<1>5. CASE p >= q + 1
  <2>1. NANOSECOND * p >= NANOSECOND * q + NANOSECOND
    BY <1>0, <1>1, <1>5, Apart
  <2>2. x > y /\ c > 0
    BY <1>0, <1>1, <1>2, <1>3, <1>5, <2>1
  <2>3. c \in Int
    BY <1>1, <1>2
  <2> QED BY <2>2, <2>3 DEF c
<1>6. CASE q >= p + 1
  <2>1. NANOSECOND * q >= NANOSECOND * p + NANOSECOND
    BY <1>0, <1>1, <1>6, Apart
  <2>2. x < y /\ c < 0
    BY <1>0, <1>1, <1>2, <1>3, <1>6, <2>1
  <2>3. c \in Int
    BY <1>1, <1>2
  <2> QED BY <2>2, <2>3 DEF c
<1>7. p = q \/ p >= q + 1 \/ q >= p + 1
  BY <1>1
<1> QED BY <1>4, <1>5, <1>6, <1>7 DEF c

-----------------------------------------------------------------------------
(* What is a multiple of MICRO survives the way through a timeval. *)
LEMMA QuoExact ==
    ASSUME NEW b \in Nat \ {0}, NEW k \in Int
    PROVE  Quo(b * k, b) = k
<1> DEFINE a == b * k
<1> DEFINE q == Quo(a, b)
<1> DEFINE m == Rem(a, b)
<1>0. a \in Int
  OBVIOUS
<1>1. /\ q \in Int /\ m \in Int /\ a = b * q + m
      /\ m \in 0 .. b - 1 \/ -m \in 0 .. b - 1
  BY <1>0, QuoRem
<1> HIDE DEF q, m
<1>2. ~(q >= k + 1)
  BY <1>1, Apart
<1>3. ~(k >= q + 1)
  BY <1>1, Apart
<1>4. q = k
  BY <1>1, <1>2, <1>3
<1> QED BY <1>4 DEF q

LEMMA RemMultiple ==
    ASSUME TimeAssumption, NEW x \in Int, x % MICRO = 0
    PROVE  \E k \in Int : Rem(x, NANOSECOND) = MICRO * k
<1> DEFINE i == NANOSECOND \div MICRO
<1> DEFINE j == x \div MICRO
<1> DEFINE q == Quo(x, NANOSECOND)
<1>0. NANOSECOND \in Nat \ {0} /\ MICRO \in Nat \ {0}
  BY DEF TimeAssumption
<1>1. i \in Int /\ NANOSECOND = MICRO * i + 0
  BY <1>0, DivMod DEF TimeAssumption
<1>2. j \in Int /\ x = MICRO * j + 0
  BY <1>0, DivMod
<1>3. q \in Int /\ Rem(x, NANOSECOND) = x - NANOSECOND * q
  BY <1>0, QuoRem DEF Rem
<1> HIDE DEF i, j, q
<1>4. i * q \in Int /\ (MICRO * i) * q = MICRO * (i * q)
  BY <1>0, <1>1, <1>3
<1>5. MICRO * j - MICRO * (i * q) = MICRO * (j - i * q)
  BY <1>0, <1>2, <1>4
<1>6. MICRO * i = NANOSECOND /\ MICRO * j = x
  BY <1>0, <1>1, <1>2
<1>7. Rem(x, NANOSECOND) = MICRO * (j - i * q)
  BY <1>3, <1>4, <1>5, <1>6
<1>8. j - i * q \in Int
  BY <1>2, <1>4
<1> QED BY <1>7, <1>8

Usec(x) == [tv_sec |-> x.tv_sec, tv_usec |-> Quo(x.tv_nsec, MICRO)]

LEMMA UsecExact ==
    ASSUME TimeAssumption, NEW x \in Int, x % MICRO = 0
    PROVE  LET s == Spec_of(x)
           IN  [tv_sec |-> Usec(s).tv_sec, tv_nsec |-> Usec(s).tv_usec * MICRO] = s
<1> DEFINE s == Spec_of(x)
<1> DEFINE m == Rem(x, NANOSECOND)
<1>0. MICRO \in Nat \ {0} /\ NANOSECOND \in Nat \ {0}
  BY DEF TimeAssumption
<1>1. PICK k \in Int : m = MICRO * k
  BY RemMultiple
<1>2. Rem(-x, NANOSECOND) = -m
  BY <1>0, QuoRemNeg
<1>3. \E l \in Int : s.tv_nsec = MICRO * l
  <2>1. -(MICRO * k) = MICRO * (-k) /\ -k \in Int
    BY <1>0, <1>1
  <2>2. s.tv_nsec = MICRO * k \/ s.tv_nsec = MICRO * (-k)
    BY <1>1, <1>2, <2>1 DEF Spec_of
  <2> QED BY <2>1, <2>2
<1>4. PICK l \in Int : s.tv_nsec = MICRO * l
  BY <1>3
<1>5. Quo(s.tv_nsec, MICRO) = l
  BY <1>0, <1>4, QuoExact
<1>6. l * MICRO = MICRO * l
  BY <1>0
<1>7. s = [tv_sec |-> s.tv_sec, tv_nsec |-> s.tv_nsec]
  BY DEF Spec_of
<1> HIDE DEF s
<1> QED BY <1>4, <1>5, <1>6, <1>7 DEF Usec, s

LEMMA TimevalExact ==
    ASSUME TimeAssumption, NEW x \in Int, NEW y \in Int, x % MICRO = 0, y % MICRO = 0
    PROVE  HX_timeval_sub(Usec(Spec_of(x)), Usec(Spec_of(y))) = Usec(Spec_of(x - y))
<1> DEFINE s == Spec_of(x)
<1> DEFINE u == Spec_of(y)
<1> DEFINE d == Spec_of(x - y)
<1>1. [tv_sec |-> Usec(s).tv_sec, tv_nsec |-> Usec(s).tv_usec * MICRO] = s
  BY UsecExact
<1>2. [tv_sec |-> Usec(u).tv_sec, tv_nsec |-> Usec(u).tv_usec * MICRO] = u
  BY UsecExact
<1>3. HX_timespec_sub(s, u) = d
  BY SubExact
<1> HIDE DEF s, u, d
<1>4. HX_timeval_sub(Usec(s), Usec(u)) = [tv_sec |-> d.tv_sec, tv_usec |-> Quo(d.tv_nsec, MICRO)]
  BY <1>1, <1>2, <1>3 DEF HX_timeval_sub
<1> QED BY <1>4 DEF Usec, s, u, d

-----------------------------------------------------------------------------
(* The times are in bounds and the accumulator is in its normal form. *)
TimeInv == time \in Times /\ last \in Times /\ r = Spec_of(time)

LEMMA TimeInductive ==
    ASSUME TimeAssumption
    PROVE  /\ TimeInit => TimeInv
           /\ TimeInv /\ [TimeNext]_timevars => TimeInv'
<1> USE DEF TimeInv
<1>0. MaxTime \in Nat
  BY DEF TimeAssumption
<1>1. TimeInit => TimeInv
  BY <1>0 DEF TimeInit, Times
<1>2. ASSUME TimeInv, [TimeNext]_timevars PROVE TimeInv'
  <2>0. time \in Int
    BY <1>0, <1>2 DEF Times
  <2>1. ASSUME NEW t \in Times, AddStep(t) PROVE TimeInv'
    BY <1>0, <1>2, <2>0, <2>1, AddExact DEF AddStep, Times
  <2>2. ASSUME NEW t \in Times, SubStep(t) PROVE TimeInv'
    BY <1>0, <1>2, <2>0, <2>2, SubExact DEF SubStep, Times
  <2>3. CASE NegStep
    BY <1>0, <1>2, <2>0, <2>3, NegExact DEF NegStep, Times
  <2>4. ASSUME NEW f \in -3 .. 3, MulStep(f) PROVE TimeInv'
    <3>1. f \in Int
      OBVIOUS
    <3>2. HX_timespec_mul(Spec_of(time), f) = Spec_of(time * f)
      BY <2>0, <3>1, MulExact
    <3> QED BY <1>2, <2>4, <3>2 DEF MulStep
  <2>5. CASE UNCHANGED timevars
    BY <1>2, <2>5 DEF timevars, Spec_of, Times
  <2> QED BY <1>2, <2>1, <2>2, <2>3, <2>4, <2>5 DEF TimeNext
<1> QED BY <1>1, <1>2

(* The arithmetic of time.c is exact and yields the one normal form, and   *)
(* HX_time_compare and HX_timeval_sub agree with the order and difference  *)
(* of the times, for every length of a second and of a microsecond of      *)
(* which one divides the other, and every sequence of operations on times  *)
(* that fit.                                                               *)
THEOREM TimesExact == ASSUME TimeAssumption PROVE TimeSpec => []TimeOK
<1>1. TimeInit => TimeInv
  BY TimeInductive
<1>2. TimeInv /\ [TimeNext]_timevars => TimeInv'
  BY TimeInductive
<1>3. TimeInv => TimeOK
  <2> SUFFICES ASSUME TimeInv PROVE TimeOK
    OBVIOUS
  <2>0. time \in Int /\ last \in Int
    BY DEF TimeInv, Times, TimeAssumption
  <2>1. r = Spec_of(time) /\ Units(r) = time
    BY <2>0, UnitsSpecOf DEF TimeInv
  <2>2. LET c == HX_time_compare(Stamp_of(time), Stamp_of(last))
        IN  (c < 0) = (time < last) /\ (c > 0) = (time > last)
    BY <2>0, StampOrder
  <2>3. ASSUME time % MICRO = 0, last % MICRO = 0
        PROVE  HX_timeval_sub(Usec(r), Usec(Spec_of(last))) = Usec(Spec_of(time - last))
    BY <2>0, <2>1, <2>3, TimevalExact
  <2> QED BY <2>1, <2>2, <2>3 DEF TimeOK, Usec
<1> QED BY <1>1, <1>2, <1>3, PTL DEF TimeSpec

-----------------------------------------------------------------------------
(* Sockets.                                                                *)

Pcs == {"idle", "env", "socket", "bind", "listen", "fcntl", "connect", "stat", "testfd",
        "test", "unlink", "up", "failed"}

Errnos == {"0", "EHOSTUNREACH", "EMFILE", "EADDRINUSE", "EACCES", "EBADF", "EINPROGRESS",
           "ECONNREFUSED", "ENOENT", "ENOTSOCK"}

(* A call under way. *)
Calls ==
    [pc : Pcs, op : {"none", "local", "listen", "connect"},
     sk : {"none", "open", "bound", "listening", "inherited", "deaf", "connected"},
     test : BOOLEAN, nonblock : BOOLEAN, left : Int, second : BOOLEAN,
     errno : Errnos, alone : BOOLEAN]

(* What a call holds where, and which call comes to which step. *)
CallOK(rq) ==
    /\ rq.pc \in {"idle", "failed", "env", "socket", "stat", "testfd", "test", "unlink"} =>
         rq.sk = "none"
    /\ rq.test <=> rq.pc = "test"
    /\ rq.pc = "failed" => rq.errno # "0"
    /\ rq.pc \in {"stat", "testfd", "test", "unlink"} => rq.op = "local"
    /\ rq.pc \in {"env", "bind", "listen"} => rq.op # "connect"
    /\ rq.pc \in {"fcntl", "connect"} => rq.op = "connect"
    /\ rq.pc = "up" =>
         rq.sk \in IF rq.op = "connect" THEN {"connected"} ELSE {"listening", "inherited"}

CallsOK ==
    /\ proc \in [Procs -> Calls]
    /\ \A p \in Procs : CallOK(proc[p])

EnvOK == env \in [Procs -> Envs] /\ signals \in BOOLEAN

Busy(p) == proc[p].op = "local" /\ proc[p].pc \notin Resting

(* No other local call is under way while one is alone. *)
AloneOK ==
    \A p, q \in Procs : p # q /\ Busy(p) /\ proc[p].alone => ~Busy(q)

Serving(p) ==
    /\ proc[p].pc = "up" /\ proc[p].op = "local" /\ proc[p].sk = "listening"
    /\ proc[p].alone /\ ~signals

(* The address of a process that is alone is its own from bind(2) on, and  *)
(* once it listens nobody else is about to remove it.                      *)
AddressOK ==
    \A p \in Procs :
      /\ proc[p].pc = "listen" /\ proc[p].op = "local" /\ proc[p].alone => path = p
      /\ Serving(p) => path = p /\ \A q \in Procs : proc[q].pc # "unlink"

SocketInv == CallsOK /\ EnvOK /\ AloneOK /\ AddressOK

-----------------------------------------------------------------------------

LEMMA FreshOK == Fresh \in Calls /\ CallOK(Fresh)
BY DEF Fresh, Calls, CallOK, Pcs, Errnos

LEMMA SocketInitInv == ASSUME SocketAssumption, SocketInit PROVE SocketInv
<1>1. \A p \in Procs : proc[p] = Fresh
  BY DEF SocketInit
<1>2. Fresh.pc = "idle"
  BY DEF Fresh
<1>3. CallsOK
  BY <1>1, FreshOK DEF SocketInit, CallsOK
<1> QED BY <1>1, <1>2, <1>3 DEF SocketInit, SocketInv, EnvOK, AloneOK, AddressOK, Busy, Resting, Serving

(* A call that goes on as r, or is over. *)
GoesOn(p, rq) ==
    /\ rq \in Calls
    /\ CallOK(rq)
    /\ rq.pc # "idle" =>
         rq.op = proc[p].op /\ rq.alone = proc[p].alone /\ proc[p].pc \notin Resting

(* The address is p's. *)
Holds(p) ==
    Serving(p) \/ (proc[p].pc = "listen" /\ proc[p].op = "local" /\ proc[p].alone)

(* A step of one call that leaves the address to the others. *)
LEMMA CallStep ==
    ASSUME SocketInv, NEW p \in Procs, NEW rq, GoesOn(p, rq), Set(p, rq),
           UNCHANGED <<env, signals>>,
           \A q \in Procs : q # p /\ Holds(q) => path' = q,
           rq.pc = "unlink" => \A q \in Procs : ~Serving(q),
           rq.pc = "listen" /\ rq.op = "local" => path' = p,
           rq.pc = "up" /\ rq.sk = "listening" => proc[p].pc = "listen" /\ path' = path
    PROVE  SocketInv'
<1> USE DEF SocketInv
<1>1. /\ proc'[p] = rq /\ \A q \in Procs : q # p => proc'[q] = proc[q]
      /\ proc' \in [Procs -> Calls]
  BY DEF Set, CallsOK, GoesOn
<1>2. CallsOK'
  BY <1>1 DEF CallsOK, GoesOn
<1>3. EnvOK'
  BY DEF EnvOK
<1>4. \A q \in Procs : Busy(q)' => Busy(q)
  BY <1>1 DEF Busy, GoesOn, Resting
<1>5. AloneOK'
  <2>1. \A q \in Procs : Busy(q)' => proc'[q].alone = proc[q].alone
    BY <1>1 DEF GoesOn, Busy, Resting
  <2> QED BY <1>4, <2>1 DEF AloneOK
<1>6. AddressOK'
  <2>1. ASSUME NEW q \in Procs, proc'[q].pc = "listen", proc'[q].op = "local", proc'[q].alone
        PROVE  path' = q
    BY <1>1, <2>1 DEF Holds
  <2>2. ASSUME NEW q \in Procs, Serving(q)'
        PROVE  path' = q /\ \A s \in Procs : proc'[s].pc # "unlink"
    <3>1. CASE q = p
      <4>1. proc[p].pc = "listen" /\ proc[p].op = "local" /\ proc[p].alone /\ rq.pc = "up"
        BY <1>1, <2>2, <3>1 DEF Serving, GoesOn
      <4>2. \A s \in Procs : s # p => proc[s].pc # "unlink"
        BY <4>1 DEF AloneOK, Busy, Resting, CallsOK, CallOK
      <4> QED BY <1>1, <2>2, <3>1, <4>1, <4>2 DEF AddressOK, Serving
    <3>2. CASE q # p
      BY <1>1, <2>2, <3>2 DEF AddressOK, Serving, Holds
    <3> QED BY <3>1, <3>2
  <2> QED BY <2>1, <2>2 DEF AddressOK
<1> QED BY <1>2, <1>3, <1>5, <1>6

(* Its usual case: the address is not touched. *)
LEMMA PlainStep ==
    ASSUME SocketInv, NEW p \in Procs, NEW rq, GoesOn(p, rq), Set(p, rq),
           UNCHANGED <<path, env, signals>>,
           rq.pc # "unlink",
           rq.pc = "listen" => rq.op # "local",
           rq.pc = "up" /\ rq.sk = "listening" => proc[p].pc = "listen"
    PROVE  SocketInv'
<1>1. \A q \in Procs : Holds(q) => path = q
  BY DEF SocketInv, AddressOK, Holds
<1> QED BY <1>1, CallStep

(* What a call leaves when it returns. *)
LEMMA ReturnOK ==
    ASSUME SocketInv, NEW p \in Procs, NEW at \in {"failed", "up"}, NEW e \in Errnos,
           NEW sk \in {"none", "listening", "inherited", "connected"}
    PROVE  LET rq == Return(p, at, e, sk)
           IN  /\ rq \in Calls /\ rq.pc = at /\ rq.errno = e /\ rq.sk = sk /\ ~rq.test
               /\ rq.op = proc[p].op /\ rq.alone = proc[p].alone
<1>1. proc[p] \in Calls
  BY DEF SocketInv, CallsOK
<1>2. at \in Pcs /\ 0 \in Int
  BY DEF Pcs
<1> QED BY <1>1, <1>2 DEF Return, Calls

LEMMA FailOK ==
    ASSUME SocketInv, NEW p \in Procs, NEW e \in Errnos, e # "0", proc[p].pc \notin Resting
    PROVE  GoesOn(p, Fail(p, e)) /\ Fail(p, e).pc = "failed"
<1> DEFINE rq == Return(p, "failed", e, "none")
<1>1. /\ rq \in Calls /\ rq.pc = "failed" /\ rq.errno = e /\ rq.sk = "none" /\ ~rq.test
      /\ rq.op = proc[p].op /\ rq.alone = proc[p].alone
  BY ReturnOK
<1> HIDE DEF rq
<1>2. GoesOn(p, rq)
  BY <1>1 DEF GoesOn, CallOK
<1> QED BY <1>1, <1>2 DEF Fail, rq

(* The next address is one that is tried anew. *)
LEMMA NextAddressOK ==
    ASSUME SocketInv, NEW p \in Procs, NEW e \in Errnos, e # "0", proc[p].pc \notin Resting,
           proc[p].pc # "test"
    PROVE  GoesOn(p, NextAddress(p, e)) /\ NextAddress(p, e).pc \in {"failed", "socket", "env"}
<1>1. CASE proc[p].op = "local"
  BY <1>1, FailOK DEF NextAddress
<1>2. CASE proc[p].op # "local"
  <2>1. proc[p] \in Calls /\ CallOK(proc[p])
    BY DEF SocketInv, CallsOK
  <2> DEFINE new == IF proc[p].op = "connect" THEN "socket" ELSE "env"
             rq == NextAddress(p, e)
  <2>2. rq = [proc[p] EXCEPT !.pc = new, !.left = proc[p].left - 1, !.sk = "none", !.errno = e]
    BY <1>2 DEF NextAddress
  <2>3. new \in Pcs /\ proc[p].left - 1 \in Int
    BY <2>1 DEF Pcs, Calls
  <2>4. /\ rq \in Calls /\ rq.pc = new /\ rq.sk = "none" /\ rq.test = proc[p].test
        /\ rq.op = proc[p].op /\ rq.alone = proc[p].alone
    <3> HIDE DEF new, rq
    <3> QED BY <2>1, <2>2, <2>3 DEF Calls
  <2>5. ~proc[p].test
    BY <2>1 DEF CallOK
  <2> HIDE DEF rq
  <2>6. CallOK(rq)
    BY <2>4, <2>5 DEF CallOK
  <2> QED BY <2>4, <2>6 DEF GoesOn, rq
<1> QED BY <1>1, <1>2

-----------------------------------------------------------------------------
(* One lemma for each action that could disturb the invariant.             *)

(* Another call begins: none that is under way is alone any more. *)
LEMMA BeginInv ==
    ASSUME SocketInv, NEW p \in Procs, NEW kind \in {"local", "listen", "connect"},
           NEW n \in Int, NEW nonblock \in BOOLEAN, Request(p, kind, n, nonblock)
    PROVE  SocketInv'
<1> USE DEF SocketInv
<1> DEFINE rivals == {q \in Procs \ {p} : proc[q].op = "local" /\ proc[q].pc \notin Resting}
           first == IF kind = "connect" THEN "socket" ELSE "env"
           new == [Fresh EXCEPT !.pc = first, !.op = kind, !.left = n, !.nonblock = nonblock,
                                !.alone = rivals = {}]
<1>1. /\ proc[p].pc \in {"idle", "failed"}
      /\ UNCHANGED <<path, env, signals>>
      /\ proc' = [q \in Procs |->
                    IF q = p THEN new
                    ELSE IF q \in rivals /\ kind = "local" THEN [proc[q] EXCEPT !.alone = FALSE]
                    ELSE proc[q]]
  BY DEF Request
<1>2. /\ new \in Calls /\ new.pc = first /\ new.op = kind /\ new.sk = "none" /\ ~new.test
      /\ new.alone <=> rivals = {}
  <2> HIDE DEF rivals
  <2> QED BY DEF Fresh, Calls, Pcs, Errnos
<1>3. CallOK(new)
  <2> HIDE DEF new
  <2> QED BY <1>2 DEF CallOK
<1>4. \A q \in Procs : proc[q] \in Calls /\ CallOK(proc[q])
  BY DEF CallsOK
<1>5. ASSUME NEW q \in Procs, q # p
      PROVE  /\ proc'[q] \in Calls /\ CallOK(proc'[q])
             /\ proc'[q].pc = proc[q].pc /\ proc'[q].op = proc[q].op /\ proc'[q].sk = proc[q].sk
             /\ proc'[q].alone => proc[q].alone /\ ~(Busy(q) /\ kind = "local")
  <2>1. q \in rivals <=> Busy(q)
    BY <1>5 DEF Busy
  <2>2. CASE q \in rivals /\ kind = "local"
    <3>1. proc'[q] = [proc[q] EXCEPT !.alone = FALSE]
      BY <1>1, <1>5, <2>2
    <3>2. /\ proc'[q] \in Calls /\ ~proc'[q].alone
          /\ proc'[q].pc = proc[q].pc /\ proc'[q].op = proc[q].op /\ proc'[q].sk = proc[q].sk
          /\ proc'[q].test = proc[q].test /\ proc'[q].errno = proc[q].errno
      BY <1>4, <3>1 DEF Calls
    <3> QED BY <1>4, <2>1, <2>2, <3>2 DEF CallOK
  <2>3. CASE ~(q \in rivals /\ kind = "local")
    <3>1. proc'[q] = proc[q]
      BY <1>1, <1>5, <2>3
    <3>2. proc[q].alone \in BOOLEAN
      BY <1>4 DEF Calls
    <3> QED BY <1>4, <2>1, <2>3, <3>1, <3>2
  <2> QED BY <2>2, <2>3
<1>6. /\ proc'[p] = new
      /\ new.alone => \A q \in Procs : q # p => ~Busy(q)
  BY <1>1, <1>2 DEF Busy
<1>7. DOMAIN proc' = Procs /\ proc' = [q \in Procs |-> proc'[q]]
  BY <1>1
<1> HIDE DEF new, rivals
<1>8. CallsOK'
  BY <1>2, <1>3, <1>5, <1>6, <1>7 DEF CallsOK
<1>9. EnvOK'
  BY <1>1 DEF EnvOK
<1>10. AloneOK'
  <2>1. ASSUME NEW q \in Procs, NEW s \in Procs, q # s, Busy(q)', proc'[q].alone PROVE ~Busy(s)'
    BY <1>2, <1>5, <1>6, <2>1 DEF AloneOK, Busy
  <2> QED BY <2>1 DEF AloneOK
<1>11. AddressOK'
  <2>1. new.pc \in {"socket", "env"}
    BY <1>2
  <2> QED BY <1>1, <1>5, <1>6, <2>1 DEF AddressOK, Serving
<1> QED BY <1>8, <1>9, <1>10, <1>11

LEMMA BeginsInv ==
    ASSUME SocketAssumption, SocketInv, NEW p \in Procs,
           HX_local_listen(p) \/ HX_inet_listen(p) \/ HX_inet_connect(p)
    PROVE  SocketInv'
<1>1. CASE HX_local_listen(p)
  <2>1. Request(p, "local", 1, FALSE)
    BY <1>1, Zenon DEF HX_local_listen
  <2>2. 1 \in Int
    OBVIOUS
  <2> QED BY <2>1, <2>2, BeginInv, Zenon
<1>2. CASE HX_inet_listen(p)
  <2>1. PICK n \in 0 .. MaxAddr : Request(p, "listen", n, FALSE)
    BY <1>2 DEF HX_inet_listen
  <2>2. n \in Int
    BY DEF SocketAssumption
  <2> QED BY <2>1, <2>2, BeginInv
<1>3. CASE HX_inet_connect(p)
  <2>1. PICK n \in 0 .. MaxAddr, b \in BOOLEAN : Request(p, "connect", n, b)
    BY <1>3 DEF HX_inet_connect
  <2>2. n \in Int
    BY DEF SocketAssumption
  <2> QED BY <2>1, <2>2, BeginInv
<1> QED BY <1>1, <1>2, <1>3

(* The least element of a set of numbers, as the model takes it. *)
LEMMA LeastOf ==
    ASSUME NEW S, NEW k \in Int, S \subseteq 1 .. k, S # {}
    PROVE  Min(S) \in S
<1>0. S \subseteq Nat
  OBVIOUS
<1>1. PICK x \in S : \A y \in S : ~(<<y, x>> \in OpToRel(<, Nat))
  BY <1>0, NatLessThanWellFounded, WFMin
<1>2. ASSUME NEW y \in S PROVE x <= y
  <2>1. <<y, x>> \in Nat \X Nat /\ ~(<<y, x>> \in {ss \in Nat \X Nat : ss[1] < ss[2]})
    BY <1>0, <1>1 DEF OpToRel
  <2> QED BY <2>1
<1> QED BY <1>2 DEF Min

(* What is taken from the environment is a socket that listens. *)
LEMMA EnvSocket ==
    ASSUME SocketAssumption, EnvOK, NEW p \in Procs, FromEnv(p) # {}
    PROVE  env[p].fds[Min(FromEnv(p))].accepting
<1> DEFINE k == Min({Len(env[p].fds), env[p].top})
<1>1. Len(env[p].fds) \in Int /\ env[p].top \in Int
  BY DEF SocketAssumption, EnvOK
<1>2. k \in Int
  <2>1. \E i \in {Len(env[p].fds), env[p].top} : \A j \in {Len(env[p].fds), env[p].top} : i <= j
    BY <1>1
  <2>2. k \in {Len(env[p].fds), env[p].top}
    BY <2>1 DEF Min
  <2> QED BY <1>1, <2>2
<1>3. FromEnv(p) \subseteq 1 .. k
  BY DEF FromEnv
<1>4. Min(FromEnv(p)) \in FromEnv(p)
  BY <1>2, <1>3, LeastOf
<1> QED BY <1>4 DEF FromEnv, try_sk_from_env

LEMMA FromEnvInv ==
    ASSUME SocketAssumption, SocketInv, NEW p \in Procs, HX_socket_from_env(p)
    PROVE  SocketInv'
<1>1. proc[p] \in Calls /\ CallOK(proc[p]) /\ proc[p].pc = "env"
  BY DEF SocketInv, CallsOK, HX_socket_from_env
<1>2. PICK rq : /\ Set(p, rq)
               /\ \/ rq = [proc[p] EXCEPT !.pc = "socket"]
                  \/ rq = Return(p, "up", "0", "inherited")
  BY EnvSocket DEF SocketInv, HX_socket_from_env
<1>3. /\ rq \in Calls /\ rq.op = proc[p].op /\ rq.alone = proc[p].alone /\ ~rq.test
      /\ \/ rq.pc = "socket" /\ rq.sk = proc[p].sk
         \/ rq.pc = "up" /\ rq.sk = "inherited"
  <2>1. CASE rq = [proc[p] EXCEPT !.pc = "socket"]
    BY <1>1, <2>1 DEF Calls, Pcs, CallOK
  <2>2. CASE rq = Return(p, "up", "0", "inherited")
    BY <2>2, ReturnOK DEF Errnos
  <2> QED BY <1>2, <2>1, <2>2
<1>4. GoesOn(p, rq)
  BY <1>1, <1>3 DEF GoesOn, CallOK, Resting
<1> QED BY <1>2, <1>3, <1>4, PlainStep DEF HX_socket_from_env

(* Steps that only go on, or fail. *)
LEMMA PlainInv ==
    ASSUME SocketInv, NEW p \in Procs,
           NoAddress(p) \/ Socket(p) \/ Fcntl(p) \/ Connect(p) \/ Stat(p) \/ TestSocket(p)
    PROVE  SocketInv'
<1>1. proc[p] \in Calls /\ CallOK(proc[p])
  BY DEF SocketInv, CallsOK
<1>2. CASE NoAddress(p)
  <2>1. PICK e \in Errnos : e # "0" /\ Set(p, Fail(p, e))
    BY <1>1, <1>2 DEF NoAddress, Calls, Errnos
  <2>2. proc[p].pc \notin Resting /\ UNCHANGED <<path, env, signals>>
    BY <1>2 DEF NoAddress, Resting
  <2> QED BY <2>1, <2>2, FailOK, PlainStep
<1>3. ASSUME NEW e \in Errnos, e # "0", Set(p, NextAddress(p, e)),
             proc[p].pc \in {"socket", "fcntl", "connect"},
             UNCHANGED <<path, env, signals>>
      PROVE  SocketInv'
  <2>1. GoesOn(p, NextAddress(p, e)) /\ NextAddress(p, e).pc \in {"failed", "socket", "env"}
    BY <1>3, NextAddressOK DEF Resting
  <2> QED BY <1>3, <2>1, PlainStep
<1>4. CASE Socket(p)
  <2>1. proc[p].pc = "socket" /\ UNCHANGED <<path, env, signals>>
    BY <1>4 DEF Socket
  <2>2. ASSUME NEW e, e = (IF proc[p].op = "connect" /\ proc[p].errno # "0"
                           THEN proc[p].errno ELSE "EMFILE"),
               Set(p, NextAddress(p, e))
        PROVE  SocketInv'
    <3>1. e \in Errnos /\ e # "0"
      BY <1>1, <2>2 DEF Calls, Errnos
    <3> QED BY <1>3, <2>1, <2>2, <3>1
  <2>3. ASSUME NEW s \in {"bind", "fcntl", "connect"}, s = "bind" <=> proc[p].op # "connect",
               NEW rq, rq = [proc[p] EXCEPT !.sk = "open", !.pc = s], Set(p, rq)
        PROVE  SocketInv'
    <3>1. /\ rq \in Calls /\ rq.op = proc[p].op /\ rq.alone = proc[p].alone
          /\ rq.test = proc[p].test /\ rq.pc = s /\ rq.sk = "open"
      BY <1>1, <2>3 DEF Calls, Pcs
    <3>2. GoesOn(p, rq)
      BY <1>1, <2>1, <2>3, <3>1 DEF GoesOn, CallOK, Resting
    <3> QED BY <2>1, <2>3, <3>1, <3>2, PlainStep
  <2> QED BY <1>4, <2>2, <2>3 DEF Socket
<1>5. ASSUME NEW rq, Set(p, rq), proc[p].pc \in {"fcntl", "connect"},
             UNCHANGED <<path, env, signals>>,
             \/ rq = [proc[p] EXCEPT !.pc = "connect"]
             \/ rq = Return(p, "up", "0", "connected")
      PROVE  SocketInv'
  <2>1. /\ rq \in Calls /\ rq.op = proc[p].op /\ rq.alone = proc[p].alone /\ ~rq.test
        /\ (rq.pc = "connect" /\ rq.sk = proc[p].sk) \/ (rq.pc = "up" /\ rq.sk = "connected")
    <3>1. CASE rq = [proc[p] EXCEPT !.pc = "connect"]
      BY <1>1, <1>5, <3>1 DEF Calls, Pcs, CallOK
    <3>2. CASE rq = Return(p, "up", "0", "connected")
      BY <3>2, ReturnOK DEF Errnos
    <3> QED BY <1>5, <3>1, <3>2
  <2>2. GoesOn(p, rq)
    BY <1>1, <1>5, <2>1 DEF GoesOn, CallOK, Resting
  <2> QED BY <1>5, <2>1, <2>2, PlainStep
<1>6. CASE Fcntl(p)
  BY <1>3, <1>5, <1>6 DEF Fcntl, Errnos
<1>7. CASE Connect(p)
  BY <1>3, <1>5, <1>7 DEF Connect, Errnos
<1>8. ASSUME NEW rq, Set(p, rq), proc[p].pc \in {"stat", "testfd"},
             UNCHANGED <<path, env, signals>>,
             \/ rq = [proc[p] EXCEPT !.pc = "testfd"] /\ proc[p].pc = "stat"
             \/ rq = [proc[p] EXCEPT !.pc = "test", !.test = TRUE]
      PROVE  SocketInv'
  <2>1. /\ rq \in Calls /\ rq.op = proc[p].op /\ rq.alone = proc[p].alone /\ rq.sk = proc[p].sk
        /\ \/ rq.pc = "testfd" /\ rq.test = proc[p].test
           \/ rq.pc = "test" /\ rq.test
    BY <1>1, <1>8 DEF Calls, Pcs
  <2>2. GoesOn(p, rq)
    BY <1>1, <1>8, <2>1 DEF GoesOn, CallOK, Resting
  <2> QED BY <1>8, <2>1, <2>2, PlainStep
<1>9. ASSUME NEW e \in Errnos, e # "0", Set(p, Fail(p, e)), proc[p].pc \notin Resting,
             UNCHANGED <<path, env, signals>>
      PROVE  SocketInv'
  BY <1>9, FailOK, PlainStep
<1>10. CASE Stat(p)
  BY <1>8, <1>9, <1>10 DEF Stat, Errnos, Resting
<1>11. CASE TestSocket(p)
  BY <1>8, <1>9, <1>11 DEF TestSocket, Errnos, Resting
<1> QED BY <1>2, <1>4, <1>6, <1>7, <1>10, <1>11

(* The address is taken from nobody. *)
LEMMA BindInv == ASSUME SocketAssumption, SocketInv, NEW p \in Procs, Bind(p) PROVE SocketInv'
<1>1. proc[p] \in Calls /\ CallOK(proc[p]) /\ proc[p].pc = "bind" /\ UNCHANGED <<env, signals>>
  BY DEF SocketInv, CallsOK, Bind
<1>2. \A q \in Procs : Holds(q) => path = q
  BY DEF SocketInv, AddressOK, Holds
<1>3. ASSUME NEW e \in Errnos, e # "0", Set(p, Fail(p, e)), path' = path PROVE SocketInv'
  BY <1>1, <1>3, FailOK, PlainStep DEF Resting
<1>4. ASSUME NEW rq, rq = [proc[p] EXCEPT !.sk = "none", !.pc = "stat"],
             proc[p].op = "local", Set(p, rq), path' = path
      PROVE  SocketInv'
  <2>1. /\ rq \in Calls /\ rq.op = proc[p].op /\ rq.alone = proc[p].alone
        /\ rq.test = proc[p].test /\ rq.pc = "stat" /\ rq.sk = "none"
    BY <1>1, <1>4 DEF Calls, Pcs
  <2>2. GoesOn(p, rq)
    BY <1>1, <1>4, <2>1 DEF GoesOn, CallOK, Resting
  <2> QED BY <1>1, <1>4, <2>1, <2>2, PlainStep
<1>5. ASSUME proc[p].op = "local" => path = "none",
             path' = (IF proc[p].op = "local" THEN p ELSE path),
             NEW rq, rq = [proc[p] EXCEPT !.sk = "bound", !.pc = "listen"], Set(p, rq)
      PROVE  SocketInv'
  <2>1. /\ rq \in Calls /\ rq.op = proc[p].op /\ rq.alone = proc[p].alone
        /\ rq.test = proc[p].test /\ rq.pc = "listen" /\ rq.sk = "bound"
    BY <1>1, <1>5 DEF Calls, Pcs
  <2>2. GoesOn(p, rq)
    BY <1>1, <2>1 DEF GoesOn, CallOK, Resting
  <2>3. \A q \in Procs : Holds(q) => path' = q
    BY <1>2, <1>5 DEF SocketAssumption
  <2> QED BY <1>1, <1>5, <2>1, <2>2, <2>3, CallStep
<1> QED BY <1>3, <1>4, <1>5 DEF Bind, Errnos

LEMMA ListenInv == ASSUME SocketInv, NEW p \in Procs, Listen(p) PROVE SocketInv'
<1>1. proc[p] \in Calls /\ CallOK(proc[p]) /\ proc[p].pc = "listen" /\ UNCHANGED <<env, signals>>
  BY DEF SocketInv, CallsOK, Listen
<1>2. CASE Set(p, NextAddress(p, "EADDRINUSE")) /\ path' = Deserted(p)
  <2>1. /\ GoesOn(p, NextAddress(p, "EADDRINUSE"))
        /\ NextAddress(p, "EADDRINUSE").pc \in {"failed", "socket", "env"}
    BY <1>1, NextAddressOK DEF Resting, Errnos
  <2>2. \A q \in Procs : q # p /\ Holds(q) => path' = q
    BY <1>2 DEF SocketInv, AddressOK, Holds, Deserted
  <2> QED BY <1>1, <1>2, <2>1, <2>2, CallStep
<1>3. ASSUME NEW rq, rq = Return(p, "up", "0", "listening"), Set(p, rq), path' = path
      PROVE  SocketInv'
  <2>1. /\ rq \in Calls /\ rq.op = proc[p].op /\ rq.alone = proc[p].alone
        /\ ~rq.test /\ rq.pc = "up" /\ rq.sk = "listening"
    BY <1>3, ReturnOK DEF Errnos
  <2>2. GoesOn(p, rq)
    BY <1>1, <2>1 DEF GoesOn, CallOK, Resting
  <2> QED BY <1>1, <1>3, <2>1, <2>2, PlainStep
<1> QED BY <1>2, <1>3 DEF Listen

(* Nobody that answers is taken for dead, unless by an interrupted call. *)
LEMMA TestConnectInv == ASSUME SocketInv, NEW p \in Procs, TestConnect(p) PROVE SocketInv'
<1>1. /\ proc[p] \in Calls /\ CallOK(proc[p]) /\ proc[p].pc = "test"
      /\ UNCHANGED <<path, env, signals>>
  BY DEF SocketInv, CallsOK, TestConnect
<1>2. CASE Set(p, Fail(p, "EADDRINUSE"))
  BY <1>1, <1>2, FailOK, PlainStep DEF Errnos, Resting
<1>3. ASSUME ~Answers \/ signals,
             NEW rq, rq = [proc[p] EXCEPT !.pc = "unlink", !.test = FALSE], Set(p, rq)
      PROVE  SocketInv'
  <2>1. /\ rq \in Calls /\ rq.op = proc[p].op /\ rq.alone = proc[p].alone
        /\ ~rq.test /\ rq.pc = "unlink" /\ rq.sk = proc[p].sk
    BY <1>1, <1>3 DEF Calls, Pcs
  <2>2. GoesOn(p, rq)
    BY <1>1, <2>1 DEF GoesOn, CallOK, Resting
  <2>3. \A q \in Procs : ~Serving(q)
    BY <1>3 DEF SocketInv, AddressOK, Serving, Answers
  <2>4. \A q \in Procs : Holds(q) => path' = q
    BY <1>1 DEF SocketInv, AddressOK, Holds
  <2> QED BY <1>1, <1>3, <2>1, <2>2, <2>3, <2>4, CallStep
<1> QED BY <1>2, <1>3 DEF TestConnect

(* What is removed is nobody's that was alone. *)
LEMMA UnlinkInv == ASSUME SocketInv, NEW p \in Procs, UnlinkAddress(p) PROVE SocketInv'
<1>1. proc[p] \in Calls /\ CallOK(proc[p]) /\ proc[p].pc = "unlink" /\ UNCHANGED <<env, signals>>
  BY DEF SocketInv, CallsOK, UnlinkAddress
<1>2. CASE Set(p, Fail(p, "EACCES")) /\ path' = path
  BY <1>1, <1>2, FailOK, PlainStep DEF Errnos, Resting
<1>3. ASSUME NEW rq, rq = [proc[p] EXCEPT !.pc = "socket", !.second = TRUE], Set(p, rq)
      PROVE  SocketInv'
  <2>1. /\ rq \in Calls /\ rq.op = proc[p].op /\ rq.alone = proc[p].alone
        /\ rq.test = proc[p].test /\ rq.pc = "socket" /\ rq.sk = proc[p].sk
    BY <1>1, <1>3 DEF Calls, Pcs
  <2>2. GoesOn(p, rq)
    BY <1>1, <2>1 DEF GoesOn, CallOK, Resting
  <2>3. Busy(p)
    BY <1>1 DEF Busy, CallOK, Resting
  <2>4. ASSUME NEW q \in Procs, q # p PROVE ~Holds(q)
    BY <1>1, <2>3, <2>4 DEF SocketInv, AddressOK, AloneOK, Holds, Busy, Resting
  <2> QED BY <1>1, <1>3, <2>1, <2>2, <2>4, CallStep
<1> QED BY <1>2, <1>3 DEF UnlinkAddress

LEMMA StopInv == ASSUME SocketInv, NEW p \in Procs, Stop(p) PROVE SocketInv'
<1>1. GoesOn(p, Fresh) /\ Fresh.pc = "idle"
  BY FreshOK DEF GoesOn, Fresh
<1>2. \A q \in Procs : q # p /\ Holds(q) => path' = q
  BY DEF SocketInv, AddressOK, Holds, Stop, Deserted
<1> QED BY <1>1, <1>2, CallStep DEF Stop

LEMMA ElsewhereInv == ASSUME SocketAssumption, SocketInv, Elsewhere PROVE SocketInv'
<1>1. \A p \in Procs : path # p
  BY DEF SocketAssumption, Elsewhere
<1> QED BY <1>1 DEF Elsewhere, SocketInv, CallsOK, EnvOK, AloneOK, Busy, AddressOK, Serving

LEMMA StutterInv == ASSUME SocketInv, UNCHANGED socketvars PROVE SocketInv'
BY DEF socketvars, SocketInv, CallsOK, EnvOK, AloneOK, Busy, AddressOK, Serving

LEMMA SocketNextInv == ASSUME SocketAssumption, SocketInv, [SocketNext]_socketvars PROVE SocketInv'
<1>1. CASE \E p \in Procs : HX_local_listen(p) \/ HX_inet_listen(p) \/ HX_inet_connect(p)
  BY <1>1, BeginsInv
<1>2. CASE \E p \in Procs : NoAddress(p) \/ Socket(p) \/ Fcntl(p) \/ Connect(p) \/ Stat(p) \/ TestSocket(p)
  BY <1>2, PlainInv
<1>3. CASE \E p \in Procs : HX_socket_from_env(p)
  BY <1>3, FromEnvInv
<1>4. CASE \E p \in Procs : Bind(p) \/ Listen(p)
  BY <1>4, BindInv, ListenInv
<1>5. CASE \E p \in Procs : TestConnect(p) \/ UnlinkAddress(p) \/ Stop(p)
  BY <1>5, TestConnectInv, UnlinkInv, StopInv
<1>6. CASE Elsewhere \/ UNCHANGED socketvars
  BY <1>6, ElsewhereInv, StutterInv
<1> QED BY <1>1, <1>2, <1>3, <1>4, <1>5, <1>6 DEF SocketNext

(* What holds between any two system calls of socket.c, in any number of   *)
(* processes: what each call holds, and whose socket is at the address.    *)
THEOREM SocketInductive == ASSUME SocketAssumption PROVE SocketSpec => []SocketInv
BY SocketInitInv, SocketNextInv, PTL DEF SocketSpec

(* Whatever fails, in however many processes, a call of socket.c holds     *)
(* what it says it holds when it returns.                                  *)
THEOREM CallsAnswer == ASSUME SocketAssumption PROVE SocketSpec => []AnswerOK
<1>1. SocketInv => AnswerOK
  BY DEF SocketInv, CallsOK, CallOK, AnswerOK
<1> QED BY <1>1, SocketInductive, PTL

(* HX_local_listen removes no socket that answers: the address of a server *)
(* that came up alone stays its own.                                       *)
THEOREM AddressKept == ASSUME SocketAssumption PROVE SocketSpec => []KeepsAddress
<1>1. SocketInv => KeepsAddress
  BY DEF SocketInv, AddressOK, Serving, KeepsAddress
<1> QED BY <1>1, SocketInductive, PTL

-----------------------------------------------------------------------------
(* The kernel's walk.                                                      *)

(* Where walks begin: so many links, such components. *)
Walks == (0 .. MaxDeref) \X Seq(Components)

(* Following a link or a component leaves less to do: fewer links, or      *)
(* fewer components.                                                       *)
Less(v, w) == v[1] < w[1] \/ (v[1] = w[1] /\ Len(v[2]) < Len(w[2]))

(* A set of naturals that is not empty has a least element. *)
LEMMA LeastNat ==
    ASSUME NEW S \in SUBSET Nat, S # {}
    PROVE  \E x \in S : \A y \in S : x <= y
<1>1. PICK x \in S : \A y \in S : ~(<<y, x>> \in OpToRel(<, Nat))
  BY NatLessThanWellFounded, WFMin
<1>2. ASSUME NEW y \in S PROVE x <= y
  <2>1. <<y, x>> \in Nat \X Nat /\ ~(<<y, x>> \in {ss \in Nat \X Nat : ss[1] < ss[2]})
    BY <1>1 DEF OpToRel
  <2> QED BY <2>1
<1> QED BY <1>2

(* Induction over the naturals, said of a set. *)
LEMMA NatInd ==
    ASSUME NEW P, 0 \in P, \A n \in Nat : n \in P => n + 1 \in P
    PROVE  \A n \in Nat : n \in P
<1> DEFINE S == Nat \ P
<1>1. SUFFICES ASSUME S # {} PROVE FALSE
  OBVIOUS
<1>2. S \in SUBSET Nat
  OBVIOUS
<1> HIDE DEF S
<1>3. PICK x \in S : \A y \in S : x <= y
  BY <1>1, <1>2, LeastNat
<1> USE DEF S
<1>4. x # 0 /\ x \in Nat
  OBVIOUS
<1>5. x - 1 \in Nat /\ x - 1 \in P
  BY <1>3, <1>4
<1>6. (x - 1) + 1 \in P
  BY <1>5
<1> QED BY <1>4, <1>6

(* What a walk consists of. *)
LEMMA WalkParts ==
    ASSUME RealpathAssumption, NEW w \in Walks
    PROVE  /\ w[1] \in 0 .. MaxDeref /\ w[1] \in Nat /\ MaxDeref \in Nat
           /\ w[2] \in Seq(Components) /\ Len(w[2]) \in Nat
<1>1. MaxDeref \in Nat
  BY DEF RealpathAssumption
<1>2. w[1] \in 0 .. MaxDeref /\ w[2] \in Seq(Components)
  BY DEF Walks
<1> QED BY <1>1, <1>2

(* Among some walks there is always one with the least to do. *)
LEMMA LeastWalk ==
    ASSUME RealpathAssumption, NEW B \in SUBSET Walks, B # {}
    PROVE  \E w \in B : \A v \in B : ~Less(v, w)
<1> DEFINE K == {w[1] : w \in B}
<1>0. \A w \in B : w[1] \in Nat /\ w[2] \in Seq(Components) /\ Len(w[2]) \in Nat
  BY WalkParts
<1>1. K \in SUBSET Nat /\ K # {}
  BY <1>0
<1> HIDE DEF K
<1>2. PICK k \in K : \A y \in K : k <= y
  BY <1>1, LeastNat
<1> USE DEF K
<1> DEFINE N == {Len(w[2]) : w \in {x \in B : x[1] = k}}
<1>3. N \in SUBSET Nat /\ N # {}
  BY <1>0
<1>3a. \A w \in B : k <= w[1] /\ (w[1] = k => Len(w[2]) \in N)
  BY <1>2
<1>3b. \A n \in N : \E w \in B : w[1] = k /\ Len(w[2]) = n
  OBVIOUS
<1> HIDE DEF N, K
<1>4. PICK n \in N : \A y \in N : n <= y
  BY <1>3, LeastNat
<1>5. PICK w \in B : w[1] = k /\ Len(w[2]) = n
  BY <1>3b, <1>4
<1>6. ASSUME NEW v \in B, Less(v, w) PROVE FALSE
  <2>1. v[1] \in Nat /\ Len(v[2]) \in Nat /\ k \in Nat /\ n \in Nat
    BY <1>0, <1>5
  <2>2. k <= v[1] /\ (v[1] = k => n <= Len(v[2]))
    BY <1>3a, <1>4
  <2> QED BY <2>1, <2>2, <1>5, <1>6 DEF Less
<1> QED BY <1>6

(* What a link holds is a path. *)
TreeOf(t) ==
    /\ t \in [Locs -> {Missing, Directory} \cup {LinkTo(x) : x \in Targets}]
    /\ \A loc \in Locs : Len(loc) > 1 /\ t[loc] # Missing => t[Front(loc)] = Directory

(* What is found somewhere is one of the three kinds of entry. *)
LEMMA FoundIs ==
    ASSUME RealpathAssumption, NEW t, TreeOf(t), NEW loc
    PROVE  \/ Found(t, loc) = Missing
           \/ Found(t, loc) = Directory
           \/ /\ Found(t, loc).kind = "link"
              /\ Found(t, loc).abs \in BOOLEAN
              /\ Found(t, loc).comps \in Seq(Given)
<1>1. CASE loc # <<>> /\ loc \in Locs
  <2>1. t[loc] \in {Missing, Directory} \cup {LinkTo(x) : x \in Targets}
    BY <1>1 DEF TreeOf
  <2>2. ASSUME NEW x \in Targets, t[loc] = LinkTo(x)
        PROVE  t[loc].kind = "link" /\ t[loc].abs \in BOOLEAN /\ t[loc].comps \in Seq(Given)
    <3>1. x \in [abs : BOOLEAN, comps : Seq(Given)]
      BY DEF RealpathAssumption
    <3> QED BY <2>2, <3>1 DEF LinkTo
  <2>3. Found(t, loc) = t[loc]
    BY <1>1 DEF Found
  <2> QED BY <2>1, <2>2, <2>3
<1>2. CASE ~(loc # <<>> /\ loc \in Locs)
  BY <1>2 DEF Found
<1> QED BY <1>1, <1>2

(* The three kinds are told apart. *)
LEMMA Kinds == Missing.kind = "none" /\ Directory.kind = "dir"
  BY DEF Missing, Directory

(* Given components are components. *)
LEMMA GivenSeq ==
    ASSUME NEW s \in Seq(Given), NEW q \in Seq(Components)
    PROVE  s \o q \in Seq(Components) /\ s \in Seq(Components)
<1>1. Given \subseteq Components
  BY DEF Components
<1>2. s \in Seq(Components)
  BY <1>1
<1> QED BY <1>2

(* Taking a component leaves less. *)
LEMMA TailLess ==
    ASSUME NEW q \in Seq(Components), q # <<>>
    PROVE  /\ Tail(q) \in Seq(Components) /\ Head(q) \in Components
           /\ Len(Tail(q)) < Len(q)
  OBVIOUS

(* Components that lead nowhere else. *)
Still(c) == c \in {"", "."}

(* Nothing is left of the path. *)
Ended(w) == w[2] = <<>>

(* The same walk behind the first component, or behind a link. *)
Behind(w) == <<w[1], Tail(w[2])>>
Linked(w, here) == <<w[1] - 1, here.comps \o Tail(w[2])>>
LinkFrom(here, loc) == IF here.abs THEN <<>> ELSE loc

(* What the first component is at loc. *)
Meets(t, w, loc, here) == here = Found(t, Append(loc, Head(w[2])))

(* Each kind of component. *)
LEMMA OnwardEnd ==
    ASSUME NEW t, NEW f, NEW w, NEW loc, Ended(w)
    PROVE  Onward(t, f, w, loc) = loc
  BY DEF Still, Ended, Behind, Linked, LinkFrom, Onward

(* The six ways on: staying, *)
LEMMA OnwardHere ==
    ASSUME RealpathAssumption, NEW t, NEW f, NEW w, NEW loc, ~Ended(w),
           Still(Head(w[2]))
    PROVE  Onward(t, f, w, loc) = f[Behind(w)][loc]
  BY DEF Still, Ended, Behind, Linked, LinkFrom, Onward, RealpathAssumption

(* up, *)
LEMMA OnwardUp ==
    ASSUME RealpathAssumption, NEW t, NEW f, NEW w, NEW loc, ~Ended(w), Head(w[2]) = ".."
    PROVE  Onward(t, f, w, loc) = f[Behind(w)][Upwards(loc)]
  BY DEF Still, Ended, Behind, Linked, LinkFrom, Onward, RealpathAssumption

(* to an error, *)
LEMMA OnwardMissing ==
    ASSUME RealpathAssumption, NEW t, NEW f, NEW w, NEW loc, ~Ended(w), Head(w[2]) \in Names,
           Found(t, Append(loc, Head(w[2]))).kind = "none"
    PROVE  Onward(t, f, w, loc) = Nowhere("ENOENT")
  BY DEF Still, Ended, Behind, Linked, LinkFrom, Onward, RealpathAssumption

(* into a directory, *)
LEMMA OnwardDown ==
    ASSUME RealpathAssumption, NEW t, NEW f, NEW w, NEW loc, ~Ended(w), Head(w[2]) \in Names,
           Found(t, Append(loc, Head(w[2]))).kind = "dir"
    PROVE  Onward(t, f, w, loc) = f[Behind(w)][Append(loc, Head(w[2]))]
  BY DEF Still, Ended, Behind, Linked, LinkFrom, Onward, RealpathAssumption

(* into one link too many, *)
LEMMA OnwardLoop ==
    ASSUME RealpathAssumption, NEW t, NEW f, NEW w, NEW loc, ~Ended(w), Head(w[2]) \in Names,
           Found(t, Append(loc, Head(w[2]))).kind = "link", w[1] = 0
    PROVE  Onward(t, f, w, loc) = Nowhere("ELOOP")
  BY DEF Still, Ended, Behind, Linked, LinkFrom, Onward, RealpathAssumption

(* and along a link. *)
LEMMA OnwardLink ==
    ASSUME RealpathAssumption, NEW t, NEW f, NEW w, NEW loc, ~Ended(w), Head(w[2]) \in Names,
           NEW here, Meets(t, w, loc, here), here.kind = "link", w[1] # 0
    PROVE  Onward(t, f, w, loc)
             = f[Linked(w, here)][LinkFrom(here, loc)]
  BY DEF Meets, Still, Ended, Behind, Linked, LinkFrom, Onward, RealpathAssumption

(* A step of the walk looks only at walks with less to do. *)
LEMMA OnwardDepends ==
    ASSUME RealpathAssumption, NEW t, TreeOf(t), NEW w \in Walks, NEW f, NEW g,
           \A v \in Walks : Less(v, w) => f[v] = g[v], NEW loc
    PROVE  Onward(t, f, w, loc) = Onward(t, g, w, loc)
<1>0. w[1] \in 0 .. MaxDeref /\ w[2] \in Seq(Components) /\ MaxDeref \in Nat
  BY WalkParts
<1>1. ASSUME ~Ended(w) PROVE f[Behind(w)] = g[Behind(w)]
  <2>1. Tail(w[2]) \in Seq(Components) /\ Len(Tail(w[2])) < Len(w[2])
    BY <1>0, <1>1, TailLess DEF Ended
  <2>2. Behind(w) \in Walks
    BY <2>1, <1>0 DEF Walks, Behind
  <2>3. Less(Behind(w), w)
    BY <2>1 DEF Less, Behind
  <2> QED BY <2>2, <2>3
<1> DEFINE here == Found(t, Append(loc, Head(w[2])))
<1>2. ASSUME ~Ended(w), w[1] # 0, here.kind = "link"
      PROVE  f[Linked(w, here)] = g[Linked(w, here)]
  <2>1. Tail(w[2]) \in Seq(Components)
    BY <1>0, <1>2, TailLess DEF Ended
  <2>2. here.comps \in Seq(Given)
    BY <1>2, FoundIs, Kinds
  <2> HIDE DEF here
  <2>3. here.comps \o Tail(w[2]) \in Seq(Components)
    BY <2>1, <2>2, GivenSeq
  <2>4. w[1] - 1 \in 0 .. MaxDeref /\ w[1] - 1 < w[1]
    BY <1>0, <1>2
    <2>5. Linked(w, here) \in Walks
    BY <2>3, <2>4 DEF Walks, Linked
  <2>6. Less(Linked(w, here), w)
    BY <2>4 DEF Less, Linked
  <2> QED BY <2>5, <2>6
<1>3. here.kind \in {"none", "dir", "link"}
  BY FoundIs, Kinds
<1> HIDE DEF here
<1>4. CASE Ended(w)
  BY <1>4, OnwardEnd
<1>5. ASSUME ~Ended(w) PROVE Onward(t, f, w, loc) = Onward(t, g, w, loc)
  <2>0. Head(w[2]) \in Names \cup {"", ".", ".."}
    BY <1>0, <1>5, TailLess DEF Ended, Components, Given
  <2>1. CASE Still(Head(w[2]))
    <3>1. ASSUME NEW e PROVE Onward(t, e, w, loc) = e[Behind(w)][loc]
      BY <2>1, <1>5, OnwardHere
    <3>2. f[Behind(w)] = g[Behind(w)]
      BY <1>1, <1>5
    <3> QED BY <3>1, <3>2, Zenon
  <2>2. CASE Head(w[2]) = ".."
    <3>1. ASSUME NEW e PROVE Onward(t, e, w, loc) = e[Behind(w)][Upwards(loc)]
      BY <2>2, <1>5, OnwardUp
    <3>2. f[Behind(w)] = g[Behind(w)]
      BY <1>1, <1>5
    <3> QED BY <3>1, <3>2, Zenon
  <2>3. CASE Head(w[2]) \in Names /\ here.kind = "none"
    BY <2>3, <1>5, OnwardMissing DEF here
  <2>4. CASE Head(w[2]) \in Names /\ here.kind = "dir"
    <3>1. ASSUME NEW e PROVE Onward(t, e, w, loc) = e[Behind(w)][Append(loc, Head(w[2]))]
      BY <2>4, <1>5, OnwardDown DEF here
    <3>2. f[Behind(w)] = g[Behind(w)]
      BY <1>1, <1>5
    <3> QED BY <3>1, <3>2, Zenon
  <2>5. CASE Head(w[2]) \in Names /\ here.kind = "link" /\ w[1] = 0
    BY <2>5, <1>5, OnwardLoop DEF here
  <2>6. CASE Head(w[2]) \in Names /\ here.kind = "link" /\ w[1] # 0
    <3>1. f[Linked(w, here)] = g[Linked(w, here)]
      BY <2>6, <1>2, <1>5
    <3>2. Meets(t, w, loc, here)
      BY DEF here, Meets
    <3>3. ASSUME NEW e
          PROVE  Onward(t, e, w, loc)
                   = e[Linked(w, here)][LinkFrom(here, loc)]
      BY <2>6, <3>2, <1>5, OnwardLink
    <3> QED BY <3>1, <3>3, Zenon
  <2> QED BY <2>0, <2>1, <2>2, <2>3, <2>4, <2>5, <2>6, <1>3 DEF Still
<1> QED BY <1>4, <1>5

Onwards(t, f, w) == [loc \in Seq(Names) |-> Onward(t, f, w, loc)]

(* A step needs the walk for what is less only. *)
LEMMA OnwardsDepends ==
    ASSUME RealpathAssumption, NEW t, TreeOf(t), NEW w \in Walks, NEW f, NEW g,
           \A v \in Walks : Less(v, w) => f[v] = g[v]
    PROVE  Onwards(t, f, w) = Onwards(t, g, w)
<1>1. \A loc : Onward(t, f, w, loc) = Onward(t, g, w, loc)
  BY OnwardDepends
<1> QED BY <1>1, Zenon DEF Onwards

(* f walks right from w and from wherever there is less to do. *)
Solves(t, f, w) == \A v \in Walks : v = w \/ Less(v, w) => f[v] = Onwards(t, f, v)

(* The order of walks is transitive. *)
LEMMA LessTrans ==
    ASSUME RealpathAssumption, NEW u \in Walks, NEW v \in Walks, NEW w \in Walks,
           Less(u, v), v = w \/ Less(v, w)
    PROVE  Less(u, w)
<1>1. ASSUME NEW x \in Walks PROVE x[1] \in Int /\ Len(x[2]) \in Int
  BY WalkParts
<1>2. /\ u[1] \in Int /\ Len(u[2]) \in Int /\ v[1] \in Int /\ Len(v[2]) \in Int
      /\ w[1] \in Int /\ Len(w[2]) \in Int
  BY <1>1
<1> QED BY <1>2 DEF Less

(* Two walks that take these steps are the same. *)
LEMMA SolvesOnce ==
    ASSUME RealpathAssumption, NEW t, TreeOf(t), NEW w \in Walks, NEW f, NEW g,
           Solves(t, f, w), Solves(t, g, w)
    PROVE  \A v \in Walks : v = w \/ Less(v, w) => f[v] = g[v]
<1> DEFINE B == {v \in Walks : (v = w \/ Less(v, w)) /\ f[v] # g[v]}
<1>1. SUFFICES ASSUME B # {} PROVE FALSE
  OBVIOUS
<1>2. B \in SUBSET Walks
  OBVIOUS
<1>3. PICK v \in B : \A u \in B : ~Less(u, v)
  BY <1>1, <1>2, LeastWalk
<1>4. ASSUME NEW u \in Walks, Less(u, v) PROVE f[u] = g[u]
  <2>1. Less(u, w)
    BY <1>4, LessTrans
  <2> QED BY <2>1, <1>3, <1>4
<1>5. Onwards(t, f, v) = Onwards(t, g, v)
  BY <1>4, OnwardsDepends
<1>6. f[v] = Onwards(t, f, v) /\ g[v] = Onwards(t, g, v)
  BY DEF Solves
<1> QED BY <1>5, <1>6

(* The function that Walk describes exists. *)
LEMMA WalkExists ==
    ASSUME RealpathAssumption, NEW t, TreeOf(t)
    PROVE  \E f : f = [w \in Walks |-> Onwards(t, f, w)]
<1> DEFINE Solution(v) == CHOOSE f : Solves(t, f, v)
           F == [v \in Walks |-> Solution(v)[v]]
<1>1. ASSUME NEW w \in Walks, \A v \in Walks : Less(v, w) => \E f : Solves(t, f, v)
      PROVE  \A v \in Walks : Less(v, w) => F[v] = Onwards(t, F, v)
  <2> TAKE v \in Walks
  <2> HAVE Less(v, w)
  <2>1. Solves(t, Solution(v), v)
    BY <1>1
  <2>2. ASSUME NEW u \in Walks, Less(u, v) PROVE Solution(v)[u] = F[u]
    <3>1. Less(u, w)
      BY <2>2, LessTrans
    <3>2. Solves(t, Solution(u), u)
      BY <1>1, <3>1
    <3>3. Solves(t, Solution(v), u)
      <4> HIDE DEF Solution
      <4> SUFFICES ASSUME NEW x \in Walks, x = u \/ Less(x, u)
                   PROVE  Solution(v)[x] = Onwards(t, Solution(v), x)
        BY DEF Solves
      <4>1. Less(x, v)
        BY <2>2, LessTrans
      <4> QED BY <2>1, <4>1 DEF Solves
    <3> HIDE DEF Solution
    <3>4. Solution(v)[u] = Solution(u)[u]
      BY <3>2, <3>3, SolvesOnce
    <3> QED BY <3>4
  <2> HIDE DEF Solution, F
  <2>3. Onwards(t, Solution(v), v) = Onwards(t, F, v)
    BY <2>2, OnwardsDepends
  <2>4. F[v] = Solution(v)[v]
    BY DEF F
  <2> QED BY <2>1, <2>3, <2>4 DEF Solves
<1> DEFINE B == {w \in Walks : ~ \E f : Solves(t, f, w)}
<1>2. B = {}
  <2>1. SUFFICES ASSUME B # {} PROVE FALSE
    OBVIOUS
  <2>2. PICK w \in B : \A v \in B : ~Less(v, w)
    BY <2>1, LeastWalk
  <2>3. \A v \in Walks : Less(v, w) => \E f : Solves(t, f, v)
    BY <2>2
  <2>4. \A v \in Walks : Less(v, w) => F[v] = Onwards(t, F, v)
    BY <2>3, <1>1
  <2> DEFINE g == [v \in Walks |-> Onwards(t, F, v)]
  <2> HIDE DEF F
  <2>5. ASSUME NEW v \in Walks, v = w \/ Less(v, w) PROVE g[v] = Onwards(t, g, v)
    <3>1. ASSUME NEW u \in Walks, Less(u, v) PROVE F[u] = g[u]
      <4>1. Less(u, w)
        BY <3>1, <2>5, LessTrans
      <4> QED BY <4>1, <2>4
    <3>2. g[v] = Onwards(t, F, v)
      OBVIOUS
    <3> HIDE DEF g
    <3>3. Onwards(t, F, v) = Onwards(t, g, v)
      BY <3>1, OnwardsDepends
    <3> QED BY <3>2, <3>3
  <2> HIDE DEF g
  <2>6. Solves(t, g, w)
    BY <2>5 DEF Solves
  <2> QED BY <2>6
<1>3. ASSUME NEW w \in Walks PROVE F[w] = Onwards(t, F, w)
  <2>1. \A v \in Walks : \E f : Solves(t, f, v)
    BY <1>2
  <2>2. \A v \in Walks : Less(v, w) => F[v] = Onwards(t, F, v)
    BY <2>1, <1>1
  <2>3. Solves(t, Solution(w), w)
    BY <2>1
  <2> HIDE DEF Solution, F
  <2>4. ASSUME NEW u \in Walks, Less(u, w) PROVE Solution(w)[u] = F[u]
    <3>1. Solves(t, F, u)
      <4> SUFFICES ASSUME NEW x \in Walks, x = u \/ Less(x, u) PROVE F[x] = Onwards(t, F, x)
        BY DEF Solves
      <4>1. Less(x, w)
        BY <2>4, LessTrans
      <4> QED BY <4>1, <2>2
    <3>2. Solves(t, Solution(w), u)
      <4> SUFFICES ASSUME NEW x \in Walks, x = u \/ Less(x, u)
                   PROVE  Solution(w)[x] = Onwards(t, Solution(w), x)
        BY DEF Solves
      <4>1. Less(x, w)
        BY <2>4, LessTrans
      <4> QED BY <2>3, <4>1 DEF Solves
    <3> QED BY <3>1, <3>2, SolvesOnce
  <2>5. Onwards(t, Solution(w), w) = Onwards(t, F, w)
    BY <2>4, OnwardsDepends
  <2>6. F[w] = Solution(w)[w]
    BY DEF F
  <2> QED BY <2>3, <2>5, <2>6 DEF Solves
<1>4. F = [w \in Walks |-> F[w]]
  OBVIOUS
<1> HIDE DEF F
<1>5. F = [w \in Walks |-> Onwards(t, F, w)]
  BY <1>3, <1>4
<1> QED BY <1>5

(* So it is what Walk says. *)
LEMMA WalkIs ==
    ASSUME RealpathAssumption, NEW t, TreeOf(t), NEW k \in 0 .. MaxDeref,
           NEW q \in Seq(Components), NEW loc \in Seq(Names)
    PROVE  Walk(t)[<<k, q>>][loc] = Onward(t, Walk(t), <<k, q>>, loc)
<1>1. Walk(t) = CHOOSE f : f = [w \in Walks |-> [x \in Seq(Names) |-> Onward(t, f, w, x)]]
  BY Zenon DEF Walk, Walks
<1>2. \E f : f = [w \in Walks |-> [x \in Seq(Names) |-> Onward(t, f, w, x)]]
  BY WalkExists DEF Onwards
<1>3. Walk(t) = [w \in Walks |-> [x \in Seq(Names) |-> Onward(t, Walk(t), w, x)]]
  BY <1>1, <1>2, Zenon
<1>4. <<k, q>> \in Walks
  BY DEF Walks
<1>5. Walk(t)[<<k, q>>] = [x \in Seq(Names) |-> Onward(t, Walk(t), <<k, q>>, x)]
  BY <1>3, <1>4, Zenon
<1> QED BY <1>5, Zenon

(* Where the walk along q ends, k links being left. *)
Reach(t, k, q, loc) == Walk(t)[<<k, q>>][loc]

(* The walk begins with component c. *)
Starts(t, k, c, q, loc) ==
    /\ RealpathAssumption /\ TreeOf(t)
    /\ k \in 0 .. MaxDeref /\ c \in Components /\ q \in Seq(Components) /\ loc \in Seq(Names)

Starting(k, c, q) == <<k, <<c>> \o q>>

(* It takes its first step. *)
FirstStep(t, k, c, q, loc, w) ==
    /\ Reach(t, k, <<c>> \o q, loc) = Onward(t, Walk(t), w, loc)
    /\ ~Ended(w) /\ Head(w[2]) = c /\ Behind(w) = <<k, q>> /\ w[1] = k
    /\ \A here : Linked(w, here) = <<k - 1, here.comps \o q>>

(* A walk takes its first step, and so for each way on: *)
LEMMA ReachStart ==
    ASSUME NEW t, NEW k, NEW c, NEW q, NEW loc, Starts(t, k, c, q, loc)
    PROVE  FirstStep(t, k, c, q, loc, Starting(k, c, q))
<1> DEFINE w == Starting(k, c, q)
<1>1. /\ RealpathAssumption /\ TreeOf(t) /\ k \in 0 .. MaxDeref
      /\ c \in Components /\ q \in Seq(Components) /\ loc \in Seq(Names)
  BY DEF Starts
<1>2. <<c>> \o q \in Seq(Components) /\ Head(<<c>> \o q) = c /\ Tail(<<c>> \o q) = q /\ <<c>> \o q # <<>>
  BY <1>1
<1>3. Reach(t, k, <<c>> \o q, loc) = Onward(t, Walk(t), w, loc)
  BY <1>1, <1>2, WalkIs DEF Reach, Starting
<1>4. w[1] = k /\ w[2] = <<c>> \o q
  BY DEF Starting
<1> HIDE DEF w
<1>5. ~Ended(w) /\ Head(w[2]) = c
  BY <1>2, <1>4 DEF Ended
<1>6. Tail(w[2]) = q
  BY <1>2, <1>4
<1>7. Behind(w) = <<k, q>>
  BY <1>4, <1>6 DEF Behind
<1>8. ASSUME NEW here PROVE Linked(w, here) = <<k - 1, here.comps \o q>>
  BY <1>4, <1>6 DEF Linked
<1>9. FirstStep(t, k, c, q, loc, w)
  BY <1>3, <1>4, <1>5, <1>7, <1>8 DEF FirstStep
<1> QED BY <1>9 DEF w

(* at the end, *)
LEMMA ReachEnd ==
    ASSUME RealpathAssumption, NEW t, TreeOf(t), NEW k \in 0 .. MaxDeref, NEW loc \in Seq(Names)
    PROVE  Reach(t, k, <<>>, loc) = loc
<1> DEFINE w == <<k, <<>>>>
<1>1. Ended(w)
  BY DEF Ended
<1>2. <<>> \in Seq(Components)
  OBVIOUS
<1>3. Reach(t, k, <<>>, loc) = Onward(t, Walk(t), w, loc)
  BY <1>2, WalkIs DEF Reach
<1> HIDE DEF w
<1>4. Onward(t, Walk(t), w, loc) = loc
  BY <1>1, OnwardEnd
<1> QED BY <1>3, <1>4

(* staying, *)
LEMMA ReachStill ==
    ASSUME NEW t, NEW k, NEW c, NEW q, NEW loc, Starts(t, k, c, q, loc), Still(c)
    PROVE  Reach(t, k, <<c>> \o q, loc) = Reach(t, k, q, loc)
<1>1. PICK w : FirstStep(t, k, c, q, loc, w)
  BY ReachStart
<1>2. /\ Reach(t, k, <<c>> \o q, loc) = Onward(t, Walk(t), w, loc)
      /\ ~Ended(w) /\ Head(w[2]) = c /\ Behind(w) = <<k, q>>
  BY <1>1 DEF FirstStep
<1>3. RealpathAssumption
  BY DEF Starts
<1>4. Onward(t, Walk(t), w, loc) = Walk(t)[Behind(w)][loc]
  BY <1>2, <1>3, OnwardHere
<1> QED BY <1>2, <1>4 DEF Reach

(* up, *)
LEMMA ReachUp ==
    ASSUME NEW t, NEW k, NEW q, NEW loc, Starts(t, k, "..", q, loc)
    PROVE  Reach(t, k, <<"..">> \o q, loc) = Reach(t, k, q, Upwards(loc))
<1>1. PICK w : FirstStep(t, k, "..", q, loc, w)
  BY ReachStart
<1>2. /\ Reach(t, k, <<"..">> \o q, loc) = Onward(t, Walk(t), w, loc)
      /\ ~Ended(w) /\ Head(w[2]) = ".." /\ Behind(w) = <<k, q>>
  BY <1>1 DEF FirstStep
<1>3. RealpathAssumption
  BY DEF Starts
<1>4. Onward(t, Walk(t), w, loc) = Walk(t)[Behind(w)][Upwards(loc)]
  BY <1>2, <1>3, OnwardUp
<1> QED BY <1>2, <1>4 DEF Reach

(* to an error, *)
LEMMA ReachMissing ==
    ASSUME NEW t, NEW k, NEW c \in Names, NEW q, NEW loc, Starts(t, k, c, q, loc),
           Found(t, Append(loc, c)) = Missing
    PROVE  Reach(t, k, <<c>> \o q, loc) = Nowhere("ENOENT")
<1>1. PICK w : FirstStep(t, k, c, q, loc, w)
  BY ReachStart
<1>2. Reach(t, k, <<c>> \o q, loc) = Onward(t, Walk(t), w, loc) /\ ~Ended(w) /\ Head(w[2]) = c
  BY <1>1 DEF FirstStep
<1>3. RealpathAssumption
  BY DEF Starts
<1>4. Found(t, Append(loc, Head(w[2]))).kind = "none"
  BY <1>2, Kinds
<1>5. Onward(t, Walk(t), w, loc) = Nowhere("ENOENT")
  BY <1>2, <1>3, <1>4, OnwardMissing
<1> QED BY <1>2, <1>5

(* into a directory, *)
LEMMA ReachDown ==
    ASSUME NEW t, NEW k, NEW c \in Names, NEW q, NEW loc, Starts(t, k, c, q, loc),
           Found(t, Append(loc, c)) = Directory
    PROVE  Reach(t, k, <<c>> \o q, loc) = Reach(t, k, q, Append(loc, c))
<1>1. PICK w : FirstStep(t, k, c, q, loc, w)
  BY ReachStart
<1>2. /\ Reach(t, k, <<c>> \o q, loc) = Onward(t, Walk(t), w, loc)
      /\ ~Ended(w) /\ Head(w[2]) = c /\ Behind(w) = <<k, q>>
  BY <1>1 DEF FirstStep
<1>3. RealpathAssumption
  BY DEF Starts
<1>4. Found(t, Append(loc, Head(w[2]))).kind = "dir"
  BY <1>2, Kinds
<1>5. Onward(t, Walk(t), w, loc) = Walk(t)[Behind(w)][Append(loc, c)]
  BY <1>2, <1>3, <1>4, OnwardDown
<1> QED BY <1>2, <1>5 DEF Reach

(* into one link too many, *)
LEMMA ReachLoop ==
    ASSUME NEW t, NEW k, NEW c \in Names, NEW q, NEW loc, Starts(t, k, c, q, loc),
           Found(t, Append(loc, c)).kind = "link", k = 0
    PROVE  Reach(t, k, <<c>> \o q, loc) = Nowhere("ELOOP")
<1>1. PICK w : FirstStep(t, k, c, q, loc, w)
  BY ReachStart
<1>2. /\ Reach(t, k, <<c>> \o q, loc) = Onward(t, Walk(t), w, loc)
      /\ ~Ended(w) /\ Head(w[2]) = c /\ w[1] = k
  BY <1>1 DEF FirstStep
<1>3. RealpathAssumption
  BY DEF Starts
<1>5. Onward(t, Walk(t), w, loc) = Nowhere("ELOOP")
  BY <1>2, <1>3, OnwardLoop
<1> QED BY <1>2, <1>5

LinkAt(t, loc, c, here) == here = Found(t, Append(loc, c)) /\ here.kind = "link"

(* along a link. *)
LEMMA ReachLink ==
    ASSUME NEW t, NEW k, NEW c \in Names, NEW q, NEW loc, Starts(t, k, c, q, loc),
           NEW here, LinkAt(t, loc, c, here), k # 0
    PROVE  Reach(t, k, <<c>> \o q, loc)
             = Reach(t, k - 1, here.comps \o q, LinkFrom(here, loc))
<1>1. PICK w : FirstStep(t, k, c, q, loc, w)
  BY ReachStart
<1>2. /\ Reach(t, k, <<c>> \o q, loc) = Onward(t, Walk(t), w, loc)
      /\ ~Ended(w) /\ Head(w[2]) = c /\ w[1] = k
      /\ Linked(w, here) = <<k - 1, here.comps \o q>>
  BY <1>1 DEF FirstStep
<1>3. RealpathAssumption
  BY DEF Starts
<1>4. Meets(t, w, loc, here)
  BY <1>2 DEF Meets, LinkAt
<1>4a. here.kind = "link"
  BY DEF LinkAt
<1>4b. w[1] # 0 /\ ~Ended(w) /\ Head(w[2]) \in Names
  BY <1>2
<1>5. Onward(t, Walk(t), w, loc) = Walk(t)[Linked(w, here)][LinkFrom(here, loc)]
  BY <1>3, <1>4, <1>4a, <1>4b, OnwardLink
<1> QED BY <1>2, <1>5 DEF Reach

-----------------------------------------------------------------------------
(* Directories and the paths to them.                                      *)

Opened(t, loc) == loc \in Locs \cup {<<>>} /\ Found(t, loc) = Directory

(* The walk along d from the root, whatever follows it, gets to loc without *)
(* following a link.                                                       *)
Leads(t, d, loc) ==
    \A k \in 0 .. MaxDeref, q \in Seq(Components) :
        Reach(t, k, d \o q, <<>>) = Reach(t, k, q, loc)

(* An open place is a sequence of names. *)
LEMMA OpenedSeq ==
    ASSUME RealpathAssumption, NEW t, NEW loc, Opened(t, loc)
    PROVE  loc \in Seq(Names) /\ loc \in Seq(Components) /\ Len(loc) \in Nat
<1>1. Locs \subseteq Seq(Names)
  BY DEF RealpathAssumption
<1>2. loc \in Seq(Names)
  <2>1. loc \in Locs \/ loc = <<>>
    BY DEF Opened
  <2>2. <<>> \in Seq(Names)
    OBVIOUS
  <2> QED BY <1>1, <2>1, <2>2
<1>3. Names \subseteq Components
  BY DEF Components, Given
<1> QED BY <1>2, <1>3

(* A sequence is its front and its last element. *)
LEMMA FrontLast ==
    ASSUME NEW S, NEW s \in Seq(S), s # <<>>
    PROVE  /\ Front(s) \in Seq(S) /\ Len(Front(s)) = Len(s) - 1
           /\ s[Len(s)] \in S /\ s = Append(Front(s), s[Len(s)])
           /\ s = Front(s) \o <<s[Len(s)]>>
  BY DEF Front

(* What is above an open place is open, *)
LEMMA UpOpened ==
    ASSUME RealpathAssumption, NEW t, TreeOf(t), NEW loc, Opened(t, loc)
    PROVE  Opened(t, Upwards(loc))
<1>1. CASE loc = <<>>
  BY <1>1 DEF Upwards
<1>2. CASE loc # <<>>
  <2>1. loc \in Locs /\ t[loc] = Directory /\ loc \in Seq(Names)
    BY <1>2, OpenedSeq DEF Opened, Found
  <2>2a. Front(loc) \in Seq(Names) /\ Len(Front(loc)) = Len(loc) - 1
    BY <2>1, <1>2, FrontLast
  <2>2. Front(loc) \in Seq(Names) /\ Len(Front(loc)) = Len(loc) - 1 /\ Len(loc) \in Nat /\ Len(loc) # 0
    BY <2>1, <2>2a, <1>2
  <2>3. CASE Len(loc) = 1
    <3>1. Front(loc) = <<>>
      BY <2>2, <2>3
    <3> QED BY <3>1, <1>2 DEF Upwards, Opened, Found
  <2>4. CASE Len(loc) > 1
    <3>1. Front(loc) \in Locs
      BY <2>1, <2>4 DEF RealpathAssumption
    <3>2. t[loc] # Missing
      BY <2>1, Kinds
    <3>3. t[Front(loc)] = Directory
      BY <2>1, <2>4, <3>2 DEF TreeOf
    <3> QED BY <3>1, <3>3, <1>2 DEF Upwards, Opened, Found
  <2> QED BY <2>2, <2>3, <2>4
<1> QED BY <1>1, <1>2

(* and so is a directory in it. *)
LEMMA DownOpened ==
    ASSUME RealpathAssumption, NEW t, NEW loc, NEW c, Opened(t, loc),
           Found(t, Append(loc, c)) = Directory, c \in Names
    PROVE  Opened(t, Append(loc, c))
<1>1. Append(loc, c) # <<>>
  BY OpenedSeq
<1>2. Append(loc, c) \in Locs
  BY <1>1, Kinds DEF Found
<1> QED BY <1>2 DEF Opened

(* Nothing leads where it starts. *)
LEMMA LeadsEmpty ==
    ASSUME NEW t
    PROVE  Leads(t, <<>>, <<>>)
<1>1. \A q \in Seq(Components) : <<>> \o q = q
  OBVIOUS
<1> QED BY <1>1 DEF Leads

(* One component more. *)
LEMMA LeadsOn ==
    ASSUME NEW t, NEW d \in Seq(Components), NEW loc, Leads(t, d, loc),
           NEW c \in Components, NEW to,
           \A k \in 0 .. MaxDeref, q \in Seq(Components) :
               Reach(t, k, <<c>> \o q, loc) = Reach(t, k, q, to)
    PROVE  Leads(t, Append(d, c), to)
<1> SUFFICES ASSUME NEW k \in 0 .. MaxDeref, NEW q \in Seq(Components)
             PROVE  Reach(t, k, Append(d, c) \o q, <<>>) = Reach(t, k, q, to)
  BY DEF Leads
<1>1. <<c>> \o q \in Seq(Components)
  OBVIOUS
<1>2. Append(d, c) \o q = d \o (<<c>> \o q)
  OBVIOUS
<1>3. Reach(t, k, d \o (<<c>> \o q), <<>>) = Reach(t, k, <<c>> \o q, loc)
  BY <1>1 DEF Leads
<1> QED BY <1>2, <1>3

(* A directory is reached by its own name. *)
LEMMA LeadsSelf ==
    ASSUME RealpathAssumption, NEW t, TreeOf(t), NEW loc, Opened(t, loc)
    PROVE  Leads(t, loc, loc)
<1> DEFINE P == {n \in Nat : \A l : Opened(t, l) /\ Len(l) = n => Leads(t, l, l)}
<1>1. 0 \in P
  <2>1. ASSUME NEW l, Opened(t, l), Len(l) = 0 PROVE Leads(t, l, l)
    <3>1. l = <<>>
      BY <2>1, OpenedSeq
    <3> QED BY <3>1, LeadsEmpty
  <2> QED BY <2>1
<1>2. ASSUME NEW n \in Nat, n \in P PROVE n + 1 \in P
  <2>1. ASSUME NEW l, Opened(t, l), Len(l) = n + 1 PROVE Leads(t, l, l)
    <3>1. l \in Seq(Names) /\ l # <<>>
      BY <2>1, OpenedSeq
    <3> DEFINE c == l[Len(l)]
               f == Front(l)
    <3>2. /\ f \in Seq(Names) /\ Len(f) = n /\ c \in Names /\ l = Append(f, c)
      <4>1. /\ Front(l) \in Seq(Names) /\ Len(Front(l)) = Len(l) - 1
            /\ l[Len(l)] \in Names /\ l = Append(Front(l), l[Len(l)])
        BY <3>1, FrontLast
      <4> QED BY <4>1, <2>1
    <3>3. Opened(t, f)
      BY <3>1, <2>1, UpOpened DEF Upwards
    <3> HIDE DEF c, f
    <3>4. Leads(t, f, f)
      BY <3>2, <3>3, <1>2
    <3>5. Found(t, Append(f, c)) = Directory
      BY <2>1, <3>2 DEF Opened
    <3>6. c \in Components /\ f \in Seq(Components)
      BY <3>2, <3>3, OpenedSeq DEF Components, Given
    <3>7. ASSUME NEW k \in 0 .. MaxDeref, NEW q \in Seq(Components)
          PROVE  Reach(t, k, <<c>> \o q, f) = Reach(t, k, q, Append(f, c))
      <4>1. Starts(t, k, c, q, f)
        BY <3>2, <3>6 DEF Starts
      <4> QED BY <4>1, <3>2, <3>5, ReachDown
    <3>8. Leads(t, Append(f, c), Append(f, c))
      BY <3>4, <3>6, <3>7, LeadsOn
    <3> QED BY <3>2, <3>8
  <2> QED BY <2>1
<1> HIDE DEF P
<1>3. \A n \in Nat : n \in P
  BY <1>1, <1>2, NatInd
<1>4. Len(loc) \in Nat
  BY OpenedSeq
<1> QED BY <1>3, <1>4 DEF P

(* What leads from the root to the root. *)
Idle(c) == c = "" \/ c = ".."

(* So it is behind a component that leads from the root to the root. *)
LEMMA LeadsBehind ==
    ASSUME RealpathAssumption, NEW t, TreeOf(t), NEW loc, Opened(t, loc), NEW c, Idle(c)
    PROVE  Leads(t, <<c>> \o loc, loc)
<1> SUFFICES ASSUME NEW k \in 0 .. MaxDeref, NEW q \in Seq(Components)
             PROVE  Reach(t, k, (<<c>> \o loc) \o q, <<>>) = Reach(t, k, q, loc)
  BY DEF Leads
<1>0. loc \in Seq(Components)
  BY OpenedSeq
<1>1. c \in Components /\ <<>> \in Seq(Names)
  <2>1. "" \in Components /\ ".." \in Components
    BY DEF Components, Given
  <2>2. <<>> \in Seq(Names)
    OBVIOUS
  <2> QED BY <2>1, <2>2 DEF Idle
<1>2. (<<c>> \o loc) \o q = <<c>> \o (loc \o q) /\ loc \o q \in Seq(Components)
  <2>1. <<c>> \in Seq(Components)
    BY <1>1
  <2> QED BY <1>0, <2>1
<1>3. Starts(t, k, c, loc \o q, <<>>)
  BY <1>1, <1>2 DEF Starts
<1>4. Reach(t, k, <<c>> \o (loc \o q), <<>>) = Reach(t, k, loc \o q, <<>>)
  <2>1. ASSUME c = "" PROVE Reach(t, k, <<c>> \o (loc \o q), <<>>) = Reach(t, k, loc \o q, <<>>)
    <3>1. Still(c)
      BY <2>1 DEF Still
    <3> QED BY <3>1, <1>3, ReachStill
  <2>2. CASE c = ".."
    <3>1. Upwards(<<>>) = <<>>
      BY DEF Upwards
    <3> QED BY <3>1, <2>2, <1>3, ReachUp
  <2> QED BY <2>1, <2>2 DEF Idle
<1>5. Reach(t, k, loc \o q, <<>>) = Reach(t, k, q, loc)
  BY LeadsSelf DEF Leads
<1> QED BY <1>2, <1>4, <1>5

-----------------------------------------------------------------------------
(* The invariant of HX_realpath.                                           *)

(* What SamePlace is about. *)
Resolving ==
    /\ orig.abs \/ "ABSOLUTE" \in flags
    /\ "PARENT" \in flags => "SELF" \in flags

(* With resolving of "..", dest is the name of loc, behind at most one     *)
(* component that stays in the root.                                       *)
Plain(d, loc) ==
    "PARENT" \in flags =>
       \/ d = loc
       \/ d = <<"">> \o loc
       \/ d = <<"..">> \o loc /\ "ABSOLUTE" \notin flags

(* dest leads to loc, from which what is left of the path leads where the  *)
(* kernel gets.                                                            *)
Arrived(d, q, n, loc) ==
    /\ Opened(tree, loc)
    /\ Leads(tree, d, loc)
    /\ Reach(tree, MaxDeref - n, q, loc) = Place(orig.abs, orig.comps)
    /\ Plain(d, loc)

Fixed ==
    /\ TreeOf(tree)
    /\ Opened(tree, cwd)
    /\ orig \in [abs : BOOLEAN, comps : Seq(Given)]

Typed ==
    /\ left \in Seq(Given) /\ dest \in Seq(Components)
    /\ deref \in 0 .. MaxDeref
    /\ rq_slash = TRUE
    /\ dest = <<>> \/ dabs = TRUE

RealpathInv ==
    /\ Fixed
    /\ Resolving /\ outcome = "none" => Typed /\ \E loc : Arrived(dest, left, deref, loc)
    /\ Resolving /\ outcome # "none" => SamePlace

Same == UNCHANGED <<tree, cwd, flags, orig>>

(* Where a path leads depends on what the loop leaves alone. *)
LEMMA SameIs ==
    ASSUME Same
    PROVE  /\ Fixed' <=> Fixed
           /\ Resolving' <=> Resolving
           /\ Place(orig.abs, orig.comps)' = Place(orig.abs, orig.comps)
<1>0. tree' = tree /\ cwd' = cwd /\ flags' = flags /\ orig' = orig
  BY DEF Same
<1>1. Fixed' <=> Fixed
  BY <1>0, Zenon DEF Fixed, TreeOf, Opened
<1>2. Resolving' <=> Resolving
  BY <1>0, Zenon DEF Resolving
<1>3. Place(orig.abs, orig.comps)' = Place(orig.abs, orig.comps)
  BY <1>0, Zenon DEF Place
<1> QED BY <1>1, <1>2, <1>3

(* The loop goes on. *)
LEMMA StillOn ==
    ASSUME RealpathInv, Same, Typed', NEW loc, Arrived(dest', left', deref', loc), outcome' = "none"
    PROVE  RealpathInv'
<1>1. Fixed'
  BY SameIs DEF RealpathInv
<1>2. tree' = tree /\ flags' = flags /\ Place(orig.abs, orig.comps)' = Place(orig.abs, orig.comps)
  BY SameIs DEF Same
<1>3. Arrived(dest, left, deref, loc)'
  BY <1>2, Zenon DEF Arrived, Plain
<1>4. (\E x : Arrived(dest, left, deref, x))'
  BY <1>3, Zenon
<1> QED BY <1>1, <1>4 DEF RealpathInv

(* The loop ends. *)
LEMMA ComesToEnd ==
    ASSUME RealpathInv, Same, outcome' # "none", SamePlace'
    PROVE  RealpathInv'
<1>1. Fixed'
  BY SameIs DEF RealpathInv
<1> QED BY <1>1 DEF RealpathInv

(* Nothing is said of other calls. *)
LEMMA NotAsked ==
    ASSUME RealpathInv, Same, ~Resolving
    PROVE  RealpathInv'
<1>1. Fixed' /\ ~Resolving'
  BY SameIs DEF RealpathInv
<1> QED BY <1>1 DEF RealpathInv

-----------------------------------------------------------------------------
(* Initial states.                                                         *)

(* Names are given, what is given is a component, and so is the empty one. *)
LEMMA ComponentSets ==
    /\ Given \subseteq Components /\ Names \subseteq Given
    /\ "" \in Components /\ "." \in Given /\ ".." \in Given
  BY DEF Given, Components

(* Tree, working directory and path as they are given. *)
LEMMA InitFixed ==
    ASSUME RealpathAssumption, RealpathInit
    PROVE  Fixed
<1>1. TreeOf(tree)
  BY DEF RealpathInit, TreeOf
<1>2. Opened(tree, cwd)
  BY DEF RealpathInit, Opened
<1>3. orig \in [abs : BOOLEAN, comps : Seq(Given)]
  <2>1. orig \in [abs : BOOLEAN, comps : UNION {[1 .. n -> Given] : n \in 0 .. MaxComps}]
    BY DEF RealpathInit
  <2>2. MaxComps \in Nat
    BY DEF RealpathAssumption
  <2>3. ASSUME NEW s \in UNION {[1 .. n -> Given] : n \in 0 .. MaxComps} PROVE s \in Seq(Given)
    <3>1. PICK n \in 0 .. MaxComps : s \in [1 .. n -> Given]
      OBVIOUS
    <3> QED BY <3>1, <2>2
  <2> HIDE DEF RealpathInit
  <2> QED BY <2>1, <2>3
<1> QED BY <1>1, <1>2, <1>3 DEF Fixed

(* One component is a sequence of them. *)
LEMMA OneComponent ==
    ASSUME NEW S, NEW c \in S
    PROVE  <<c>> \in Seq(S)
  OBVIOUS

(* What holds before the first turn. *)
LEMMA InitRealpath ==
    ASSUME RealpathAssumption, RealpathInit
    PROVE  RealpathInv
<1>0. Fixed
  BY InitFixed
<1>1. SUFFICES ASSUME Resolving PROVE Typed /\ \E loc : Arrived(dest, left, deref, loc)
  <2>1. outcome = "none"
    BY DEF RealpathInit
  <2> QED BY <1>0, <2>1 DEF RealpathInv
<1>2. /\ left = orig.comps /\ deref = 0
      /\ dabs = (~orig.abs /\ "ABSOLUTE" \in flags)
      /\ dest = IF ~dabs THEN <<>> ELSE IF cwd = <<>> THEN <<"">> ELSE cwd
      /\ rq_slash = (orig.abs \/ "ABSOLUTE" \in flags)
  BY DEF RealpathInit
<1>3a. MaxDeref \in Nat
  BY DEF RealpathAssumption
<1>3. 0 \in 0 .. MaxDeref /\ MaxDeref - 0 = MaxDeref
  BY <1>3a
<1>4. orig.comps \in Seq(Given) /\ orig.abs \in BOOLEAN /\ TreeOf(tree) /\ Opened(tree, cwd)
  BY <1>0 DEF Fixed
<1>5. cwd \in Seq(Components)
  BY <1>4, OpenedSeq
<1>6. CASE orig.abs
  <2>1. dest = <<>> /\ rq_slash = TRUE
    BY <1>2, <1>6
  <2>2. Typed
    <3>1. left \in Seq(Given) /\ deref \in 0 .. MaxDeref
      BY <1>2, <1>3, <1>4
    <3>2. dest \in Seq(Components)
      <4>1. <<>> \in Seq(Components)
        OBVIOUS
      <4> QED BY <4>1, <2>1, Zenon
    <3> QED BY <2>1, <3>1, <3>2 DEF Typed
  <2>3. Opened(tree, <<>>)
    BY DEF Opened, Found
  <2>4. Leads(tree, dest, <<>>)
    BY <2>1, LeadsEmpty
  <2>5. Reach(tree, MaxDeref - deref, left, <<>>) = Place(orig.abs, orig.comps)
    BY <1>2, <1>3, <1>6 DEF Reach, Place
  <2>6. Plain(dest, <<>>)
    BY <2>1 DEF Plain
  <2> QED BY <2>2, <2>3, <2>4, <2>5, <2>6 DEF Arrived
<1>7. CASE ~orig.abs
  <2>1. dabs = TRUE /\ rq_slash = TRUE
    BY <1>1, <1>2, <1>4, <1>7 DEF Resolving
  <2>2. (cwd = <<>> /\ dest = <<"">>) \/ dest = cwd
    BY <1>2, <2>1
  <2>3. dest \in Seq(Components)
    <3>0. "" \in Components
      BY DEF Components
    <3>1. <<"">> \in Seq(Components)
      BY <3>0, OneComponent
    <3> QED BY <2>2, <3>1, <1>5
  <2>4. Typed
    <3>1. left \in Seq(Given) /\ deref \in 0 .. MaxDeref
      BY <1>2, <1>3, <1>4
    <3> QED BY <2>1, <2>3, <3>1 DEF Typed
  <2>5. <<"">> \o <<>> = <<"">>
    OBVIOUS
  <2>6. Leads(tree, dest, cwd)
    <3>1. Idle("")
      BY DEF Idle
    <3>2. Leads(tree, <<"">> \o cwd, cwd) /\ Leads(tree, cwd, cwd)
      BY <1>4, <3>1, LeadsBehind, LeadsSelf
    <3> QED BY <3>2, <2>2, <2>5
  <2>7. Reach(tree, MaxDeref - deref, left, cwd) = Place(orig.abs, orig.comps)
    BY <1>2, <1>3, <1>7 DEF Reach, Place
  <2>8. Plain(dest, cwd)
    BY <2>2, <2>5 DEF Plain
  <2> QED BY <2>4, <2>6, <2>7, <2>8, <1>4 DEF Arrived
<1> QED BY <1>6, <1>7

-----------------------------------------------------------------------------
(* The steps.                                                              *)

(* The path that is left begins with a component. *)
LEMMA LookingAt ==
    ASSUME RealpathAssumption, Fixed, Typed, left # <<>>, NEW loc, Opened(tree, loc)
    PROVE  /\ Head(left) \in Given /\ Tail(left) \in Seq(Given)
           /\ left = <<Head(left)>> \o Tail(left)
           /\ Starts(tree, MaxDeref - deref, Head(left), Tail(left), loc)
<1>1. Head(left) \in Given /\ Tail(left) \in Seq(Given) /\ left = <<Head(left)>> \o Tail(left)
  BY DEF Typed
<1>2. Head(left) \in Components /\ Tail(left) \in Seq(Components)
  <2>1. <<>> \in Seq(Components)
    OBVIOUS
  <2> QED BY <1>1, <2>1, GivenSeq, ComponentSets
<1>3. MaxDeref - deref \in 0 .. MaxDeref
  <2>1. MaxDeref \in Nat
    BY DEF RealpathAssumption
  <2> QED BY <2>1 DEF Typed
<1>4. loc \in Seq(Names) /\ TreeOf(tree)
  BY OpenedSeq DEF Fixed
<1> QED BY <1>1, <1>2, <1>3, <1>4 DEF Starts

(* "." is passed over. *)
LEMMA SelfStep ==
    ASSUME RealpathAssumption, RealpathInv, Resolving, Self
    PROVE  RealpathInv'
<1>1. Looking /\ IsSelf /\ left' = Tail(left) /\ Same
      /\ dest' = dest /\ dabs' = dabs /\ rq_slash' = rq_slash /\ deref' = deref /\ outcome' = "none"
  BY DEF Self, Looking, Same
<1>2. Fixed /\ Typed /\ left # <<>>
  BY <1>1 DEF RealpathInv, Looking
<1>3. PICK loc : Arrived(dest, left, deref, loc)
  BY <1>1 DEF RealpathInv, Looking
<1>4. Tail(left) \in Seq(Given) /\ Starts(tree, MaxDeref - deref, Head(left), Tail(left), loc)
  BY <1>2, <1>3, LookingAt DEF Arrived
<1>4a. left = <<Head(left)>> \o Tail(left)
  BY <1>2, <1>3, LookingAt DEF Arrived
<1>5. Still(Head(left))
  BY <1>1 DEF IsSelf, Still
<1>6a. Reach(tree, MaxDeref - deref, <<Head(left)>> \o Tail(left), loc)
         = Reach(tree, MaxDeref - deref, Tail(left), loc)
  BY <1>4, <1>5, ReachStill
<1>6. Reach(tree, MaxDeref - deref, left, loc) = Reach(tree, MaxDeref - deref, Tail(left), loc)
  BY <1>4a, <1>6a
<1>7. Arrived(dest, Tail(left), deref, loc)
  BY <1>3, <1>6 DEF Arrived
<1>8. Typed'
  BY <1>1, <1>2, <1>4 DEF Typed
<1> QED BY <1>1, <1>7, <1>8, StillOn

(* The name of a directory without its last component is that of the       *)
(* directory above.                                                        *)
LEMMA PlainUp ==
    ASSUME NEW d \in Seq(Components), NEW loc \in Seq(Names), "PARENT" \in flags, Plain(d, loc)
    PROVE  Plain(Upwards(d), Upwards(loc))
<1>1. CASE d = <<>>
  <2>0. <<"">> \o loc # <<>> /\ <<"..">> \o loc # <<>>
    OBVIOUS
  <2>1. loc = <<>>
    BY <1>1, <2>0 DEF Plain
  <2> QED BY <1>1, <2>1 DEF Plain, Upwards
<1>2. CASE d # <<>> /\ d = loc
  BY <1>2 DEF Plain, Upwards
<1>3. ASSUME NEW c, d = <<c>> \o loc, loc = <<>> PROVE Plain(Upwards(d), Upwards(loc))
  <2>1. Upwards(loc) = <<>>
    BY <1>3 DEF Upwards
  <2>2. d = <<c>>
    BY <1>3
  <2>3. Upwards(d) = <<>>
    BY <2>2 DEF Upwards, Front
  <2> QED BY <2>1, <2>3 DEF Plain
<1>4. ASSUME NEW c, d = <<c>> \o loc, loc # <<>>
      PROVE  Upwards(d) = <<c>> \o Upwards(loc)
  <2>1. Upwards(loc) = Front(loc) /\ Front(loc) \in Seq(Names)
    BY <1>4, FrontLast DEF Upwards
  <2>2. Upwards(d) = Front(d)
    BY <1>4 DEF Upwards
  <2>3. Front(<<c>> \o loc) = <<c>> \o Front(loc)
    BY <1>4 DEF Front
  <2> QED BY <1>4, <2>1, <2>2, <2>3
<1>5. CASE loc # <<>> /\ d = <<"">> \o loc
  BY <1>4, <1>5 DEF Plain
<1>6. CASE loc # <<>> /\ d = <<"..">> \o loc /\ "ABSOLUTE" \notin flags
  BY <1>4, <1>6 DEF Plain
<1> QED BY <1>1, <1>2, <1>3, <1>5, <1>6 DEF Plain

(* A plain name leads to what it names. *)
LEMMA PlainLeads ==
    ASSUME RealpathAssumption, TreeOf(tree), NEW d, NEW loc, Opened(tree, loc),
           "PARENT" \in flags, Plain(d, loc)
    PROVE  Leads(tree, d, loc)
<1>1. CASE d = loc
  BY <1>1, LeadsSelf
<1>2. Idle("") /\ Idle("..")
  BY DEF Idle
<1>3. Leads(tree, <<"">> \o loc, loc) /\ Leads(tree, <<"..">> \o loc, loc)
  BY <1>2, LeadsBehind
<1> QED BY <1>1, <1>3 DEF Plain

(* ".." takes the last component off dest. *)
LEMMA ParentStep ==
    ASSUME RealpathAssumption, RealpathInv, Resolving, Parent
    PROVE  RealpathInv'
<1>1. Looking /\ IsParent /\ left' = Tail(left) /\ Same
      /\ dest' = Upwards(dest) /\ dabs' = dabs /\ rq_slash' = rq_slash /\ deref' = deref
      /\ outcome' = "none"
  BY DEF Parent, Looking, Same, Upwards
<1>2. Fixed /\ Typed /\ left # <<>>
  BY <1>1 DEF RealpathInv, Looking
<1>3. PICK loc : Arrived(dest, left, deref, loc)
  BY <1>1 DEF RealpathInv, Looking
<1>4. Tail(left) \in Seq(Given) /\ Starts(tree, MaxDeref - deref, Head(left), Tail(left), loc)
  BY <1>2, <1>3, LookingAt DEF Arrived
<1>4a. left = <<Head(left)>> \o Tail(left)
  BY <1>2, <1>3, LookingAt DEF Arrived
<1>5. Head(left) = ".." /\ "PARENT" \in flags
  BY <1>1 DEF IsParent
<1>6a. Reach(tree, MaxDeref - deref, <<"..">> \o Tail(left), loc)
         = Reach(tree, MaxDeref - deref, Tail(left), Upwards(loc))
  BY <1>4, <1>5, ReachUp
<1>6. Reach(tree, MaxDeref - deref, left, loc) = Reach(tree, MaxDeref - deref, Tail(left), Upwards(loc))
  BY <1>4a, <1>5, <1>6a
<1>7. TreeOf(tree) /\ Opened(tree, Upwards(loc)) /\ loc \in Seq(Names)
  BY <1>2, <1>3, UpOpened, OpenedSeq DEF Fixed, Arrived
<1>8. Plain(Upwards(dest), Upwards(loc))
  BY <1>2, <1>3, <1>5, <1>7, PlainUp DEF Arrived, Typed
<1>9. Leads(tree, Upwards(dest), Upwards(loc))
  BY <1>5, <1>7, <1>8, PlainLeads
<1>10. Arrived(Upwards(dest), Tail(left), deref, Upwards(loc))
  BY <1>3, <1>6, <1>7, <1>8, <1>9 DEF Arrived
<1>11. Typed'
  <2>1. Upwards(dest) \in Seq(Components) /\ (Upwards(dest) = <<>> \/ dabs = TRUE)
    <3>1. CASE dest = <<>>
      BY <3>1, <1>2 DEF Upwards, Typed
    <3>2. CASE dest # <<>>
      <4>1. Front(dest) \in Seq(Components)
        BY <3>2, <1>2, FrontLast DEF Typed
      <4> QED BY <4>1, <3>2, <1>2 DEF Upwards, Typed
    <3> QED BY <3>1, <3>2
  <2> QED BY <2>1, <1>1, <1>2, <1>4 DEF Typed
<1> QED BY <1>1, <1>10, <1>11, StillOn

(* What readlink(2) finds. *)
LEMMA DestIs ==
    ASSUME RealpathAssumption, Fixed, Typed, NEW c, NEW loc, Opened(tree, loc), Leads(tree, dest, loc)
    PROVE  Dest(Append(dest, c), TRUE)
             = IF c \in {"", ".", ".."} THEN Directory ELSE Found(tree, Append(loc, c))
<1>1. dest \in Seq(Components)
  BY DEF Typed
<1>2. Len(Append(dest, c)) = Len(dest) + 1 /\ Append(dest, c)[Len(dest) + 1] = c
  BY <1>1
<1>3. SubSeq(Append(dest, c), 1, (Len(dest) + 1) - 1) = dest
  BY <1>1
<1>4. Place(TRUE, dest) = loc
  <2>1. MaxDeref \in 0 .. MaxDeref /\ <<>> \in Seq(Components)
    <3>1. MaxDeref \in Nat
      BY DEF RealpathAssumption
    <3> QED BY <3>1
  <2>2. Reach(tree, MaxDeref, dest \o <<>>, <<>>) = Reach(tree, MaxDeref, <<>>, loc)
    BY <2>1 DEF Leads
  <2>3. dest \o <<>> = dest
    BY <1>1
  <2>4. Reach(tree, MaxDeref, <<>>, loc) = loc
    BY <2>1, OpenedSeq, ReachEnd DEF Fixed
  <2>5. Place(TRUE, dest) = Reach(tree, MaxDeref, dest, <<>>)
    BY DEF Place, Reach
  <2> QED BY <2>2, <2>3, <2>4, <2>5
<1> QED BY <1>2, <1>3, <1>4 DEF Dest

(* What Component does, with an absolute dest. *)
LEMMA ComponentIs ==
    ASSUME RealpathAssumption, Fixed, Typed, Component, NEW loc, Opened(tree, loc),
           Leads(tree, dest, loc), NEW here,
           here = Dest(Append(dest, Head(left)), TRUE)
    PROVE  /\ Looking /\ ~IsSelf /\ ~IsParent /\ Same /\ rq_slash' = TRUE
           /\ here.kind = "none" => outcome' = "ENOENT"
           /\ here.kind = "dir" => /\ left' = Tail(left) /\ dest' = Append(dest, Head(left))
                                   /\ dabs' = TRUE /\ deref' = deref /\ outcome' = outcome
           /\ here.kind = "link" => Symres(Append(dest, Head(left)), TRUE, here)
<1>1. (IF dest = <<>> THEN rq_slash ELSE dabs) = TRUE
  BY DEF Typed
<1>2. /\ Looking /\ ~IsSelf /\ ~IsParent /\ Same /\ rq_slash' = TRUE
  BY DEF Component, Same
<1>3. CASE here.kind = "none"
  BY <1>1, <1>2, <1>3 DEF Component
<1>4. CASE here.kind = "dir"
  BY <1>1, <1>2, <1>4 DEF Component
<1>5. CASE here.kind = "link"
  BY <1>1, <1>2, <1>5 DEF Component
<1> QED BY <1>2, <1>3, <1>4, <1>5

(* A component that is no link is appended, and leads on to the place to. *)
LEMMA TakesOne ==
    ASSUME RealpathAssumption, RealpathInv, Same, Typed, left # <<>>, outcome = "none",
           NEW loc, Arrived(dest, left, deref, loc), NEW to, Opened(tree, to),
           left' = Tail(left), dest' = Append(dest, Head(left)), dabs' = TRUE, rq_slash' = TRUE,
           deref' = deref, outcome' = "none",
           \A k \in 0 .. MaxDeref, q \in Seq(Components) :
               Reach(tree, k, <<Head(left)>> \o q, loc) = Reach(tree, k, q, to),
           Plain(Append(dest, Head(left)), to)
    PROVE  RealpathInv'
<1>0. Fixed
  BY DEF RealpathInv
<1>1. Head(left) \in Given /\ Tail(left) \in Seq(Given)
      /\ Starts(tree, MaxDeref - deref, Head(left), Tail(left), loc)
  BY <1>0, LookingAt DEF Arrived
<1>2. left = <<Head(left)>> \o Tail(left)
  BY <1>0, LookingAt DEF Arrived
<1>3. MaxDeref - deref \in 0 .. MaxDeref /\ Tail(left) \in Seq(Components) /\ Head(left) \in Components
  BY <1>1 DEF Starts
<1>4. Reach(tree, MaxDeref - deref, <<Head(left)>> \o Tail(left), loc)
        = Reach(tree, MaxDeref - deref, Tail(left), to)
  BY <1>3
<1>5. Reach(tree, MaxDeref - deref, Tail(left), to) = Place(orig.abs, orig.comps)
  BY <1>2, <1>4 DEF Arrived
<1>6. Leads(tree, Append(dest, Head(left)), to)
  BY <1>3, LeadsOn DEF Arrived, Typed
<1>7. Arrived(Append(dest, Head(left)), Tail(left), deref, to)
  BY <1>5, <1>6 DEF Arrived
<1>8. Typed'
  <2>1. Append(dest, Head(left)) \in Seq(Components)
    BY <1>3 DEF Typed
  <2> QED BY <2>1, <1>1 DEF Typed
<1> QED BY <1>7, <1>8, StillOn

(* Outside of names, with no reason to resolve the component. *)
LEMMA DotStep ==
    ASSUME RealpathAssumption, RealpathInv, Resolving, Component, Head(left) \in {".", ".."}
    PROVE  RealpathInv'
<1>1. Looking /\ ~IsSelf /\ ~IsParent /\ Same /\ outcome = "none" /\ left # <<>>
  BY DEF Component, Same, Looking
<1>2. Fixed /\ Typed
  BY <1>1 DEF RealpathInv
<1>3. PICK loc : Arrived(dest, left, deref, loc)
  BY <1>1 DEF RealpathInv
<1>4. Opened(tree, loc) /\ Leads(tree, dest, loc) /\ Plain(dest, loc) /\ TreeOf(tree)
  BY <1>2, <1>3 DEF Arrived, Fixed
<1>5. Dest(Append(dest, Head(left)), TRUE) = Directory
  BY <1>2, <1>4, DestIs
<1>6. /\ left' = Tail(left) /\ dest' = Append(dest, Head(left))
      /\ dabs' = TRUE /\ deref' = deref /\ outcome' = "none" /\ rq_slash' = TRUE
  BY <1>1, <1>2, <1>4, <1>5, Kinds, ComponentIs
<1>7. loc \in Seq(Names) /\ dest \in Seq(Components)
  BY <1>2, <1>4, OpenedSeq DEF Typed
<1>8. CASE Head(left) = "."
  <2>1. "PARENT" \notin flags
    BY <1>1, <1>8 DEF IsSelf, Resolving
  <2>2. Plain(Append(dest, Head(left)), loc)
    BY <2>1 DEF Plain
  <2>3. ASSUME NEW k \in 0 .. MaxDeref, NEW q \in Seq(Components)
        PROVE  Reach(tree, k, <<Head(left)>> \o q, loc) = Reach(tree, k, q, loc)
    <3>1. "." \in Components /\ Still(".")
      BY DEF Components, Given, Still
    <3>2. Starts(tree, k, ".", q, loc)
      BY <3>1, <1>4, <1>7 DEF Starts
    <3> QED BY <3>1, <3>2, <1>8, ReachStill
  <2> QED BY <1>1, <1>2, <1>3, <1>4, <1>6, <2>2, <2>3, TakesOne
<1>9. CASE Head(left) = ".."
  <2>1. Opened(tree, Upwards(loc))
    BY <1>4, UpOpened
  <2>2. Plain(Append(dest, Head(left)), Upwards(loc))
    <3>1. CASE "PARENT" \notin flags
      BY <3>1 DEF Plain
    <3>2. CASE "PARENT" \in flags
      <4>1. "ABSOLUTE" \notin flags /\ dest = <<>>
        BY <1>1, <1>9, <3>2 DEF IsParent
      <4>2. <<"">> \o loc # <<>> /\ <<"..">> \o loc # <<>>
        BY <1>7
      <4>3. loc = <<>>
        BY <1>4, <3>2, <4>1, <4>2 DEF Plain
      <4>4. Append(dest, "..") = <<"..">> \o <<>> /\ Upwards(loc) = <<>>
        BY <4>1, <4>3 DEF Upwards
      <4> QED BY <4>1, <4>4, <1>9 DEF Plain
    <3> QED BY <3>1, <3>2
  <2>3. ASSUME NEW k \in 0 .. MaxDeref, NEW q \in Seq(Components)
        PROVE  Reach(tree, k, <<Head(left)>> \o q, loc) = Reach(tree, k, q, Upwards(loc))
    <3>1. ".." \in Components
      BY DEF Components, Given
    <3>2. Starts(tree, k, "..", q, loc)
      BY <3>1, <1>4, <1>7 DEF Starts
    <3> QED BY <3>2, <1>9, ReachUp
  <2> QED BY <1>1, <1>2, <1>3, <1>6, <2>1, <2>2, <2>3, TakesOne
<1> QED BY <1>8, <1>9

(* A directory is entered. *)
LEMMA EnterStep ==
    ASSUME RealpathAssumption, RealpathInv, Resolving, Component, Head(left) \in Names,
           NEW loc, Arrived(dest, left, deref, loc), Found(tree, Append(loc, Head(left))) = Directory
    PROVE  RealpathInv'
<1>1. Looking /\ ~IsSelf /\ ~IsParent /\ Same /\ outcome = "none" /\ left # <<>>
  BY DEF Component, Same, Looking
<1>2. Fixed /\ Typed
  BY <1>1 DEF RealpathInv
<1>4. Opened(tree, loc) /\ Leads(tree, dest, loc) /\ Plain(dest, loc) /\ TreeOf(tree)
  BY <1>2 DEF Arrived, Fixed
<1>5. Dest(Append(dest, Head(left)), TRUE) = Directory
  BY <1>2, <1>4, DestIs
<1>6. /\ left' = Tail(left) /\ dest' = Append(dest, Head(left))
      /\ dabs' = TRUE /\ deref' = deref /\ outcome' = "none" /\ rq_slash' = TRUE
  BY <1>1, <1>2, <1>4, <1>5, Kinds, ComponentIs
<1>7. loc \in Seq(Names) /\ dest \in Seq(Components)
  BY <1>2, <1>4, OpenedSeq DEF Typed
<1>8. Opened(tree, Append(loc, Head(left)))
  BY <1>4, DownOpened
<1>9. Plain(Append(dest, Head(left)), Append(loc, Head(left)))
  <2>1. ASSUME NEW c, dest = <<c>> \o loc
        PROVE  Append(dest, Head(left)) = <<c>> \o Append(loc, Head(left))
    BY <1>7, <2>1
  <2> QED BY <1>4, <2>1 DEF Plain
<1>10. ASSUME NEW k \in 0 .. MaxDeref, NEW q \in Seq(Components)
       PROVE  Reach(tree, k, <<Head(left)>> \o q, loc) = Reach(tree, k, q, Append(loc, Head(left)))
  <2>1. Head(left) \in Components
    BY DEF Components, Given
  <2>2. Starts(tree, k, Head(left), q, loc)
    BY <2>1, <1>4, <1>7 DEF Starts
  <2> QED BY <2>2, ReachDown
<1> QED BY <1>1, <1>2, <1>6, <1>8, <1>9, <1>10, TakesOne

(* What is not there. *)
LEMMA MissingStep ==
    ASSUME RealpathAssumption, RealpathInv, Resolving, Component, Head(left) \in Names,
           NEW loc, Arrived(dest, left, deref, loc), Found(tree, Append(loc, Head(left))) = Missing
    PROVE  RealpathInv'
<1>1. Same /\ outcome = "none" /\ left # <<>>
  BY DEF Component, Same, Looking
<1>2. Fixed /\ Typed
  BY <1>1 DEF RealpathInv
<1>4. Opened(tree, loc) /\ Leads(tree, dest, loc)
  BY <1>2 DEF Arrived, Fixed
<1>4a. Head(left) \notin {"", ".", ".."}
  BY DEF RealpathAssumption
<1>5. Dest(Append(dest, Head(left)), TRUE) = Missing
  BY <1>2, <1>4, <1>4a, DestIs
<1>6. outcome' = "ENOENT"
  BY <1>2, <1>4, <1>5, Kinds, ComponentIs
<1>7. Starts(tree, MaxDeref - deref, Head(left), Tail(left), loc)
  BY <1>1, <1>2, <1>4, LookingAt
<1>8. left = <<Head(left)>> \o Tail(left)
  BY <1>1, <1>2, <1>4, LookingAt
<1>9. Reach(tree, MaxDeref - deref, <<Head(left)>> \o Tail(left), loc) = Nowhere("ENOENT")
  BY <1>7, ReachMissing
<1>10. Place(orig.abs, orig.comps) = Nowhere("ENOENT")
  BY <1>8, <1>9 DEF Arrived
<1>11. Place(orig.abs, orig.comps)' = Nowhere("ENOENT")
  BY <1>1, <1>10, SameIs
<1>12. SamePlace'
  BY <1>6, <1>11 DEF SamePlace
<1> QED BY <1>1, <1>6, <1>12, ComesToEnd

(* A link, or one too many. *)
LEMMA LinkStep ==
    ASSUME RealpathAssumption, RealpathInv, Resolving, Component, Head(left) \in Names,
           NEW loc, Arrived(dest, left, deref, loc),
           NEW here, LinkAt(tree, loc, Head(left), here),
           here.abs \in BOOLEAN, here.comps \in Seq(Given)
    PROVE  RealpathInv'
<1>1. Same /\ outcome = "none" /\ left # <<>>
  BY DEF Component, Same, Looking
<1>2. Fixed /\ Typed
  BY <1>1 DEF RealpathInv
<1>3. MaxDeref \in Nat /\ deref \in 0 .. MaxDeref /\ dest \in Seq(Components)
  BY <1>2 DEF RealpathAssumption, Typed
<1>4. Opened(tree, loc) /\ Leads(tree, dest, loc) /\ Plain(dest, loc)
  BY <1>2 DEF Arrived, Fixed
<1>4a. Head(left) \notin {"", ".", ".."}
  BY DEF RealpathAssumption
<1>5. Dest(Append(dest, Head(left)), TRUE) = here
  BY <1>2, <1>4, <1>4a, DestIs DEF LinkAt
<1>5a. here.kind = "link"
  BY DEF LinkAt
<1>6. Symres(Append(dest, Head(left)), TRUE, here) /\ rq_slash' = TRUE
  BY <1>2, <1>4, <1>5, <1>5a, ComponentIs
<1>7. Starts(tree, MaxDeref - deref, Head(left), Tail(left), loc) /\ Tail(left) \in Seq(Given)
  BY <1>1, <1>2, <1>4, LookingAt
<1>8. left = <<Head(left)>> \o Tail(left)
  BY <1>1, <1>2, <1>4, LookingAt
<1>9. CASE deref >= MaxDeref
  <2>1. MaxDeref - deref = 0
    BY <1>3, <1>9
  <2>2. Reach(tree, MaxDeref - deref, <<Head(left)>> \o Tail(left), loc) = Nowhere("ELOOP")
    <3>1. Found(tree, Append(loc, Head(left))).kind = "link"
      BY DEF LinkAt
    <3> QED BY <3>1, <2>1, <1>7, ReachLoop
  <2>3. Place(orig.abs, orig.comps) = Nowhere("ELOOP")
    BY <1>8, <2>2 DEF Arrived
  <2>4. Place(orig.abs, orig.comps)' = Nowhere("ELOOP")
    BY <1>1, <2>3, SameIs
  <2>5. outcome' = "ELOOP"
    BY <1>6, <1>9 DEF Symres
  <2>6. SamePlace'
    BY <2>4, <2>5 DEF SamePlace
  <2> QED BY <1>1, <2>5, <2>6, ComesToEnd
<1>10. CASE ~(deref >= MaxDeref)
  <2>1. /\ deref + 1 \in 0 .. MaxDeref /\ MaxDeref - deref # 0
        /\ (MaxDeref - deref) - 1 = MaxDeref - (deref + 1)
    BY <1>3, <1>10
  <2>2. /\ deref' = deref + 1 /\ dabs' = TRUE /\ left' = here.comps \o Tail(left)
        /\ outcome' = "none"
    BY <1>1, <1>6, <1>10 DEF Symres
  <2>3. dest' = IF here.abs THEN <<>> ELSE dest
    <3>1. Front(Append(dest, Head(left))) = dest
      BY <1>3 DEF Front
    <3> QED BY <3>1, <1>6, <1>10 DEF Symres
  <2>4. Reach(tree, MaxDeref - deref, <<Head(left)>> \o Tail(left), loc)
          = Reach(tree, (MaxDeref - deref) - 1, here.comps \o Tail(left), LinkFrom(here, loc))
    BY <1>7, <2>1, ReachLink
  <2>5. Reach(tree, MaxDeref - (deref + 1), here.comps \o Tail(left), LinkFrom(here, loc))
          = Place(orig.abs, orig.comps)
    BY <1>8, <2>1, <2>4 DEF Arrived
  <2>6. /\ Opened(tree, LinkFrom(here, loc))
        /\ Leads(tree, dest', LinkFrom(here, loc))
        /\ Plain(dest', LinkFrom(here, loc))
    <3>1. CASE here.abs
      <4>1. dest' = <<>> /\ LinkFrom(here, loc) = <<>>
        BY <2>3, <3>1 DEF LinkFrom
      <4>2. Opened(tree, <<>>) /\ Plain(<<>>, <<>>)
        BY DEF Opened, Found, Plain
      <4> QED BY <4>1, <4>2, LeadsEmpty
    <3>2. CASE ~here.abs
      <4>1. dest' = dest /\ LinkFrom(here, loc) = loc
        BY <2>3, <3>2 DEF LinkFrom
      <4> QED BY <4>1, <1>4
    <3> QED BY <3>1, <3>2
  <2>7. Arrived(dest', left', deref', LinkFrom(here, loc))
    BY <2>2, <2>5, <2>6 DEF Arrived
  <2>8. Typed'
    <3>1. left' \in Seq(Given)
      BY <1>7, <2>2
    <3>2. dest' \in Seq(Components)
      BY <1>3, <2>3
    <3> QED BY <1>6, <2>1, <2>2, <3>1, <3>2 DEF Typed
  <2> QED BY <1>1, <2>2, <2>7, <2>8, StillOn
<1> QED BY <1>9, <1>10

(* A component: whatever it is, the place stays right. *)
LEMMA ComponentStep ==
    ASSUME RealpathAssumption, RealpathInv, Resolving, Component
    PROVE  RealpathInv'
<1>1. outcome = "none" /\ left # <<>>
  BY DEF Component, Looking
<1>2. Fixed /\ Typed
  BY <1>1 DEF RealpathInv
<1>3. PICK loc : Arrived(dest, left, deref, loc)
  BY <1>1 DEF RealpathInv
<1>4. Head(left) \in Given
  BY <1>1, <1>2, <1>3, LookingAt DEF Arrived
<1>5. CASE Head(left) \in {".", ".."}
  BY <1>5, DotStep
<1>6. CASE Head(left) \in Names
  <2> DEFINE here == Found(tree, Append(loc, Head(left)))
  <2>1. CASE here = Missing
    BY <2>1, <1>3, <1>6, MissingStep
  <2>2. CASE here = Directory
    BY <2>2, <1>3, <1>6, EnterStep
  <2>3. CASE here.kind = "link" /\ here.abs \in BOOLEAN /\ here.comps \in Seq(Given)
    <3>1. LinkAt(tree, loc, Head(left), here)
      BY <2>3 DEF LinkAt
    <3> HIDE DEF here
    <3> QED BY <3>1, <2>3, <1>3, <1>6, LinkStep
  <2>4. TreeOf(tree)
    BY <1>2 DEF Fixed
  <2> QED BY <2>1, <2>2, <2>3, <2>4, FoundIs
<1> QED BY <1>4, <1>5, <1>6 DEF Given

(* At the end dest is what was asked for. *)
LEMMA FinishStep ==
    ASSUME RealpathAssumption, RealpathInv, Resolving, Finish
    PROVE  RealpathInv'
<1>0. <<>> \in Seq(Names) /\ <<>> \in Seq(Components) /\ "" \in Components
  <2>1. <<>> \in Seq(Names) /\ <<>> \in Seq(Components)
    OBVIOUS
  <2>2. "" \in Components
    BY DEF Components
  <2> QED BY <2>1, <2>2
<1>1. Same /\ outcome = "none" /\ left = <<>> /\ outcome' = "done"
  BY DEF Finish, Same
<1>2. Fixed /\ Typed
  BY <1>1 DEF RealpathInv
<1>3. PICK loc : Arrived(dest, left, deref, loc)
  BY <1>1 DEF RealpathInv
<1>4. /\ MaxDeref \in Nat /\ MaxDeref - deref \in 0 .. MaxDeref /\ MaxDeref \in 0 .. MaxDeref
      /\ dest \in Seq(Components)
  <2>1. MaxDeref \in Nat /\ deref \in 0 .. MaxDeref /\ dest \in Seq(Components)
    BY <1>2 DEF RealpathAssumption, Typed
  <2> QED BY <2>1
<1>5. Opened(tree, loc) /\ loc \in Seq(Names) /\ TreeOf(tree)
  BY <1>2, <1>3, OpenedSeq DEF Arrived, Fixed
<1>6. Place(orig.abs, orig.comps) = loc
  <2>1. Reach(tree, MaxDeref - deref, <<>>, loc) = loc
    BY <1>4, <1>5, ReachEnd
  <2> QED BY <2>1, <1>1, <1>3 DEF Arrived
<1>7. Place(orig.abs, orig.comps)' = loc
  BY <1>1, <1>6, SameIs
<1>8. Place(TRUE, dest) = loc
  <2>1. <<>> \in Seq(Components)
    OBVIOUS
  <2>2. Reach(tree, MaxDeref, dest \o <<>>, <<>>) = Reach(tree, MaxDeref, <<>>, loc)
    BY <2>1, <1>3, <1>4 DEF Leads, Arrived
  <2>3. dest \o <<>> = dest
    BY <1>4
  <2>4. Reach(tree, MaxDeref, <<>>, loc) = loc
    BY <1>4, <1>5, ReachEnd
  <2> QED BY <2>2, <2>3, <2>4 DEF Place, Reach
<1>9. CASE dest # <<>>
  <2>1. dest' = dest /\ dabs' = TRUE
    BY <1>2, <1>9 DEF Finish, Typed
  <2>2. Place(TRUE, dest)' = loc
    BY <2>1, <1>1, <1>8 DEF Place, Same
  <2>3. {"PARENT", "ABSOLUTE"} \subseteq flags => dest = loc \/ dest = <<"">> \o loc
    BY <1>3 DEF Arrived, Plain
  <2>4. flags' = flags
    BY <1>1 DEF Same
  <2>5. SamePlace'
    BY <1>1, <1>7, <2>1, <2>2, <2>3, <2>4 DEF SamePlace
  <2> QED BY <2>5, <1>1, ComesToEnd
<1>10. CASE dest = <<>>
  <2>1. loc = <<>>
    <3>1. Place(TRUE, dest) = Reach(tree, MaxDeref, <<>>, <<>>)
      BY <1>10 DEF Place, Reach
    <3>2. Reach(tree, MaxDeref, <<>>, <<>>) = <<>>
      BY <1>4, <1>5, <1>0, ReachEnd
    <3> QED BY <3>1, <3>2, <1>8
  <2>2. CASE orig.abs
    <3>1. dest' = <<"">> /\ dabs' = TRUE
      BY <1>10, <2>2 DEF Finish
    <3>2. Place(TRUE, <<"">>) = <<>>
      <4>1. PICK c \in Components, q \in Seq(Components) : c = "" /\ q = <<>>
        BY <1>0
      <4>2. Starts(tree, MaxDeref, c, q, q)
        BY <1>0, <1>4, <1>5, <4>1 DEF Starts
      <4>3. Still(c)
        BY <4>1 DEF Still
      <4>4. Reach(tree, MaxDeref, <<c>> \o q, q) = Reach(tree, MaxDeref, q, q)
        BY <4>2, <4>3, ReachStill, Zenon
      <4>5. Reach(tree, MaxDeref, q, q) = <<>>
        BY <1>0, <1>4, <1>5, <4>1, ReachEnd
      <4>6. <<c>> \o q = <<"">>
        <5>1. <<"">> \o <<>> = <<"">>
          OBVIOUS
        <5> QED BY <4>1, <5>1
      <4> QED BY <4>1, <4>4, <4>5, <4>6 DEF Place, Reach
    <3>3. Place(TRUE, dest)' = loc
      BY <3>1, <3>2, <2>1, <1>1 DEF Place, Same
    <3>4. <<"">> = <<"">> \o <<>>
      OBVIOUS
    <3>5. SamePlace'
      BY <1>1, <1>7, <2>1, <3>1, <3>3, <3>4 DEF SamePlace
    <3> QED BY <3>5, <1>1, ComesToEnd
  <2>3. CASE ~orig.abs
    <3>1. dest' = <<".">> /\ ~orig'.abs
      BY <1>1, <1>10, <2>3 DEF Finish, Same
    <3>2. SamePlace'
      BY <1>1, <1>7, <2>1, <3>1 DEF SamePlace
    <3> QED BY <3>2, <1>1, ComesToEnd
  <2> QED BY <2>2, <2>3
<1> QED BY <1>9, <1>10

(* Every step keeps the invariant. *)
LEMMA NextRealpath ==
    ASSUME RealpathAssumption, RealpathInv, [RealpathNext]_rpvars
    PROVE  RealpathInv'
<1>1. Same
  BY DEF RealpathNext, Self, Parent, Component, Finish, Returned, Same, rpvars
<1>2. CASE ~Resolving
  BY <1>1, <1>2, NotAsked
<1>3. CASE UNCHANGED rpvars
  <2>1. /\ left' = left /\ dest' = dest /\ deref' = deref /\ rq_slash' = rq_slash /\ dabs' = dabs
        /\ outcome' = outcome /\ tree' = tree /\ flags' = flags /\ cwd' = cwd /\ orig' = orig
    BY <1>3 DEF rpvars
  <2>2. CASE outcome = "none" /\ Resolving
    <3>1. PICK loc : Typed /\ Arrived(dest, left, deref, loc)
      BY <2>2 DEF RealpathInv
    <3>2. Typed'
      BY <2>1, <3>1 DEF Typed
    <3> QED BY <1>1, <2>1, <2>2, <3>1, <3>2, StillOn
  <2>3. CASE outcome # "none" /\ Resolving
    <3>1. SamePlace'
      BY <2>1, <2>3, Zenon DEF SamePlace, RealpathInv, Place
    <3> QED BY <1>1, <2>1, <2>3, <3>1, ComesToEnd
  <2> QED BY <1>2, <2>2, <2>3
<1>4. CASE Resolving /\ RealpathNext
  BY <1>3, <1>4, SelfStep, ParentStep, ComponentStep, FinishStep DEF RealpathNext, Returned
<1> QED BY <1>2, <1>3, <1>4

(* The invariant of HX_realpath. *)
THEOREM RealpathInvariant == ASSUME RealpathAssumption PROVE RealpathSpec => []RealpathInv
<1>1. RealpathInit => RealpathInv
  BY InitRealpath
<1>2. RealpathInv /\ [RealpathNext]_rpvars => RealpathInv'
  BY NextRealpath
<1> QED BY <1>1, <1>2, PTL DEF RealpathSpec

(* For every tree, every working directory, every path and any number of    *)
(* links that may be followed, HX_realpath leads to the place, or to the   *)
(* error, that the kernel leads to.                                        *)
THEOREM ResolvesPaths == ASSUME RealpathAssumption PROVE RealpathSpec => []SamePlace
<1>1. RealpathInv => SamePlace
  BY DEF RealpathInv, SamePlace, Resolving
<1> QED BY <1>1, RealpathInvariant, PTL
=============================================================================
