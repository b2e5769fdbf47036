------------------------------- MODULE HXinit ------------------------------
(***************************************************************************)
(* Initialization of the library by threads (rand.c): HX_init and HX_exit  *)
(* count users under a mutex, and the first user seeds the generator of    *)
(* the C library.                                                          *)
(***************************************************************************)
EXTENDS Integers, FiniteSets

CONSTANTS
    Threads,
    NoThread,
    MaxHeld,    \* bound: how often a thread may be a user at a time
    MaxSeeds    \* bound: no more calls of HX_init once srand was called this often

VARIABLES
    HX_use_count,
    HX_init_lock,   \* the owner of the mutex, or NoThread
    pc,             \* per thread: "idle", or where it is in a call
    op,             \* per thread: the call
    tmp,            \* per thread: HX_use_count as it was read
    seeds,          \* history: how often srand was called
    held,           \* history: per thread, calls of HX_init less calls of HX_exit
    stolen          \* history: references taken by calls of HX_exit too many

usevars == <<HX_use_count, HX_init_lock, pc, op, tmp, seeds, held, stolen>>

ThreadsAssumption == IsFiniteSet(Threads) /\ NoThread \notin Threads /\ MaxHeld \in Nat

UseInit ==
    /\ HX_use_count = 0
    /\ HX_init_lock = NoThread
    /\ pc = [t \in Threads |-> "idle"]
    /\ op = [t \in Threads |-> "exit"]
    /\ tmp = [t \in Threads |-> 0]
    /\ seeds = 0
    /\ held = [t \in Threads |-> 0]
    /\ stolen = 0

(* A thread may call HX_exit once too often, which the code reports. *)
Call(t, o) ==
    /\ pc[t] = "idle"
    /\ o = "init" => held[t] < MaxHeld /\ seeds < MaxSeeds
    /\ o = "exit" => held[t] > 0 \/ stolen = 0
    /\ pc' = [pc EXCEPT ![t] = "lock"]
    /\ op' = [op EXCEPT ![t] = o]
    /\ UNCHANGED <<HX_use_count, HX_init_lock, tmp, seeds, held, stolen>>

Mut_Lock(t) ==
    /\ pc[t] = "lock"
    /\ HX_init_lock' = t
    /\ pc' = [pc EXCEPT ![t] = "test"]
    /\ UNCHANGED <<HX_use_count, op, tmp, seeds, held, stolen>>

Lock(t) ==
    /\ pc[t] = "lock"
    /\ HX_init_lock = NoThread
    /\ HX_init_lock' = t
    /\ pc' = [pc EXCEPT ![t] = "test"]
    /\ UNCHANGED <<HX_use_count, op, tmp, seeds, held, stolen>>

(* HX_use_count is read; HXrand_init seeds, from the device or otherwise. *)
Test(t) ==
    /\ pc[t] = "test"
    /\ tmp' = [tmp EXCEPT ![t] = HX_use_count]
    /\ seeds' = IF op[t] = "init" /\ HX_use_count = 0 THEN seeds + 1 ELSE seeds
    /\ pc' = [pc EXCEPT ![t] = "store"]
    /\ UNCHANGED <<HX_use_count, HX_init_lock, op, held, stolen>>

(* The new value is written and the mutex released; the call is over. *)
Store(t) ==
    /\ pc[t] = "store"
    /\ \/ /\ op[t] = "init"
          /\ HX_use_count' = tmp[t] + 1
          /\ held' = [held EXCEPT ![t] = @ + 1]
          /\ UNCHANGED stolen
       \/ /\ op[t] = "exit"
          /\ HX_use_count' = IF tmp[t] = 0 THEN HX_use_count ELSE tmp[t] - 1
          /\ held' = IF held[t] > 0 THEN [held EXCEPT ![t] = @ - 1] ELSE held
          /\ stolen' = CASE tmp[t] > 0 /\ held[t] = 0 -> stolen + 1
                         [] tmp[t] = 0 /\ held[t] > 0 -> stolen - 1
                         [] OTHER -> stolen
    /\ HX_init_lock' = NoThread
    /\ pc' = [pc EXCEPT ![t] = "idle"]
    /\ op' = [op EXCEPT ![t] = "exit"]
    /\ tmp' = [tmp EXCEPT ![t] = 0]
    /\ UNCHANGED seeds

UseNext ==
    \E t \in Threads :
      \/ \E o \in {"init", "exit"} : Call(t, o)
      \/ Lock(t)
      \/ Test(t)
      \/ Store(t)

UseSpec == UseInit /\ [][UseNext]_usevars

(* The references there are: the first, second, ... of each thread. *)
References == {x \in Threads \X (1 .. MaxHeld) : x[2] <= held[x[1]]}

Users == Cardinality(References)

(* However calls of several threads overlap, HX_use_count is the number of *)
(* users, less the references that an HX_exit without HX_init took, and    *)
(* the generator is seeded only while there is no user.                    *)
UsersCounted ==
    /\ HX_use_count + stolen = Users
    /\ \A t \in Threads :
         pc[t] = "store" /\ op[t] = "init" /\ tmp[t] = 0 => Users = stolen

=============================================================================
