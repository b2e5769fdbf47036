---------------------------- MODULE HXsys_proofs ----------------------------
(***************************************************************************)
(* Machine-checked proofs about what works through system calls.           *)
(*                                                                         *)
(* Processes: descriptors and callbacks of HXproc_run_async,               *)
(* HXproc_run_sync and HXproc_wait, for every limit on descriptors and     *)
(* whichever standard descriptors the caller has closed.                   *)
(*                                                                         *)
(* Files: copies and slurps, for files of every length, every size of the  *)
(* buffers and every way the kernel may cut, interrupt or refuse the       *)
(* transfers; and HX_mkdir and HX_rrmdir, for trees of every shape and     *)
(* others that make and remove entries meanwhile.                          *)
(***************************************************************************)
EXTENDS HXproc, HXio, HXfs, FiniteSetTheorems, SequenceTheorems, WellFoundedInduction,
        TLAPS
-----------------------------------------------------------------------------
(* Processes.                                                              *)

D == DOMAIN base

Dirs == {"r", "w"}

Table(t) == t = [fd \in D |-> t[fd]]

(* A caller with room for more than its standard descriptors. *)
BaseOK ==
    /\ \E n \in Nat : n > 2 /\ D = 0 .. n - 1
    /\ Table(base)
    /\ \A fd \in D : base[fd] \in {None, Own(fd)}

(* What a file that the library has opened is, and where it is kept. *)
At(nf, p, fd, file) ==
    \/ fd = nf /\ file = DevNull
    \/ \E x \in Std : fd = p[x].r /\ file = End("r", x)
    \/ \E x \in Std : fd = p[x].w /\ file = End("w", x)

(* The descriptors nf and p are open in the table t. *)
Open(t, nf, p) ==
    /\ nf # -1 => nf \in D /\ t[nf] = DevNull
    /\ \A x \in Std :
         /\ p[x].r # -1 => p[x].r \in D /\ t[p[x].r] = End("r", x)
         /\ p[x].w # -1 => p[x].w \in D /\ t[p[x].w] = End("w", x)

PipesType(p) == p \in [Std -> [r : Int, w : Int]]

(* What has been opened for the flags, with the pipes of the descriptors   *)
(* before n made.  The lowest number is always taken, so that 0 is in use. *)
OpenedFor(t, nf, p, n) ==
    /\ Asks(proc.flags, "null") <=> nf # -1
    /\ \A x \in Std :
         /\ x < n /\ Wants(x, "pipe") => p[x].r # -1 /\ p[x].w # -1
         /\ ~(x < n /\ Wants(x, "pipe")) => p[x].r = -1 /\ p[x].w = -1
    /\ (nf # -1 \/ \E x \in Std : p[x].r # -1) => t[0] # None

FlagsOK == \A x \in Std : proc.flags[x] \in {{}, {"pipe"}, {"null"}}

PipeCount == [s \in {"pipe0", "pipe1", "pipe2", "fork", "close"} |->
                CASE s = "pipe0" -> 0 [] s = "pipe1" -> 1 [] s = "pipe2" -> 2
                  [] OTHER -> 3]

(* The caller's table: what it had, what is open and what it has been      *)
(* handed out.                                                             *)
CallerOK ==
    /\ Table(fdt)
    /\ PipesType(pipes)
    /\ nullfd \in Int
    /\ proc.std \in [Std -> Int]
    /\ proc.flags \in Flags
    /\ proc = [flags |-> proc.flags, std |-> proc.std]
    /\ Open(fdt, nullfd, pipes)
    /\ \A x \in Std : proc.std[x] # -1 => proc.std[x] \in D /\ fdt[proc.std[x]] = End(Outer(x), x)
    /\ \A fd \in D :
         \/ fdt[fd] = base[fd]
         \/ /\ base[fd] = None
            /\ \/ At(nullfd, pipes, fd, fdt[fd])
               \/ \E x \in Std : fd = proc.std[x] /\ fdt[fd] = End(Outer(x), x)
    /\ FlagsOK

(* Where the caller is. *)
PhaseOK ==
    /\ pc \in {"idle", "pipe0", "pipe1", "pipe2", "fork", "close", "user"}
    /\ pc = "idle" => proc.std = NoFds
    /\ pc \in {"idle", "user"} => pipes = NoPipes /\ nullfd = -1
    /\ pc \notin {"idle", "user"} =>
         /\ proc.std = NoFds
         /\ OpenedFor(fdt, nullfd, pipes, PipeCount[pc])
    /\ pc \notin {"close", "user"} => child.pc = "none"
    /\ pc = "close" => child.pc # "none"

-----------------------------------------------------------------------------
(* The child's table while it duplicates: what the caller had, what was    *)
(* open at the fork, and the duplicates made so far.                       *)
DupOK ==
    LET t == child.fdt
        n == IF child.pc = "close" THEN 3 ELSE child.x
    IN  child.pc \in {"dup", "close"} =>
          /\ child.pc = "close" => child.x = 0
          /\ Table(t)
          /\ Open(t, child.nullfd, child.pipes)
          /\ OpenedFor(t, child.nullfd, child.pipes, 3)
          /\ \A x \in Std : x >= n => child.std[x] = -1
          /\ \A x \in Std : child.std[x] # -1 =>
               /\ t[child.std[x]] = Asked(x)
               /\ \A y \in Std : child.std[x] \notin {child.pipes[y].r, child.pipes[y].w}
          /\ \A fd \in D :
               \/ t[fd] = base[fd]
               \/ /\ base[fd] = None
                  /\ \/ At(child.nullfd, child.pipes, fd, t[fd])
                     \/ \E x \in Std : fd = child.std[x]
          /\ n >= 2 /\ proc.flags[1] # {} => t[1] # None

(* The duplicates have numbers of their own.  None is 0, and if descriptor *)
(* 1 is redirected the duplicate for 2 is not 1, so that no dup2 destroys  *)
(* a duplicate that is still to be moved.                                  *)
StdOK ==
    child.pc # "none" =>
      /\ child = [pc |-> child.pc, x |-> child.x, fdt |-> child.fdt, std |-> child.std,
                  pipes |-> child.pipes, nullfd |-> child.nullfd]
      /\ child.x \in Std
      /\ child.nullfd \in Int
      /\ child.nullfd \in D => base[child.nullfd] = None
      /\ child.std \in [Std -> Int]
      /\ PipesType(child.pipes)
      /\ \A x \in Std : child.std[x] # -1 =>
           /\ child.std[x] \in D
           /\ child.std[x] > 0
           /\ base[child.std[x]] = None
           /\ child.std[x] # child.nullfd
           /\ proc.flags[x] # {}
      /\ \A x, y \in Std : child.std[x] = child.std[y] /\ child.std[x] # -1 => x = y
      /\ proc.flags[1] # {} => child.std[2] # 1

(* While it moves them: those before child.x are in place. *)
InPlace(x) == child.pc = "exec" \/ x < child.x

MoveOK ==
    child.pc \in {"dup2", "exec"} =>
      /\ Table(child.fdt)
      /\ \A x \in Std : child.std[x] # -1 =>
           child.fdt[IF InPlace(x) THEN x ELSE child.std[x]] = Asked(x)
      /\ \A fd \in D :
           \/ fd \in Std /\ InPlace(fd) /\ child.std[fd] # -1
           \/ child.fdt[fd] = base[fd]
           \/ /\ base[fd] = None
              /\ fd = child.nullfd \/ \E x \in Std : ~InPlace(x) /\ child.std[x] = fd

ChildPcOK ==
    child.pc \in {"none", "dup", "close", "dup2", "exec", "running", "exited", "signalled"}

ChildOK == ChildPcOK /\ StdOK /\ DupOK /\ MoveOK /\ ChildWired

ProcInv == BaseOK /\ CallerOK /\ PhaseOK /\ ChildOK /\ sync \in BOOLEAN /\ CallbacksPaired


-----------------------------------------------------------------------------
(* Files are told apart. *)
LEMMA FilesDiffer ==
    /\ None # DevNull
    /\ \A fd : Own(fd) # None /\ Own(fd) # DevNull
    /\ \A d \in Dirs : \A x : End(d, x) # None /\ End(d, x) # DevNull
    /\ \A d \in Dirs : \A x, fd : End(d, x) # Own(fd)
    /\ \A d, e, x, y : End(d, x) = End(e, y) => d = e /\ x = y
BY DEF None, DevNull, Own, End, Dirs

LEMMA Sides ==
    \A x \in Std : <<Inner(x), Outer(x)>> \in {<<"r", "w">>, <<"w", "r">>}
BY DEF Inner, Outer, Dirs

(* There is a smallest number in a set of numbers that is not empty. *)
LEMMA MinOf ==
    ASSUME NEW S, S \subseteq Nat, S # {}
    PROVE  Min(S) \in S /\ \A y \in S : Min(S) <= y
<1>1. PICK x \in S : \A y \in S : ~(<<y, x>> \in OpToRel(<, Nat))
  BY NatLessThanWellFounded, WFMin
<1>2. ASSUME NEW y \in S PROVE x <= y
  <2>1. <<y, x>> \in Nat \X Nat /\ ~(<<y, x>> \in {ss \in Nat \X Nat : ss[1] < ss[2]})
    BY <1>1 DEF OpToRel
  <2>2. ~(y < x)
    BY <2>1
  <2> QED BY <2>2
<1> QED BY <1>2 DEF Min

(* The kernel's choice is free and leaves nothing free below it. *)
LEMMA LowestFree ==
    ASSUME NEW t, DOMAIN t \subseteq Nat, FreeFds(t) # {}
    PROVE  /\ Lowest(t) \in DOMAIN t
           /\ t[Lowest(t)] = None
           /\ \A fd \in DOMAIN t : t[fd] = None => Lowest(t) <= fd
BY MinOf DEF Lowest, FreeFds

LEMMA SecondFree ==
    ASSUME NEW t, DOMAIN t \subseteq Nat, Cardinality(FreeFds(t)) >= 2
    PROVE  /\ FreeFds(t) # {}
           /\ Min(FreeFds(t) \ {Lowest(t)}) \in DOMAIN t
           /\ t[Min(FreeFds(t) \ {Lowest(t)})] = None
           /\ Min(FreeFds(t) \ {Lowest(t)}) # Lowest(t)
<1>1. FreeFds(t) # {} /\ FreeFds(t) \ {Lowest(t)} # {}
  BY FS_EmptySet, FS_Singleton
<1>2. Min(FreeFds(t) \ {Lowest(t)}) \in FreeFds(t) \ {Lowest(t)}
  BY <1>1, MinOf DEF FreeFds
<1> QED BY <1>1, <1>2 DEF FreeFds

-----------------------------------------------------------------------------
(* The child's part of the invariant is about the child, the flags and     *)
(* what the caller had.                                                    *)
LEMMA ChildSame ==
    ASSUME ChildOK, base' = base, child' = child, (proc.flags)' = proc.flags
    PROVE  ChildOK'
<1> USE DEF D, Table, Asked, Wants
<1>1. StdOK' /\ ChildPcOK'
  BY DEF ChildOK, StdOK, ChildPcOK, PipesType
<1>2. DupOK'
  BY DEF ChildOK, DupOK, Open, OpenedFor, Asks, At
<1>3. MoveOK' /\ ChildWired'
  BY DEF ChildOK, MoveOK, InPlace, ChildWired
<1> QED BY <1>1, <1>2, <1>3 DEF ChildOK

LEMMA NoChildOK == ASSUME (child.pc)' = "none" PROVE ChildOK'
BY DEF ChildOK, ChildPcOK, StdOK, DupOK, MoveOK, ChildWired

LEMMA BaseSame == ASSUME BaseOK, base' = base PROVE BaseOK'
BY DEF BaseOK, D, Table

(* Numbers in the tables are numbers. *)
LEMMA TableNats == ASSUME BaseOK PROVE D \subseteq Nat /\ Std \subseteq D /\ -1 \notin D
BY DEF BaseOK, Std

(* A table is what the caller had once what was opened is closed. *)
LEMMA ClosedAll ==
    ASSUME BaseOK, CallerOK, proc.std = NoFds, NEW S,
           nullfd \in S, \A x \in Std : pipes[x].r \in S /\ pipes[x].w \in S,
           \A fd \in S : fd = nullfd \/ \E x \in Std : fd \in {pipes[x].r, pipes[x].w}
    PROVE  Close(fdt, S) = base
<1>1. ASSUME NEW fd \in D PROVE (IF fd \in S THEN None ELSE fdt[fd]) = base[fd]
  <2>1. CASE fd \in S
    <3>1. fdt[fd] = DevNull \/ \E d \in Dirs, x \in Std : fdt[fd] = End(d, x)
      <4>1. fd # -1
        BY TableNats
      <4>2. CASE fd = nullfd
        BY <4>1, <4>2 DEF CallerOK, Open
      <4>3. ASSUME NEW x \in Std, fd \in {pipes[x].r, pipes[x].w}
            PROVE  \E d \in Dirs : fdt[fd] = End(d, x)
        BY <4>1, <4>3 DEF CallerOK, Open, Dirs
      <4> QED BY <2>1, <4>2, <4>3
    <3>2. fdt[fd] # base[fd]
      BY <3>1, FilesDiffer DEF BaseOK
    <3> QED BY <2>1, <3>2 DEF CallerOK
  <2>2. CASE fd \notin S
    BY <2>2, TableNats DEF CallerOK, At, NoFds
  <2> QED BY <2>1, <2>2
<1>2. DOMAIN fdt = D
  BY DEF CallerOK, Table
<1> QED BY <1>1, <1>2 DEF Close, D, Table, BaseOK

-----------------------------------------------------------------------------
(* The steps of the caller.                                                *)

LEMMA NoneOpen ==
    /\ NoProc.flags = [x \in Std |-> {}] /\ NoProc.std = NoFds
    /\ NoProc = [flags |-> NoProc.flags, std |-> NoProc.std]
    /\ NoFds \in [Std -> Int] /\ \A x \in Std : NoFds[x] = -1
    /\ PipesType(NoPipes) /\ \A x \in Std : NoPipes[x].r = -1 /\ NoPipes[x].w = -1
BY DEF NoProc, NoFds, NoPipes, NoPipe, PipesType

LEMMA IdleOK ==
    BaseOK /\ fdt = base /\ proc = NoProc /\ pipes = NoPipes /\ nullfd = -1 => CallerOK
<1> SUFFICES ASSUME BaseOK, fdt = base, proc = NoProc, pipes = NoPipes, nullfd = -1
             PROVE  CallerOK
  OBVIOUS
<1>1. Open(fdt, nullfd, pipes)
  BY NoneOpen DEF Open
<1>2. proc.flags \in Flags /\ FlagsOK
  BY NoneOpen DEF Flags, FlagsOK
<1>3. \A x \in Std : proc.std[x] = -1
  BY NoneOpen
<1>4. Table(fdt)
  BY DEF BaseOK
<1> QED BY <1>1, <1>2, <1>3, <1>4, NoneOpen DEF CallerOK

LEMMA ProcInitInv == ASSUME LimitsAssumption, ProcInit PROVE ProcInv
<1>1. PICK n \in Limits, open \in SUBSET Std :
        base = [fd \in 0 .. n - 1 |-> IF fd \in open THEN Own(fd) ELSE None]
  BY DEF ProcInit
<1>2. n \in Nat /\ n > 2
  BY DEF LimitsAssumption
<1>3. BaseOK
  BY <1>1, <1>2 DEF BaseOK, D, Table
<1>4. CallerOK
  BY <1>3, IdleOK DEF ProcInit
<1>5. PhaseOK
  BY DEF ProcInit, PhaseOK, NoProc, NoChild
<1>6. ChildOK
  BY DEF ProcInit, NoChild, ChildOK, ChildPcOK, StdOK, DupOK, MoveOK, ChildWired
<1> QED BY <1>3, <1>4, <1>5, <1>6 DEF ProcInit, ProcInv, CallbacksPaired, NoChild

(* Nothing is open. *)
LEMMA GiveUpInv ==
    ASSUME ProcInv, NEW err, GiveUp(err), pc \in {"pipe0", "pipe1", "pipe2", "fork"},
           UNCHANGED owed
    PROVE  ProcInv'
<1> USE DEF ProcInv
<1>1. proc.std = NoFds /\ child.pc = "none"
  BY DEF PhaseOK
<1>2. fdt' = Close(fdt, PipeFds(pipes) \cup {nullfd})
  BY DEF GiveUp, HXproc_close_pipes, Close
<1>3. fdt' = base
  BY <1>1, <1>2, ClosedAll DEF PipeFds
<1>4. BaseOK' /\ ChildOK'
  BY <1>1, BaseSame, NoChildOK DEF GiveUp
<1>5. CallerOK'
  <2>1. (fdt = base /\ proc = NoProc /\ pipes = NoPipes /\ nullfd = -1)'
    BY <1>3 DEF GiveUp
  <2> QED BY <1>4, <2>1, IdleOK, PTL
<1>6. PhaseOK'
  BY <1>1 DEF GiveUp, PhaseOK, NoProc
<1> QED BY <1>1, <1>4, <1>5, <1>6 DEF GiveUp, CallbacksPaired

LEMMA Counts ==
    /\ PipeCount["pipe0"] = 0 /\ PipeCount["pipe1"] = 1 /\ PipeCount["pipe2"] = 2
    /\ PipeCount["fork"] = 3 /\ PipeCount["close"] = 3
BY DEF PipeCount

(* Opening a file at a free number keeps what else is known of the table. *)
LEMMA BaseNone ==
    ASSUME CallerOK, NEW fd \in D, fdt[fd] = None
    PROVE  base[fd] = None
BY DEF CallerOK

LEMMA BeginInv ==
    ASSUME ProcInv, NEW flags \in Flags, Begin(flags), sync' \in BOOLEAN
    PROVE  ProcInv'
<1> USE DEF ProcInv
<1>1. /\ pc = "idle" /\ child.pc = "none" /\ owed = 0
      /\ proc.std = NoFds /\ pipes = NoPipes /\ nullfd = -1
  BY DEF Begin, PhaseOK, CallbacksPaired
<1>2. /\ BaseOK' /\ ChildOK' /\ CallbacksPaired' /\ D' = D
      /\ base' = base /\ pipes' = pipes /\ child' = child
  BY <1>1, BaseSame, NoChildOK DEF Begin, CallbacksPaired, D
<1>3. CASE UNCHANGED <<fdt, proc, nullfd, pc>>
  <2>1. CallerOK'
    BY <1>2, <1>3 DEF CallerOK, Table, Open, At, FlagsOK
  <2>2. PhaseOK'
    BY <1>1, <1>2, <1>3 DEF PhaseOK
  <2> QED BY <1>2, <2>1, <2>2
<1>4. ASSUME \A x \in Std : flags[x] # {"pipe", "null"},
             proc' = [flags |-> flags, std |-> NoFds],
             pc' = "pipe0",
             \/ /\ Asks(flags, "null")
                /\ FreeFds(fdt) # {}
                /\ nullfd' = Lowest(fdt)
                /\ fdt' = [fdt EXCEPT ![Lowest(fdt)] = DevNull]
             \/ ~Asks(flags, "null") /\ UNCHANGED <<fdt, nullfd>>
      PROVE  ProcInv'
  <2>1. DOMAIN fdt = D /\ D \subseteq Nat /\ 0 \in D
    BY TableNats DEF CallerOK, Table, Std
  <2>2. (proc.flags)' = flags /\ (proc.std)' = NoFds
    BY <1>4
  <2>3. proc'.flags = flags /\ proc'.std = NoFds
    BY <1>4
  <2>4. FlagsOK'
    <3>1. \A x \in Std : flags[x] \in SUBSET {"pipe", "null"}
      BY DEF Flags
    <3>2. \A x \in Std : flags[x] \in {{}, {"pipe"}, {"null"}}
      BY <1>4, <3>1
    <3> QED BY <2>3, <3>2 DEF FlagsOK
  <2>5. /\ Open(fdt, nullfd, pipes)'
        /\ OpenedFor(fdt, nullfd, pipes, 0)'
        /\ Table(fdt)' /\ nullfd' \in Int
        /\ \A fd \in D : 
             fdt'[fd] = base[fd] \/ (base[fd] = None /\ fd = nullfd' /\ fdt'[fd] = DevNull)
    <3>0. \A fd \in D : fdt[fd] = base[fd]
      BY <1>1, NoneOpen, TableNats DEF CallerOK, At
    <3>1. CASE Asks(flags, "null")
      <4> DEFINE n == Lowest(fdt)
      <4>1. /\ n \in D /\ fdt[n] = None /\ (fdt[0] = None => n <= 0)
            /\ nullfd' = n /\ fdt' = [fdt EXCEPT ![n] = DevNull]
        BY <1>4, <2>1, <3>1, LowestFree
      <4> HIDE DEF n
      <4>2. n \in Nat /\ n # -1
        BY <2>1, <4>1
      <4>3. fdt'[n] = DevNull /\ fdt'[0] # None
        BY <2>1, <4>1, <4>2, FilesDiffer
      <4>4. Open(fdt, nullfd, pipes)'
        BY <1>1, <1>2, <4>1, <4>3, NoneOpen DEF Open
      <4>5. OpenedFor(fdt, nullfd, pipes, 0)'
        BY <1>1, <1>2, <2>3, <3>1, <4>1, <4>2, <4>3, NoneOpen DEF OpenedFor, Asks, Wants, Std
      <4>6. Table(fdt)'
        BY <1>2, <2>1, <4>1 DEF Table
      <4>7. \A fd \in D : fd # n => fdt'[fd] = base[fd]
        BY <2>1, <3>0, <4>1
      <4>8. base[n] = None
        BY <3>0, <4>1
      <4>9. nullfd' \in Int
        BY <4>1, <4>2
      <4> QED BY <4>1, <4>3, <4>4, <4>5, <4>6, <4>7, <4>8, <4>9
    <3>2. CASE ~Asks(flags, "null")
      <4>1. fdt' = fdt /\ nullfd' = -1
        BY <1>1, <1>4, <3>2
      <4>2. Open(fdt, nullfd, pipes)'
        BY <1>1, <1>2, <4>1, NoneOpen DEF Open
      <4>3. OpenedFor(fdt, nullfd, pipes, 0)'
        BY <1>1, <1>2, <2>3, <3>2, <4>1, NoneOpen DEF OpenedFor, Asks, Wants, Std
      <4>4. Table(fdt)'
        BY <1>2, <4>1 DEF Table, CallerOK
      <4> QED BY <3>0, <4>1, <4>2, <4>3, <4>4
    <3> QED BY <3>1, <3>2
  <2>6. CallerOK'
    BY <1>1, <1>2, <1>4, <2>3, <2>4, <2>5, NoneOpen DEF CallerOK, At
  <2>7. PhaseOK'
    BY <1>1, <1>2, <1>4, <2>3, <2>5, Counts DEF PhaseOK
  <2> QED BY <1>2, <2>6, <2>7
<1>5. ~Asks(flags, "null") => \A x \in Std : flags[x] # {"pipe", "null"}
  BY DEF Asks
<1> QED BY <1>3, <1>4, <1>5 DEF Begin

LEMMA BuildPipeInv ==
    ASSUME ProcInv, NEW x \in Std, BuildPipe(x)
    PROVE  ProcInv'
<1> USE DEF ProcInv
<1>1. /\ pc = PipeStep[x + 1] /\ pc \in {"pipe0", "pipe1", "pipe2"} /\ PipeCount[pc] = x
      /\ pc' = PipeStep[x + 2] /\ pc' \in {"pipe1", "pipe2", "fork"} /\ PipeCount[pc'] = x + 1
  BY Counts DEF BuildPipe, PipeStep, Std
<1>2. /\ child.pc = "none" /\ proc.std = NoFds /\ proc' = proc /\ base' = base
      /\ nullfd' = nullfd /\ child' = child /\ sync' = sync /\ owed' = owed /\ D' = D
  BY <1>1 DEF PhaseOK, BuildPipe, D
<1>3. BaseOK' /\ ChildOK' /\ CallbacksPaired'
  BY <1>2, BaseSame, NoChildOK DEF CallbacksPaired
<1>4. DOMAIN fdt = D /\ D \subseteq Nat /\ 0 \in D /\ -1 \notin D
  BY TableNats DEF CallerOK, Table, Std
<1>5. CASE ~Wants(x, "pipe")
  <2>1. fdt' = fdt /\ pipes' = pipes
    BY <1>5 DEF BuildPipe
  <2>2. CallerOK'
    BY <1>2, <2>1 DEF CallerOK, Table, Open, At, FlagsOK
  <2>3. OpenedFor(fdt, nullfd, pipes, x)
    BY <1>1 DEF PhaseOK
  <2>4. OpenedFor(fdt, nullfd, pipes, x + 1)'
    BY <1>2, <1>5, <2>1, <2>3 DEF OpenedFor, Asks, Wants, Std
  <2>5. PhaseOK'
    BY <1>1, <1>2, <2>1, <2>4 DEF PhaseOK
  <2> QED BY <1>2, <1>3, <2>2, <2>5
<1>6. CASE Wants(x, "pipe")
  <2> DEFINE r == Lowest(fdt)
  <2> DEFINE w == Min(FreeFds(fdt) \ {r})
  <2>1. /\ r \in D /\ w \in D /\ r # w /\ fdt[r] = None /\ fdt[w] = None
        /\ fdt[0] = None => r <= 0
    BY <1>4, <1>6, LowestFree, SecondFree DEF BuildPipe
  <2>2. /\ pipes' = [pipes EXCEPT ![x] = [r |-> r, w |-> w]]
        /\ fdt' = [fdt EXCEPT ![r] = End("r", x), ![w] = End("w", x)]
    BY <1>6 DEF BuildPipe
  <2> HIDE DEF r, w
  <2>3. r \in Nat /\ w \in Nat /\ r # -1 /\ w # -1
    BY <1>4, <2>1
  <2>4. /\ fdt'[r] = End("r", x) /\ fdt'[w] = End("w", x)
        /\ \A fd \in D : fd \notin {r, w} => fdt'[fd] = fdt[fd]
        /\ Table(fdt)'
    BY <1>2, <1>4, <2>1, <2>2 DEF Table
  <2>5. /\ pipes'[x].r = r /\ pipes'[x].w = w
        /\ \A y \in Std : y # x => pipes'[y] = pipes[y]
        /\ PipesType(pipes)'
    BY <2>2, <2>3 DEF CallerOK, PipesType
  <2>6. OpenedFor(fdt, nullfd, pipes, x)
    BY <1>1 DEF PhaseOK
  <2>7. pipes[x].r = -1 /\ pipes[x].w = -1
    BY <2>6 DEF OpenedFor, Std
  <2>8. Open(fdt, nullfd, pipes)'
    <3>1. nullfd # -1 => nullfd \in D /\ fdt'[nullfd] = DevNull
      BY <2>1, <2>4, FilesDiffer DEF CallerOK, Open
    <3>2. ASSUME NEW y \in Std, y # x
          PROVE  /\ pipes[y].r # -1 => pipes[y].r \in D /\ fdt'[pipes[y].r] = End("r", y)
                 /\ pipes[y].w # -1 => pipes[y].w \in D /\ fdt'[pipes[y].w] = End("w", y)
      BY <2>1, <2>4, FilesDiffer DEF CallerOK, Open, Dirs
    <3> QED BY <1>2, <2>1, <2>4, <2>5, <3>1, <3>2 DEF Open
  <2>9. OpenedFor(fdt, nullfd, pipes, x + 1)'
    <3>1. fdt'[0] # None
      BY <1>4, <2>1, <2>3, <2>4, FilesDiffer DEF Dirs
    <3>2. ASSUME NEW y \in Std
          PROVE  /\ y < x + 1 /\ Wants(y, "pipe") => pipes'[y].r # -1 /\ pipes'[y].w # -1
                 /\ ~(y < x + 1 /\ Wants(y, "pipe")) => pipes'[y].r = -1 /\ pipes'[y].w = -1
      <4>1. CASE y = x
        BY <1>6, <2>3, <2>5, <4>1 DEF Std
      <4>2. CASE y # x
        <5>1. y < x + 1 <=> y < x
          BY <4>2 DEF Std
        <5> QED BY <2>5, <2>6, <4>2, <5>1 DEF OpenedFor
      <4> QED BY <4>1, <4>2
    <3> QED BY <1>2, <2>6, <3>1, <3>2 DEF OpenedFor, Asks, Wants
  <2>10. ASSUME NEW fd \in D
         PROVE  fdt'[fd] = base[fd] \/ (base[fd] = None /\ At(nullfd, pipes', fd, fdt'[fd]))
    <3>1. CASE fd \in {r, w}
      BY <2>1, <2>4, <2>5, <3>1, BaseNone DEF At
    <3>2. CASE fd \notin {r, w}
      <4>1. fdt[fd] = base[fd] \/ (base[fd] = None /\ At(nullfd, pipes, fd, fdt[fd]))
        BY <1>2, <1>4, NoneOpen DEF CallerOK
      <4>2. \A y \in Std : fd = pipes[y].r \/ fd = pipes[y].w => y # x
        BY <1>4, <2>7
      <4> QED BY <2>4, <2>5, <3>2, <4>1, <4>2 DEF At
    <3> QED BY <3>1, <3>2
  <2>11. CallerOK'
    BY <1>2, <2>4, <2>5, <2>8, <2>10, NoneOpen DEF CallerOK, FlagsOK
  <2>12. PhaseOK'
    BY <1>1, <1>2, <2>9 DEF PhaseOK
  <2> QED BY <1>2, <1>3, <2>11, <2>12
<1> QED BY <1>5, <1>6

(* fork: the child has what the caller has. *)
LEMMA ForkInv == ASSUME ProcInv, Fork PROVE ProcInv'
<1> USE DEF ProcInv
<1>1. /\ pc = "fork" /\ child.pc = "none" /\ proc.std = NoFds /\ pc' = "close"
      /\ OpenedFor(fdt, nullfd, pipes, 3)
      /\ base' = base /\ fdt' = fdt /\ proc' = proc /\ pipes' = pipes
      /\ nullfd' = nullfd /\ sync' = sync /\ D' = D
  BY Counts DEF Fork, PhaseOK, D
<1>2. /\ child'.pc = "dup" /\ child'.x = 0 /\ child'.fdt = fdt /\ child'.std = NoFds
      /\ child'.pipes = pipes /\ child'.nullfd = nullfd
  BY DEF Fork
<1>3. BaseOK' /\ CallerOK'
  BY <1>1, BaseSame DEF CallerOK, Table, Open, At, FlagsOK
<1>4. OpenedFor(fdt, nullfd, pipes, 3)'
  BY <1>1 DEF OpenedFor, Asks, Wants
<1>5. PhaseOK'
  BY <1>1, <1>2, <1>4, Counts DEF PhaseOK
<1>6. StdOK'
  <2>1. nullfd \in D => fdt[nullfd] = DevNull
    BY TableNats DEF CallerOK, Open
  <2>2. nullfd \in D => base[nullfd] = None
    BY <2>1, FilesDiffer DEF CallerOK, BaseOK
  <2>3. (child = [pc |-> child.pc, x |-> child.x, fdt |-> child.fdt, std |-> child.std,
                  pipes |-> child.pipes, nullfd |-> child.nullfd])'
    BY DEF Fork
  <2> QED BY <1>1, <1>2, <2>2, <2>3, NoneOpen DEF StdOK, CallerOK, PipesType, Std
<1>7. DupOK'
  <2>1. \A fd \in D : fdt[fd] = base[fd] \/ (base[fd] = None /\ At(nullfd, pipes, fd, fdt[fd]))
    BY <1>1, NoneOpen, TableNats DEF CallerOK
  <2>2. Open(fdt, nullfd, pipes)'
    BY <1>3 DEF CallerOK
  <2>3. Open(child.fdt, child.nullfd, child.pipes)'
    BY <1>1, <1>2, <2>2 DEF Open
  <2>4. OpenedFor(child.fdt, child.nullfd, child.pipes, 3)'
    BY <1>1, <1>2, <1>4 DEF OpenedFor, Asks, Wants
  <2>5. Table(child.fdt)'
    BY <1>1, <1>2 DEF Table, CallerOK
  <2> QED BY <1>1, <1>2, <2>1, <2>3, <2>4, <2>5, NoneOpen DEF DupOK, At
<1>8. ChildPcOK' /\ MoveOK' /\ ChildWired'
  BY <1>2 DEF ChildPcOK, MoveOK, ChildWired
<1>9. CallbacksPaired' /\ sync' \in BOOLEAN
  BY <1>1, <1>2 DEF CallbacksPaired, Fork
<1> QED BY <1>3, <1>5, <1>6, <1>7, <1>8, <1>9 DEF ChildOK

(* The caller's part of the invariant. *)
LEMMA CallerSame ==
    ASSUME BaseOK, CallerOK, UNCHANGED <<base, fdt, proc, pipes, nullfd>>
    PROVE  BaseOK' /\ CallerOK'
BY BaseSame DEF CallerOK, Table, Open, At, FlagsOK, D

(* The child's ends are closed, and what is left is handed out. *)
LEMMA ParentEndsInv == ASSUME ProcInv, ParentEnds PROVE ProcInv'
<1> USE DEF ProcInv
<1> DEFINE S == {nullfd} \cup {pipes[x][Inner(x)] : x \in Std}
           O(x) == pipes[x][Outer(x)]
<1>1. /\ pc = "close" /\ child.pc # "none" /\ proc.std = NoFds /\ pc' = "user"
      /\ base' = base /\ pipes' = NoPipes /\ nullfd' = -1 /\ child' = child
      /\ sync' = sync /\ owed' = owed /\ D' = D
      /\ fdt' = Close(fdt, S)
  BY DEF ParentEnds, PhaseOK, D
<1>2. (proc.flags)' = proc.flags /\ proc'.flags = proc.flags
      /\ proc'.std = [x \in Std |-> O(x)]
      /\ proc' = [flags |-> proc'.flags, std |-> proc'.std]
  BY DEF ParentEnds, CallerOK
<1>3. BaseOK' /\ ChildOK' /\ CallbacksPaired'
  BY <1>1, <1>2, BaseSame, ChildSame DEF CallbacksPaired
<1>4. DOMAIN fdt = D /\ -1 \notin D
  BY TableNats DEF CallerOK, Table
<1>5. \A fd \in D : fdt'[fd] = IF fd \in S THEN None ELSE fdt[fd]
  BY <1>1, <1>4 DEF Close
<1>6. Table(fdt)'
  BY <1>1, <1>4 DEF Close, Table
<1>7. ASSUME NEW x \in Std
      PROVE  /\ O(x) \in Int
             /\ O(x) # -1 => O(x) \in D /\ O(x) \notin S /\ fdt[O(x)] = End(Outer(x), x)
  <2>1. O(x) \in Int /\ (O(x) # -1 => O(x) \in D /\ fdt[O(x)] = End(Outer(x), x))
    BY DEF CallerOK, Open, PipesType, Outer
  <2>2. ASSUME O(x) # -1, NEW y \in Std, O(x) = pipes[y][Inner(y)] PROVE FALSE
    <3>1. fdt[O(x)] = End(Inner(y), y)
      BY <2>2 DEF CallerOK, Open, PipesType, Inner
    <3>2. Inner(y) = Outer(x) /\ x = y
      BY <2>1, <2>2, <3>1, FilesDiffer
    <3> QED BY <3>2 DEF Inner, Outer
  <2>3. ASSUME O(x) # -1 PROVE O(x) # nullfd
    <3>1. fdt[O(x)] # DevNull
      BY <2>1, <2>3, Sides, FilesDiffer DEF Dirs
    <3> QED BY <2>3, <3>1 DEF CallerOK, Open
  <2> QED BY <2>1, <2>2, <2>3
<1>8. ASSUME NEW fd \in D
      PROVE  \/ fdt'[fd] = base[fd]
             \/ base[fd] = None /\ \E x \in Std : fd = O(x) /\ fdt'[fd] = End(Outer(x), x)
  <2>1. CASE fd \in S
    <3>1. fdt[fd] = DevNull \/ \E d \in Dirs, x \in Std : fdt[fd] = End(d, x)
      <4>1. CASE fd = nullfd
        BY <1>4, <4>1 DEF CallerOK, Open
      <4>2. ASSUME NEW x \in Std, fd = pipes[x][Inner(x)] PROVE fdt[fd] = End(Inner(x), x)
        BY <1>4, <4>2 DEF CallerOK, Open, PipesType, Inner
      <4> QED BY <2>1, <4>1, <4>2, Sides DEF Dirs
    <3>2. base[fd] = None
      BY <3>1, FilesDiffer DEF CallerOK, BaseOK
    <3> QED BY <1>5, <2>1, <3>2
  <2>2. CASE fd \notin S
    <3>1. fdt'[fd] = fdt[fd]
      BY <1>5, <2>2
    <3>2. fdt[fd] = base[fd] \/ (base[fd] = None /\ At(nullfd, pipes, fd, fdt[fd]))
      BY <1>1, <1>4, NoneOpen DEF CallerOK
    <3>3. ASSUME NEW x \in Std, fd = pipes[x].r, fdt[fd] = End("r", x)
          PROVE  fd = O(x) /\ fdt[fd] = End(Outer(x), x)
      BY <2>2, <3>3 DEF Inner, Outer
    <3>4. ASSUME NEW x \in Std, fd = pipes[x].w, fdt[fd] = End("w", x)
          PROVE  fd = O(x) /\ fdt[fd] = End(Outer(x), x)
      BY <2>2, <3>4 DEF Inner, Outer
    <3> QED BY <2>2, <3>1, <3>2, <3>3, <3>4 DEF At
  <2> QED BY <2>1, <2>2
<1>9. CallerOK'
  <2> HIDE DEF S, O
  <2>1. proc'.std \in [Std -> Int] /\ \A x \in Std : proc'.std[x] = O(x)
    BY <1>2, <1>7
  <2>2. Open(fdt, nullfd, pipes)'
    BY <1>1, NoneOpen DEF Open
  <2>3. \A x \in Std : proc'.std[x] # -1 => proc'.std[x] \in D' /\ fdt'[proc'.std[x]] = End(Outer(x), x)
    BY <1>1, <1>5, <1>7, <2>1
  <2>4. proc'.flags \in Flags /\ FlagsOK'
    BY <1>2 DEF CallerOK, FlagsOK
  <2>5. \A fd \in D' :
         \/ fdt'[fd] = base'[fd]
         \/ base'[fd] = None /\ \E x \in Std : fd = proc'.std[x] /\ fdt'[fd] = End(Outer(x), x)
    BY <1>1, <1>8, <2>1
  <2> QED BY <1>1, <1>2, <1>6, <2>1, <2>2, <2>3, <2>4, <2>5, NoneOpen DEF CallerOK
<1>10. PhaseOK'
  BY <1>1 DEF PhaseOK
<1> QED BY <1>1, <1>3, <1>9, <1>10

(* The user closes one of the descriptors it was handed out. *)
LEMMA UserClosesInv == ASSUME ProcInv, NEW x \in Std, UserCloses(x) PROVE ProcInv'
<1> USE DEF ProcInv
<1> DEFINE c == proc.std[x]
<1>1. /\ pc = "user" /\ pc' = "user" /\ pipes = NoPipes /\ nullfd = -1
      /\ base' = base /\ pipes' = pipes /\ nullfd' = nullfd /\ child' = child
      /\ sync' = sync /\ owed' = owed /\ D' = D
      /\ fdt' = Close(fdt, {c}) /\ c # -1 /\ c \in D /\ fdt[c] = End(Outer(x), x)
  BY DEF UserCloses, PhaseOK, CallerOK, D
<1>2. (proc.flags)' = proc.flags /\ proc'.flags = proc.flags
      /\ proc'.std = [proc.std EXCEPT ![x] = -1]
      /\ proc' = [flags |-> proc'.flags, std |-> proc'.std]
  BY DEF UserCloses, CallerOK
<1>3. /\ proc'.std \in [Std -> Int] /\ proc'.std[x] = -1
      /\ \A y \in Std : y # x => proc'.std[y] = proc.std[y]
  BY <1>2 DEF CallerOK
<1>4. BaseOK' /\ ChildOK' /\ CallbacksPaired'
  BY <1>1, <1>2, BaseSame, ChildSame DEF CallbacksPaired
<1>5. DOMAIN fdt = D /\ -1 \notin D
  BY TableNats DEF CallerOK, Table
<1>6. /\ \A fd \in D : fdt'[fd] = IF fd = c THEN None ELSE fdt[fd]
      /\ Table(fdt)'
  BY <1>1, <1>5 DEF Close, Table
<1>7. base[c] = None
  BY <1>1, Sides, FilesDiffer DEF CallerOK, BaseOK, Dirs
<1> HIDE DEF c
<1>8. ASSUME NEW y \in Std, proc'.std[y] # -1
      PROVE  proc'.std[y] \in D /\ fdt'[proc'.std[y]] = End(Outer(y), y)
  <2>1. y # x /\ proc'.std[y] = proc.std[y] /\ proc.std[y] \in D
        /\ fdt[proc.std[y]] = End(Outer(y), y)
    BY <1>3, <1>8 DEF CallerOK
  <2>2. proc.std[y] # c
    BY <1>1, <2>1, FilesDiffer
  <2> QED BY <1>6, <2>1, <2>2
<1>9. ASSUME NEW fd \in D
      PROVE  \/ fdt'[fd] = base[fd]
             \/ base[fd] = None /\ \E y \in Std : fd = proc'.std[y] /\ fdt'[fd] = End(Outer(y), y)
  <2>1. CASE fd = c
    BY <1>6, <1>7, <2>1
  <2>2. CASE fd # c
    <3>1. \/ fdt[fd] = base[fd]
          \/ base[fd] = None /\ \E y \in Std : fd = proc.std[y] /\ fdt[fd] = End(Outer(y), y)
      BY <1>1, <1>5, NoneOpen DEF CallerOK, At
    <3> QED BY <1>3, <1>6, <2>2, <3>1 DEF c
  <2> QED BY <2>1, <2>2
<1>10. CallerOK'
  <2>1. Open(fdt, nullfd, pipes)'
    BY <1>1, NoneOpen DEF Open
  <2>2. proc'.flags \in Flags /\ FlagsOK'
    BY <1>2 DEF CallerOK, FlagsOK
  <2> QED BY <1>1, <1>2, <1>3, <1>6, <1>8, <1>9, <2>1, <2>2, NoneOpen DEF CallerOK
<1>11. PhaseOK'
  BY <1>1 DEF PhaseOK
<1> QED BY <1>1, <1>4, <1>10, <1>11

LEMMA WaitInv == ASSUME ProcInv, HXproc_wait PROVE ProcInv'
<1>1. BaseOK' /\ CallerOK'
  BY CallerSame DEF ProcInv, HXproc_wait
<1>2. ChildOK'
  BY NoChildOK DEF HXproc_wait, NoChild
<1>3. PhaseOK'
  BY DEF ProcInv, PhaseOK, HXproc_wait, NoChild
<1>4. CallbacksPaired' /\ sync' \in BOOLEAN
  BY DEF ProcInv, CallbacksPaired, HXproc_wait, NoChild
<1> QED BY <1>1, <1>2, <1>3, <1>4 DEF ProcInv

LEMMA WaitInterruptedInv == ASSUME ProcInv, WaitInterrupted PROVE ProcInv'
<1>1. BaseOK' /\ CallerOK'
  BY CallerSame DEF ProcInv, WaitInterrupted
<1>2. ChildOK'
  BY NoChildOK, ChildSame DEF ProcInv, WaitInterrupted, NoChild
<1>3. PhaseOK'
  BY DEF ProcInv, PhaseOK, WaitInterrupted, NoChild
<1>4. CallbacksPaired' /\ sync' \in BOOLEAN
  BY DEF ProcInv, CallbacksPaired, WaitInterrupted, NoChild
<1> QED BY <1>1, <1>2, <1>3, <1>4 DEF ProcInv

LEMMA UserDoneInv == ASSUME ProcInv, UserDone PROVE ProcInv'
<1> USE DEF ProcInv
<1>1. pipes = NoPipes /\ nullfd = -1 /\ fdt = base
  <2>1. pipes = NoPipes /\ nullfd = -1 /\ proc.std = NoFds
    BY DEF UserDone, PhaseOK
  <2>2. \A fd \in D : fdt[fd] = base[fd]
    BY <2>1, NoneOpen, TableNats DEF CallerOK, At
  <2> QED BY <2>1, <2>2 DEF CallerOK, BaseOK, Table
<1>2. BaseOK' /\ ChildOK'
  BY BaseSame, NoChildOK DEF UserDone
<1>3. CallerOK'
  <2>1. (fdt = base /\ proc = NoProc /\ pipes = NoPipes /\ nullfd = -1)'
    BY <1>1 DEF UserDone
  <2> QED BY <1>2, <2>1, IdleOK, PTL
<1>4. PhaseOK'
  BY <1>1 DEF UserDone, PhaseOK, NoProc
<1> QED BY <1>2, <1>3, <1>4 DEF UserDone, CallbacksPaired

-----------------------------------------------------------------------------
(* The steps of the child.                                                 *)

LEMMA ChildStepInv ==
    ASSUME ProcInv, UNCHANGED caller, child.pc # "none", child'.pc # "none", ChildOK'
    PROVE  ProcInv'
<1> USE DEF ProcInv
<1>1. UNCHANGED <<base, fdt, proc, pipes, nullfd, pc, sync, owed>>
  BY DEF caller
<1>2. BaseOK' /\ CallerOK'
  BY <1>1, CallerSame
<1>3. PhaseOK'
  <2>1. pc \in {"close", "user"}
    BY DEF PhaseOK
  <2>2. pc = "close" => OpenedFor(fdt, nullfd, pipes, PipeCount["close"])'
    BY <1>1 DEF PhaseOK, OpenedFor, Asks, Wants
  <2> QED BY <1>1, <2>1, <2>2 DEF PhaseOK
<1>4. CallbacksPaired'
  BY <1>1 DEF CallbacksPaired
<1> QED BY <1>1, <1>2, <1>3, <1>4

(* What was asked for in place of what the caller had is a file. *)
LEMMA AskedFile ==
    ASSUME CallerOK, NEW x \in Std, proc.flags[x] # {}
    PROVE  /\ Asked(x) = IF Wants(x, "pipe") THEN End(Inner(x), x) ELSE DevNull
           /\ Asked(x) # None
           /\ Wants(x, "pipe") \/ Asks(proc.flags, "null")
<1>1. /\ Asked(x) = IF Wants(x, "pipe") THEN End(Inner(x), x) ELSE DevNull
      /\ Wants(x, "pipe") \/ Asks(proc.flags, "null")
  BY DEF Asked, CallerOK, FlagsOK, Asks, Wants
<1> QED BY <1>1, Sides, FilesDiffer DEF Dirs

LEMMA ChildDupInv == ASSUME ProcInv, ChildDup PROVE ProcInv'
<1> USE DEF ProcInv
<1> DEFINE x == child.x
           t == child.fdt
           nf == child.nullfd
           p == child.pipes
           from == IF Wants(x, "pipe") THEN p[x][Inner(x)] ELSE nf
           fd == IF proc.flags[x] = {} THEN -1 ELSE DupFd(t)
           u == [i \in DOMAIN t |-> IF i = fd THEN t[from] ELSE t[i]]
           std == child.std
           stdn == [std EXCEPT ![x] = fd]
<1>1. /\ child.pc = "dup" /\ UNCHANGED caller
      /\ base' = base /\ proc' = proc /\ D' = D
      /\ x \in Std /\ nf \in Int /\ std \in [Std -> Int] /\ PipesType(p)
  BY DEF ChildDup, caller, ChildOK, StdOK, D
<1>2. /\ child'.pc = (IF x = 2 THEN "close" ELSE "dup") /\ child'.x = (x + 1) % 3
      /\ child'.fdt = u /\ child'.std = stdn /\ child'.pipes = p /\ child'.nullfd = nf
      /\ child' = [pc |-> child'.pc, x |-> child'.x, fdt |-> child'.fdt, std |-> child'.std,
                   pipes |-> child'.pipes, nullfd |-> child'.nullfd]
  <2>1. child = [pc |-> child.pc, x |-> child.x, fdt |-> child.fdt, std |-> child.std,
                 pipes |-> child.pipes, nullfd |-> child.nullfd]
    BY <1>1 DEF ChildOK, StdOK
  <2> HIDE DEF u, fd
  <2>2. child' = [child EXCEPT !.x = (x + 1) % 3, !.pc = IF x = 2 THEN "close" ELSE "dup",
                               !.std[x] = fd, !.fdt = u]
    BY DEF ChildDup, u, fd
  <2> QED BY <2>1, <2>2
<1>3. /\ child'.x \in Std /\ (child'.pc = "close" => child'.x = 0)
      /\ (IF child'.pc = "close" THEN 3 ELSE child'.x) = x + 1
  BY <1>1, <1>2 DEF Std
<1>4. /\ Table(t) /\ Open(t, nf, p) /\ OpenedFor(t, nf, p, 3)
      /\ \A y \in Std : y >= x => std[y] = -1
      /\ \A y \in Std : std[y] # -1 =>
           /\ t[std[y]] = Asked(y)
           /\ \A z \in Std : std[y] \notin {p[z].r, p[z].w}
      /\ \A i \in D :
           \/ t[i] = base[i]
           \/ base[i] = None /\ (At(nf, p, i, t[i]) \/ \E y \in Std : i = std[y])
      /\ x >= 2 /\ proc.flags[1] # {} => t[1] # None
  BY <1>1 DEF ChildOK, DupOK
<1>5. /\ D \subseteq Nat /\ 0 \in D /\ 1 \in D /\ -1 \notin D /\ DOMAIN t = D
  BY <1>4, TableNats DEF Table, Std
<1>6. ASSUME fd # -1
      PROVE  /\ proc.flags[x] # {} /\ fd = Lowest(t)
             /\ fd \in D /\ t[fd] = None /\ base[fd] = None /\ t[0] # None /\ fd > 0
             /\ t[1] = None => fd = 1
  <2>1. proc.flags[x] # {} /\ FreeFds(t) # {} /\ fd = Lowest(t)
    BY <1>6 DEF DupFd
  <2>2. fd \in D /\ t[fd] = None /\ \A i \in D : t[i] = None => fd <= i
    <3>1. /\ Lowest(t) \in DOMAIN t /\ t[Lowest(t)] = None
          /\ \A i \in DOMAIN t : t[i] = None => Lowest(t) <= i
      <4> HIDE DEF t
      <4> QED BY <1>5, <2>1, LowestFree
    <3> HIDE DEF fd, t
    <3> QED BY <1>5, <2>1, <3>1
  <2>3. t[0] # None
    <3>1. Wants(x, "pipe") \/ Asks(proc.flags, "null")
      BY <1>1, <2>1, AskedFile
    <3>2. Wants(x, "pipe") => p[x].r # -1
      BY <1>1, <1>4 DEF OpenedFor, Std
    <3> QED BY <1>1, <1>4, <3>1, <3>2 DEF OpenedFor
  <2>4. fd > 0
    <3> HIDE DEF fd
    <3> QED BY <1>5, <2>2, <2>3
  <2>5. t[1] = None => fd = 1
    <3> HIDE DEF fd
    <3> QED BY <1>5, <2>2, <2>4
  <2>6. base[fd] = None
    BY <1>4, <2>2
  <2> QED BY <2>1, <2>2, <2>3, <2>4, <2>5, <2>6
<1>7. ASSUME fd # -1 PROVE t[from] = Asked(x)
  <2>1. proc.flags[x] # {}
    BY <1>6, <1>7
  <2>2. CASE Wants(x, "pipe")
    <3>1. p[x].r # -1 /\ p[x].w # -1
      BY <1>1, <1>4, <2>2 DEF OpenedFor, Std
    <3> QED BY <1>1, <1>4, <2>1, <2>2, <3>1, AskedFile DEF Open, Inner, PipesType
  <2>3. CASE ~Wants(x, "pipe")
    <3>1. nf # -1
      BY <1>1, <1>4, <2>1, <2>3, AskedFile DEF OpenedFor
    <3> QED BY <1>1, <1>4, <2>1, <2>3, <3>1, AskedFile DEF Open
  <2> QED BY <2>2, <2>3
<1>8. fd = -1 \/ (fd \in Int /\ fd > 0)
  <2>1. fd # -1 => fd \in D /\ fd > 0
    BY <1>6
  <2> HIDE DEF fd, t, ProcInv
  <2>2. fd # -1 => fd \in Nat
    BY <1>5, <2>1
  <2>3. CASE fd # -1
    BY <2>1, <2>2, <2>3
  <2> QED BY <2>3
<1>9. /\ \A i \in D : u[i] = IF i = fd THEN t[from] ELSE t[i]
      /\ u = [i \in D |-> u[i]]
      /\ stdn \in [Std -> Int] /\ stdn[x] = fd /\ \A y \in Std : y # x => stdn[y] = std[y]
  BY <1>1, <1>5, <1>8
<1> HIDE DEF u, stdn, from, fd
(* What was in use stays as it is. *)
<1>10. \A i \in D : t[i] # None => i # fd /\ u[i] = t[i]
  BY <1>5, <1>6, <1>9
<1>11. ASSUME NEW y \in Std, std[y] # -1
       PROVE  /\ y # x /\ std[y] \in D /\ std[y] > 0 /\ t[std[y]] # None
              /\ std[y] # fd /\ u[std[y]] = Asked(y)
  <2>1. std[y] \in D /\ std[y] > 0 /\ proc.flags[y] # {}
    BY <1>1, <1>11 DEF ChildOK, StdOK
  <2>2. t[std[y]] = Asked(y) /\ Asked(y) # None
    BY <1>4, <1>11, <2>1, AskedFile
  <2>3. y # x
    BY <1>1, <1>4, <1>11 DEF Std
  <2> QED BY <1>10, <2>1, <2>2, <2>3
<1>12. StdOK'
  <2>1. ASSUME NEW y \in Std, stdn[y] # -1
        PROVE  stdn[y] \in D /\ stdn[y] > 0 /\ base[stdn[y]] = None /\ stdn[y] # nf /\ proc.flags[y] # {}
    <3>1. CASE y = x
      <4>1. t[nf] = None => nf = -1
        BY <1>4, FilesDiffer DEF Open
      <4> QED BY <1>6, <1>9, <2>1, <3>1, <4>1
    <3>2. CASE y # x
      BY <1>1, <1>9, <2>1, <3>2 DEF ChildOK, StdOK
    <3> QED BY <3>1, <3>2
  <2>2. ASSUME NEW y \in Std, NEW z \in Std, stdn[y] = stdn[z], stdn[y] # -1 PROVE y = z
    <3>1. y # x /\ z # x => y = z
      BY <1>1, <1>9, <2>2 DEF ChildOK, StdOK
    <3>2. (y = x <=> z = x)
      BY <1>9, <1>11, <2>2
    <3> QED BY <3>1, <3>2
  <2>3. proc.flags[1] # {} => stdn[2] # 1
    <3>1. CASE x = 2
      BY <1>4, <1>5, <1>9, <1>10, <3>1 DEF Std
    <3>2. CASE x # 2
      BY <1>1, <1>9, <3>2 DEF ChildOK, StdOK, Std
    <3> QED BY <3>1, <3>2
  <2>4. nf \in D => base[nf] = None
    BY <1>1 DEF ChildOK, StdOK
  <2> QED BY <1>1, <1>2, <1>3, <1>9, <2>1, <2>2, <2>3, <2>4 DEF StdOK
<1>13. DupOK'
  <2>1. Table(child.fdt)'
    BY <1>1, <1>2, <1>9 DEF Table
  <2>2. Open(child.fdt, child.nullfd, child.pipes)'
    <3>1. nf # -1 => nf \in D /\ u[nf] = DevNull
      BY <1>4, <1>10, FilesDiffer DEF Open
    <3>2. ASSUME NEW y \in Std
          PROVE  /\ p[y].r # -1 => p[y].r \in D /\ u[p[y].r] = End("r", y)
                 /\ p[y].w # -1 => p[y].w \in D /\ u[p[y].w] = End("w", y)
      BY <1>4, <1>10, FilesDiffer DEF Open, Dirs
    <3> QED BY <1>1, <1>2, <3>1, <3>2 DEF Open
  <2>3. OpenedFor(child.fdt, child.nullfd, child.pipes, 3)'
    BY <1>1, <1>2, <1>4, <1>5, <1>10 DEF OpenedFor, Asks, Wants
  <2>4. \A y \in Std : y >= x + 1 => stdn[y] = -1
    BY <1>1, <1>4, <1>9 DEF Std
  <2>5. ASSUME NEW y \in Std, stdn[y] # -1
        PROVE  u[stdn[y]] = Asked(y) /\ \A z \in Std : stdn[y] \notin {p[z].r, p[z].w}
    <3>1. CASE y = x
      <4>1. u[fd] = Asked(x) /\ t[fd] = None /\ fd # -1
        BY <1>6, <1>7, <1>9, <2>5, <3>1
      <4>2. \A z \in Std : fd \notin {p[z].r, p[z].w}
        BY <1>4, <4>1, FilesDiffer DEF Open, Dirs
      <4> QED BY <1>9, <3>1, <4>1, <4>2
    <3>2. CASE y # x
      BY <1>4, <1>9, <1>11, <2>5, <3>2
    <3> QED BY <3>1, <3>2
  <2>6. ASSUME NEW i \in D
        PROVE  \/ u[i] = base[i]
               \/ base[i] = None /\ (At(nf, p, i, u[i]) \/ \E y \in Std : i = stdn[y])
    <3>1. CASE i = fd
      BY <1>1, <1>5, <1>6, <1>9, <3>1
    <3>2. CASE i # fd
      <4>1. u[i] = t[i]
        BY <1>9, <3>2
      <4>2. ASSUME NEW y \in Std, i = std[y] PROVE i = stdn[y]
        BY <1>5, <1>9, <1>11, <4>2
      <4> QED BY <1>4, <4>1, <4>2
    <3> QED BY <3>1, <3>2
  <2>7. ASSUME x + 1 >= 2, proc.flags[1] # {} PROVE u[1] # None
    <3>1. CASE t[1] # None
      BY <1>5, <1>10, <3>1
    <3>2. CASE t[1] = None
      <4>1. x = 1
        BY <1>1, <1>4, <2>7, <3>2 DEF Std
      <4>2. FreeFds(t) # {} /\ fd # -1
        BY <1>5, <2>7, <3>2, <4>1, LowestFree DEF FreeFds, fd, DupFd
      <4>3. fd = 1 /\ u[1] = Asked(1)
        BY <1>5, <1>6, <1>7, <1>9, <3>2, <4>1, <4>2
      <4> QED BY <1>1, <2>7, <4>1, <4>3, AskedFile
    <3> QED BY <3>1, <3>2
  <2>8. (\A y \in Std : Asked(y)' = Asked(y))
    BY <1>1 DEF Asked, Wants
  <2> HIDE DEF x, t, nf, p, std
  <2>9. child'.pc \in {"dup", "close"}
    BY <1>2
  <2> QED BY <1>1, <1>2, <1>3, <2>1, <2>2, <2>3, <2>4, <2>5, <2>6, <2>7, <2>8 DEF DupOK, At
<1>14. ChildPcOK' /\ MoveOK' /\ ChildWired'
  BY <1>2 DEF ChildPcOK, MoveOK, ChildWired
<1>15. child'.pc # "none"
  BY <1>2
<1> QED BY <1>1, <1>12, <1>13, <1>14, <1>15, ChildStepInv DEF ChildOK

(* The pipes are closed, the duplicates are elsewhere. *)
LEMMA ChildClosePipesInv == ASSUME ProcInv, ChildClosePipes PROVE ProcInv'
<1> USE DEF ProcInv
<1> DEFINE t == child.fdt
           p == child.pipes
           std == child.std
           u == Close(t, PipeFds(p))
<1>1. /\ child.pc = "close" /\ UNCHANGED caller
      /\ base' = base /\ proc' = proc /\ D' = D /\ child.x = 0
  BY DEF ChildClosePipes, caller, ChildOK, DupOK, D
<1>2. /\ child'.pc = "dup2" /\ child'.x = child.x /\ child'.fdt = u /\ child'.std = std
      /\ child'.pipes = NoPipes /\ child'.nullfd = child.nullfd
      /\ child' = [pc |-> child'.pc, x |-> child'.x, fdt |-> child'.fdt, std |-> child'.std,
                   pipes |-> child'.pipes, nullfd |-> child'.nullfd]
  <2>1. child = [pc |-> child.pc, x |-> child.x, fdt |-> child.fdt, std |-> child.std,
                 pipes |-> child.pipes, nullfd |-> child.nullfd]
    BY <1>1 DEF ChildOK, StdOK
  <2>2. child' = [child EXCEPT !.pc = "dup2", !.fdt = u, !.pipes = NoPipes]
    BY DEF ChildClosePipes, HXproc_close_pipes
  <2> HIDE DEF u
  <2> QED BY <2>1, <2>2
<1>3. StdOK'
  BY <1>1, <1>2, NoneOpen DEF ChildOK, StdOK
<1>4. /\ Table(t) /\ Open(t, child.nullfd, p)
      /\ \A y \in Std : std[y] # -1 =>
           /\ t[std[y]] = Asked(y) /\ std[y] \in D
           /\ \A z \in Std : std[y] \notin {p[z].r, p[z].w}
      /\ \A i \in D :
           \/ t[i] = base[i]
           \/ base[i] = None /\ (At(child.nullfd, p, i, t[i]) \/ \E y \in Std : i = std[y])
  BY <1>1 DEF ChildOK, DupOK, StdOK
<1>5. -1 \notin D /\ DOMAIN t = D
  BY <1>4, TableNats DEF Table
<1>6. /\ \A i \in D : u[i] = IF i \in PipeFds(p) THEN None ELSE t[i]
      /\ u = [i \in D |-> u[i]]
  BY <1>5 DEF Close
<1>7. \A i \in D : i \in PipeFds(p) <=> \E z \in Std : i \in {p[z].r, p[z].w}
  BY DEF PipeFds
<1> HIDE DEF u
<1>8. \A y \in Std : std[y] # -1 => u[std[y]] = Asked(y)
  BY <1>4, <1>6, <1>7
<1>9. ASSUME NEW i \in D
      PROVE  \/ u[i] = base[i]
             \/ base[i] = None /\ (i = child.nullfd \/ \E y \in Std : std[y] = i)
  <2>1. CASE i \in PipeFds(p)
    <3>1. \E d \in Dirs, z \in Std : t[i] = End(d, z)
      BY <1>4, <1>5, <1>7, <2>1 DEF Open, Dirs
    <3>2. base[i] = None
      BY <1>4, <3>1, FilesDiffer DEF BaseOK
    <3> QED BY <1>6, <2>1, <3>2
  <2>2. CASE i \notin PipeFds(p)
    BY <1>4, <1>6, <1>7, <2>2 DEF At
  <2> QED BY <2>1, <2>2
<1>10. MoveOK'
  <2>1. \A y \in Std : ~InPlace(y)'
    BY <1>1, <1>2 DEF InPlace, Std
  <2>2. \A y \in Std : Asked(y)' = Asked(y)
    BY <1>1 DEF Asked, Wants
  <2> HIDE DEF t, p, std
  <2> QED BY <1>1, <1>2, <1>6, <1>8, <1>9, <2>1, <2>2 DEF MoveOK, Table
<1>11. ChildPcOK' /\ DupOK' /\ ChildWired' /\ child'.pc # "none"
  BY <1>2 DEF ChildPcOK, DupOK, ChildWired
<1> QED BY <1>1, <1>3, <1>10, <1>11, ChildStepInv DEF ChildOK

(* One duplicate goes to its place, and no other is lost. *)
LEMMA ChildDup2Inv == ASSUME ProcInv, ChildDup2 PROVE ProcInv'
<1> USE DEF ProcInv
<1> DEFINE x == child.x
           t == child.fdt
           std == child.std
           f == std[x]
           u == IF f >= 0 /\ f # x THEN MoveFd(t, f, x) ELSE t
<1>1. /\ child.pc = "dup2" /\ UNCHANGED caller
      /\ base' = base /\ proc' = proc /\ D' = D /\ x \in Std /\ std \in [Std -> Int]
  BY DEF ChildDup2, caller, ChildOK, StdOK, D
<1>2. /\ child'.pc = (IF x = 2 THEN "exec" ELSE "dup2") /\ child'.x = (x + 1) % 3
      /\ child'.fdt = u /\ child'.std = std
      /\ child'.pipes = child.pipes /\ child'.nullfd = child.nullfd
      /\ child' = [pc |-> child'.pc, x |-> child'.x, fdt |-> child'.fdt, std |-> child'.std,
                   pipes |-> child'.pipes, nullfd |-> child'.nullfd]
  <2>1. child = [pc |-> child.pc, x |-> child.x, fdt |-> child.fdt, std |-> child.std,
                 pipes |-> child.pipes, nullfd |-> child.nullfd]
    BY <1>1 DEF ChildOK, StdOK
  <2>2. child' = [child EXCEPT !.x = (x + 1) % 3, !.pc = IF x = 2 THEN "exec" ELSE "dup2",
                               !.fdt = u]
    BY DEF ChildDup2
  <2> HIDE DEF u
  <2> QED BY <2>1, <2>2
<1>3. child'.x \in Std
  BY <1>1, <1>2 DEF Std
<1>4. StdOK'
  BY <1>1, <1>2, <1>3 DEF ChildOK, StdOK
<1>5. /\ Table(t)
      /\ \A y \in Std : std[y] # -1 => t[IF y < x THEN y ELSE std[y]] = Asked(y)
      /\ \A i \in D :
           \/ i \in Std /\ i < x /\ std[i] # -1
           \/ t[i] = base[i]
           \/ base[i] = None /\ (i = child.nullfd \/ \E y \in Std : ~(y < x) /\ std[y] = i)
  BY <1>1 DEF ChildOK, MoveOK, InPlace
<1>6. D \subseteq Nat /\ Std \subseteq D /\ -1 \notin D /\ DOMAIN t = D
  BY <1>5, TableNats DEF Table
<1>7. \A y \in Std : InPlace(y)' <=> y <= x
  BY <1>1, <1>2 DEF InPlace, Std
<1>8. /\ \A y \in Std : std[y] # -1 =>
           std[y] \in D /\ std[y] > 0 /\ base[std[y]] = None /\ proc.flags[y] # {}
      /\ \A y, z \in Std : std[y] = std[z] /\ std[y] # -1 => y = z
      /\ proc.flags[1] # {} => std[2] # 1
  BY <1>1 DEF ChildOK, StdOK
<1>9. \A y \in Std : Asked(y)' = Asked(y)
  BY <1>1 DEF Asked, Wants
<1>10. f = -1 \/ (f \in D /\ f > 0)
  BY <1>1, <1>8
<1>11. ChildPcOK' /\ DupOK' /\ ChildWired' /\ child'.pc # "none"
  BY <1>2 DEF ChildPcOK, DupOK, ChildWired
<1>12. CASE f = -1
  <2>1. u = t
    BY <1>12
  <2> HIDE DEF u
  <2>2. \A y \in Std : std[y] # -1 => (y <= x <=> y < x)
    BY <1>1, <1>12 DEF Std
  <2>3. MoveOK'
    <3>1. \A y \in Std : std[y] # -1 => t[IF y <= x THEN y ELSE std[y]] = Asked(y)
      BY <1>5, <2>2
    <3>2. \A i \in D :
           \/ i \in Std /\ i <= x /\ std[i] # -1
           \/ t[i] = base[i]
           \/ base[i] = None /\ (i = child.nullfd \/ \E y \in Std : ~(y <= x) /\ std[y] = i)
      BY <1>5, <1>6, <2>2
    <3> HIDE DEF x, t, std, f
    <3> QED BY <1>1, <1>2, <1>5, <1>7, <1>9, <2>1, <3>1, <3>2 DEF MoveOK, Table
  <2> QED BY <1>1, <1>4, <1>11, <2>3, ChildStepInv DEF ChildOK
<1>13. CASE f # -1
  <2>1. f \in D /\ f > 0 /\ base[f] = None /\ proc.flags[x] # {} /\ f >= 0
    BY <1>1, <1>8, <1>13
  <2>2. /\ \A i \in D : u[i] = IF i = x THEN t[f] ELSE IF i = f THEN None ELSE t[i]
        /\ u = [i \in D |-> u[i]]
    <3>1. CASE f # x
      BY <1>6, <2>1, <3>1 DEF MoveFd
    <3>2. CASE f = x
      BY <1>5, <1>6, <2>1, <3>2 DEF Table
    <3> QED BY <3>1, <3>2
  <2> HIDE DEF u
  <2>3. u[x] = Asked(x)
    <3>1. t[f] = Asked(x)
      BY <1>1, <1>5, <1>13 DEF Std
    <3> QED BY <1>1, <1>6, <2>2, <3>1
  <2>4. ASSUME NEW y \in Std, y # x, std[y] # -1
        PROVE  IF y < x THEN y # f ELSE std[y] # x /\ std[y] # f
    <3>1. CASE y < x
      BY <1>1, <1>8, <2>1, <2>4, <3>1 DEF Std
    <3>2. CASE ~(y < x)
      BY <1>1, <1>8, <2>1, <2>4, <3>2 DEF Std
    <3> QED BY <3>1, <3>2
  <2>5. ASSUME NEW y \in Std, std[y] # -1
        PROVE  u[IF y <= x THEN y ELSE std[y]] = Asked(y)
    <3>1. CASE y = x
      BY <1>1, <2>3, <3>1 DEF Std
    <3>2. CASE y # x
      <4>1. y <= x <=> y < x
        BY <1>1, <3>2 DEF Std
      <4>2. CASE y < x
        BY <1>5, <1>6, <2>2, <2>4, <2>5, <3>2, <4>1, <4>2
      <4>3. CASE ~(y < x)
        <5>1. std[y] \in D /\ t[std[y]] = Asked(y) /\ std[y] # x /\ std[y] # f
          BY <1>5, <1>8, <2>4, <2>5, <3>2, <4>3
        <5> QED BY <2>2, <4>1, <4>3, <5>1
      <4> QED BY <4>2, <4>3
    <3> QED BY <3>1, <3>2
  <2>6. ASSUME NEW i \in D
        PROVE  \/ i \in Std /\ i <= x /\ std[i] # -1
               \/ u[i] = base[i]
               \/ base[i] = None /\ (i = child.nullfd \/ \E y \in Std : ~(y <= x) /\ std[y] = i)
    <3>1. CASE i = x
      BY <1>1, <1>13, <3>1 DEF Std
    <3>2. CASE i # x /\ i = f
      BY <2>1, <2>2, <3>2
    <3>3. CASE i # x /\ i # f
      <4>1. u[i] = t[i]
        BY <2>2, <3>3
      <4>2. i \in Std /\ i < x => i <= x
        BY <1>1 DEF Std
      <4>3. \A y \in Std : ~(y < x) /\ std[y] = i => ~(y <= x)
        BY <1>1, <3>3 DEF Std
      <4> QED BY <1>5, <4>1, <4>2, <4>3
    <3> QED BY <3>1, <3>2, <3>3
  <2>7. MoveOK'
    <3> HIDE DEF x, t, std, f
    <3> QED BY <1>1, <1>2, <1>7, <1>9, <2>2, <2>5, <2>6 DEF MoveOK, Table
  <2> QED BY <1>1, <1>4, <1>11, <2>7, ChildStepInv DEF ChildOK
<1> QED BY <1>12, <1>13

(* A child that is gone has no descriptors. *)
LEMMA GoneOK ==
    ASSUME ChildOK, child.pc # "none", base' = base, proc' = proc,
           NEW s \in {"exited", "signalled"},
           child' = [child EXCEPT !.pc = s, !.fdt = <<>>]
    PROVE  ChildOK' /\ child'.pc = s
<1>1. child = [pc |-> child.pc, x |-> child.x, fdt |-> child.fdt, std |-> child.std,
               pipes |-> child.pipes, nullfd |-> child.nullfd]
  BY DEF ChildOK, StdOK
<1>2. /\ child'.pc = s /\ child'.x = child.x /\ child'.std = child.std
      /\ child'.pipes = child.pipes /\ child'.nullfd = child.nullfd
      /\ child' = [pc |-> child'.pc, x |-> child'.x, fdt |-> child'.fdt, std |-> child'.std,
                   pipes |-> child'.pipes, nullfd |-> child'.nullfd]
  BY <1>1
<1>3. StdOK'
  BY <1>2 DEF ChildOK, StdOK, D
<1> QED BY <1>2, <1>3 DEF ChildOK, ChildPcOK, DupOK, MoveOK, ChildWired

(* execv: what is wired is what was moved, without nullfd. *)
LEMMA ChildExecInv == ASSUME ProcInv, ChildExec PROVE ProcInv'
<1> USE DEF ProcInv
<1>1. /\ child.pc = "exec" /\ UNCHANGED caller /\ base' = base /\ proc' = proc /\ D' = D
  BY DEF ChildExec, caller, D
<1>2. CASE child' = [child EXCEPT !.pc = "exited", !.fdt = <<>>]
  BY <1>1, <1>2, GoneOK, ChildStepInv
<1>3. CASE child' = [child EXCEPT !.pc = "running", !.fdt = Close(@, {child.nullfd})]
  <2> DEFINE t == child.fdt
             nf == child.nullfd
             u == Close(t, {nf})
  <2>1. /\ child'.pc = "running" /\ child'.x = child.x /\ child'.std = child.std
        /\ child'.fdt = u
        /\ child'.pipes = child.pipes /\ child'.nullfd = nf
        /\ child' = [pc |-> child'.pc, x |-> child'.x, fdt |-> child'.fdt, std |-> child'.std,
                     pipes |-> child'.pipes, nullfd |-> child'.nullfd]
    <3>1. child = [pc |-> child.pc, x |-> child.x, fdt |-> child.fdt, std |-> child.std,
                   pipes |-> child.pipes, nullfd |-> child.nullfd]
      BY <1>1 DEF ChildOK, StdOK
    <3>2. child' = [child EXCEPT !.pc = "running", !.fdt = u]
      BY <1>3
    <3> HIDE DEF u
    <3> QED BY <3>1, <3>2
  <2>2. StdOK'
    BY <1>1, <2>1 DEF ChildOK, StdOK
  <2>3. /\ Table(t)
        /\ \A y \in Std : child.std[y] # -1 => t[y] = Asked(y)
        /\ \A i \in D : \/ i \in Std /\ child.std[i] # -1
                        \/ t[i] = base[i]
                        \/ base[i] = None /\ i = nf
    BY <1>1 DEF ChildOK, MoveOK, InPlace
  <2>4. \A i \in D : u[i] = IF i = nf THEN None ELSE t[i]
    BY <2>3 DEF Close, Table
  <2>5. nf \in D => base[nf] = None
    BY <1>1 DEF ChildOK, StdOK
  <2>6. \A y \in Std : Asked(y)' = Asked(y) /\ (proc.flags[y] = {} => Asked(y) = base[y])
    BY <1>1 DEF Asked, Wants
  <2>7. ChildWired'
    <3> HIDE DEF t, nf, u
    <3>1. ASSUME NEW i \in D
          PROVE  IF i \in Std
                 THEN \/ u[i] = Asked(i)
                      \/ proc.flags[i] # {} /\ child.std[i] = -1 /\ u[i] = base[i]
                      \/ i = nf /\ u[i] = None
                 ELSE u[i] = base[i]
      BY <2>3, <2>4, <2>5, <2>6
    <3> QED BY <1>1, <2>1, <2>6, <3>1 DEF ChildWired, D
  <2>8. ChildPcOK' /\ DupOK' /\ MoveOK' /\ child'.pc # "none"
    BY <2>1 DEF ChildPcOK, DupOK, MoveOK
  <2> QED BY <1>1, <2>2, <2>7, <2>8, ChildStepInv DEF ChildOK
<1> QED BY <1>2, <1>3 DEF ChildExec

LEMMA GoneInv == ASSUME ProcInv, ProgramExits \/ Killed PROVE ProcInv'
<1>1. /\ child.pc # "none" /\ UNCHANGED caller /\ base' = base /\ proc' = proc
      /\ \E s \in {"exited", "signalled"} : child' = [child EXCEPT !.pc = s, !.fdt = <<>>]
  BY DEF ProgramExits, Killed, caller
<1>2. ChildOK' /\ child'.pc # "none"
  BY <1>1, GoneOK DEF ProcInv
<1> QED BY <1>1, <1>2, ChildStepInv

-----------------------------------------------------------------------------

LEMMA StutterInv == ASSUME ProcInv, UNCHANGED procvars PROVE ProcInv'
<1>1. BaseOK' /\ CallerOK' /\ ChildOK'
  BY CallerSame, ChildSame DEF procvars, ProcInv
<1>2. PhaseOK'
  BY DEF procvars, ProcInv, PhaseOK, OpenedFor, Asks, Wants
<1> QED BY <1>1, <1>2 DEF procvars, ProcInv, CallbacksPaired

LEMMA ProcNextInv == ASSUME ProcInv, [ProcNext]_procvars PROVE ProcInv'
<1>1. ASSUME NEW flags \in Flags, HXproc_run_async(flags) PROVE ProcInv'
  BY <1>1, BeginInv DEF HXproc_run_async
<1>2. ASSUME NEW flags \in Flags, HXproc_run_sync(flags) PROVE ProcInv'
  <2>1. CASE UNCHANGED <<base, fdt, proc, pipes, nullfd, pc, sync, owed, child>>
    <3>1. BaseOK' /\ CallerOK' /\ ChildOK'
      BY <2>1, CallerSame, ChildSame DEF ProcInv
    <3>2. PhaseOK'
      BY <2>1 DEF ProcInv, PhaseOK, OpenedFor, Asks, Wants
    <3> QED BY <2>1, <3>1, <3>2 DEF ProcInv, CallbacksPaired
  <2>2. CASE Begin(flags) /\ sync' = TRUE
    BY <2>2, BeginInv
  <2> QED BY <1>2, <2>1, <2>2 DEF HXproc_run_sync
<1>3. ASSUME NEW x \in Std, BuildPipe(x) PROVE ProcInv'
  BY <1>3, BuildPipeInv
<1>4. ASSUME NEW x \in Std, PipeFails(x) PROVE ProcInv'
  <2>1. pc \in {"pipe0", "pipe1", "pipe2"}
    BY <1>4 DEF PipeFails, PipeStep, Std
  <2> QED BY <1>4, <2>1, GiveUpInv DEF PipeFails
<1>5. CASE ForkFails
  BY <1>5, GiveUpInv DEF ForkFails
<1>6. CASE Fork \/ ParentEnds \/ HXproc_wait \/ UserDone \/ WaitInterrupted
  BY <1>6, ForkInv, ParentEndsInv, WaitInv, UserDoneInv, WaitInterruptedInv
<1>7. ASSUME NEW x \in Std, UserCloses(x) PROVE ProcInv'
  BY <1>7, UserClosesInv
<1>8. CASE ChildStep \/ Killed
  BY <1>8, ChildDupInv, ChildClosePipesInv, ChildDup2Inv, ChildExecInv, GoneInv DEF ChildStep
<1>9. CASE UNCHANGED procvars
  BY <1>9, StutterInv
<1> QED BY <1>1, <1>2, <1>3, <1>4, <1>5, <1>6, <1>7, <1>8, <1>9 DEF ProcNext, CallerStep, Build

(* What holds of proc.c between any two steps of caller and child: where  *)
(* every open descriptor came from, and how far the call at hand has got.  *)
THEOREM ProcInductive == ASSUME LimitsAssumption PROVE ProcSpec => []ProcInv
BY ProcInitInv, ProcNextInv, PTL DEF ProcSpec

(* Whichever way HXproc_run_async, HXproc_run_sync and HXproc_wait go, the *)
(* process has the descriptors it had before and those handed out.         *)
THEOREM LeaksNothing == ASSUME LimitsAssumption PROVE ProcSpec => []NoLeak
<1>1. ProcInv => NoLeak
  <2> SUFFICES ASSUME ProcInv, pc \in {"idle", "user"}, NEW fd \in D
               PROVE  \/ fdt[fd] = base[fd] /\ \A x \in Std : proc.std[x] # fd
                      \/ \E x \in Std : proc.std[x] = fd /\ fdt[fd] = End(Outer(x), x)
    BY DEF NoLeak, D
  <2>1. pipes = NoPipes /\ nullfd = -1 /\ -1 \notin D
    BY TableNats DEF ProcInv, PhaseOK
  <2>2. \/ fdt[fd] = base[fd]
        \/ \E x \in Std : fd = proc.std[x] /\ fdt[fd] = End(Outer(x), x)
    BY <2>1, NoneOpen DEF ProcInv, CallerOK, At
  <2> QED BY <2>1, <2>2 DEF ProcInv, CallerOK
<1> QED BY <1>1, ProcInductive, PTL

(* The program is started with what was asked for, whatever numbers the    *)
(* pipes, /dev/null and the duplicates had on the way.                     *)
THEOREM WiresTheChild == ASSUME LimitsAssumption PROVE ProcSpec => []ChildWired
<1>1. ProcInv => ChildWired
  BY DEF ProcInv, ChildOK
<1> QED BY <1>1, ProcInductive, PTL

(* p_complete is called once for each p_prefork. *)
THEOREM PairsCallbacks == ASSUME LimitsAssumption PROVE ProcSpec => []CallbacksPaired
<1>1. ProcInv => CallbacksPaired
  BY DEF ProcInv
<1> QED BY <1>1, ProcInductive, PTL

-----------------------------------------------------------------------------
(* Files and their parts.                                                  *)

(* The bytes of a file behind position a up to position p. *)
Part(a, p) == [i \in 1 .. p - a |-> a + i]

(* A part is a sequence as long as the distance of its ends. *)
LEMMA PartType ==
    ASSUME NEW a \in Nat, NEW p \in Nat, a <= p
    PROVE  Part(a, p) \in Seq(Nat) /\ Len(Part(a, p)) = p - a
<1>1. p - a \in Nat /\ \A i \in 1 .. p - a : a + i \in Nat
    OBVIOUS
<1>2. Part(a, p) \in [1 .. p - a -> Nat]
    BY <1>1 DEF Part
<1> QED
    BY <1>1, <1>2

(* SubSeq of a file is a part of it. *)
LEMMA SubSeqOfFile ==
    ASSUME NEW n \in Nat, NEW a \in Nat, NEW p \in Nat, a <= p, p <= n
    PROVE  SubSeq(File(n), a + 1, p) = Part(a, p)
<1>1. File(n) \in Seq(Nat) /\ Len(File(n)) = n /\ \A i \in 1 .. n : File(n)[i] = i
    BY DEF File
<1>2. SubSeq(File(n), a + 1, p) = [i \in 1 .. p - a |-> File(n)[a + i]]
    BY <1>1
<1>3. \A i \in 1 .. p - a : File(n)[a + i] = a + i
    BY <1>1
<1> QED
    BY <1>2, <1>3 DEF Part

(* A part and the bytes behind it are a longer part. *)
LEMMA PartGrows ==
    ASSUME NEW a \in Nat, NEW p \in Nat, NEW q \in Nat, a <= p, p <= q
    PROVE  Part(a, p) \o Part(p, q) = Part(a, q)
<1> DEFINE f == File(q)
<1>1. f \in Seq(Nat) /\ Len(f) = q
    BY DEF File
<1>2. /\ SubSeq(f, a + 1, p) = Part(a, p) /\ SubSeq(f, p + 1, q) = Part(p, q)
      /\ SubSeq(f, a + 1, q) = Part(a, q)
    <2>1. a <= q /\ q <= q
        OBVIOUS
    <2> QED
        BY <2>1, SubSeqOfFile
<1> HIDE DEF f
<1>3. a + 1 \in 1 .. Len(f) + 1 /\ p \in (a + 1) - 1 .. Len(f) /\ q \in p .. Len(f)
    BY <1>1
<1>4. SubSeq(f, a + 1, p) \o SubSeq(f, p + 1, q) = SubSeq(f, a + 1, q)
    BY <1>1, <1>3, ConcatAdjacentSubSeq
<1> QED
    BY <1>2, <1>4

(* The least of some numbers is one of them and bounds them all. *)
LEMMA MinOfTwo ==
    ASSUME NEW a \in Int, NEW b \in Int
    PROVE  Min({a, b}) \in {a, b} /\ Min({a, b}) <= a /\ Min({a, b}) <= b
<1>1. \E x \in {a, b} : \A y \in {a, b} : x =< y
    OBVIOUS
<1> QED
    BY <1>1 DEF Min

LEMMA MinOfThree ==
    ASSUME NEW a \in Int, NEW b \in Int, NEW c \in Int
    PROVE  /\ Min({a, b, c}) \in {a, b, c}
           /\ Min({a, b, c}) <= a /\ Min({a, b, c}) <= b /\ Min({a, b, c}) <= c
<1>1. \E x \in {a, b, c} : \A y \in {a, b, c} : x =< y
    OBVIOUS
<1> QED
    BY <1>1 DEF Min

-----------------------------------------------------------------------------
(* The inductive invariant.                                                *)

Sends == [op : {"sendfile", "copy"}, at : {"chown", "cfr", "sendfile", "read", "write"},
          count : Int, was : Nat, xferd : Nat, buf : Seq(Nat), todo : Int]

Slurps == [op : {"slurp"}, at : {"chunk", "rest"}, from : Nat, was : Nat, size : Nat,
           buf : Seq(Nat)]

TypeOK ==
    /\ kern \in {"cfr", "sendfile", "rw"} /\ special \in BOOLEAN
    /\ Len(src) \in Nat /\ src = File(Len(src))
    /\ spos \in 0 .. Len(src)
    /\ xfer \in {NoXfer} \cup Sends \cup Slurps

(* A copy by the kernel has the beginning of the file in its destination;  *)
(* one by HX_sendfile_rw has moved what it is to move less count.          *)
CopyOK ==
    xfer.op = "copy" =>
        /\ xfer.was <= Len(src)
        /\ xfer.at \in {"chown", "cfr", "sendfile"} =>
              xfer.count = SSIZE_MAX /\ (xfer.at # kern => xfer.xferd = 0)
        /\ xfer.at = "sendfile" => kern # "cfr"
        /\ xfer.at \in {"read", "write"} =>
              kern = "rw" /\ xfer.count + xfer.xferd = SSIZE_MAX
        /\ kern # "rw" => dst = Part(0, spos)

(* A slurp has what it has read of the file, and room for more. *)
SlurpOK ==
    xfer.op = "slurp" =>
        /\ xfer.from <= spos /\ xfer.was <= Len(src)
        /\ xfer.buf = Part(xfer.from, spos)
        /\ xfer.at = "chunk" => /\ xfer.size >= Page
                                /\ xfer.size - Len(xfer.buf) >= Page - 1
        /\ xfer.at = "rest" => xfer.size = xfer.was /\ Len(xfer.buf) <= xfer.size

IndInv == TypeOK /\ CopyOK /\ SlurpOK

(* What the three kinds of calls are, and how they are told apart. *)
LEMMA Kinds ==
    ASSUME TypeOK
    PROVE  /\ xfer.op \in {"sendfile", "copy"} <=> xfer \in Sends
           /\ xfer.op = "slurp" <=> xfer \in Slurps
           /\ xfer.op = "none" <=> xfer = NoXfer
           /\ xfer.at \in {"chown", "cfr", "sendfile", "read", "write"} <=> xfer \in Sends
           /\ xfer.at \in {"chunk", "rest"} <=> xfer \in Slurps
<1>1. NoXfer.op = "none" /\ NoXfer.at = "none"
    BY DEF NoXfer
<1>2. CASE xfer = NoXfer
    BY <1>1, <1>2 DEF Sends, Slurps
<1>3. CASE xfer \in Sends
    BY <1>1, <1>3 DEF Sends, Slurps
<1>4. CASE xfer \in Slurps
    BY <1>1, <1>4 DEF Sends, Slurps
<1> QED
    BY <1>2, <1>3, <1>4 DEF TypeOK

(* The bytes ahead of the position are a part of the file. *)
LEMMA AheadIsPart ==
    ASSUME TypeOK, NEW n \in 0 .. Left
    PROVE  /\ spos \in Nat /\ spos + n \in Nat /\ spos + n \in 0 .. Len(src)
           /\ spos <= spos + n
           /\ Ahead(n) = Part(spos, spos + n)
           /\ Ahead(n) \in Seq(Nat) /\ Len(Ahead(n)) = n
<1>1. /\ spos \in Nat /\ spos + n \in Nat /\ spos <= spos + n
      /\ spos + n <= Len(src) /\ Len(src) \in Nat
    BY DEF TypeOK, Left
<1>2. Ahead(n) = Part(spos, spos + n)
    BY ZenonT(60), <1>1, SubSeqOfFile DEF TypeOK, Ahead
<1>3. Part(spos, spos + n) \in Seq(Nat) /\ Len(Part(spos, spos + n)) = n
    <2> DEFINE q == spos + n
    <2>1. q \in Nat /\ spos <= q /\ q - spos = n
        BY <1>1
    <2> HIDE DEF q
    <2>2. Part(spos, q) \in Seq(Nat) /\ Len(Part(spos, q)) = n
        BY <1>1, <2>1, PartType
    <2> QED
        BY <2>2 DEF q
<1> QED
    BY <1>1, <1>2, <1>3

(* A call that ends leaves nothing to account for. *)
LEMMA IdleInv ==
    ASSUME IndInv, UNCHANGED same, xfer' = NoXfer, spos' \in 0 .. Len(src)
    PROVE  IndInv'
<1>1. NoXfer.op = "none"
    BY DEF NoXfer
<1> QED
    BY <1>1 DEF IndInv, TypeOK, CopyOK, SlurpOK, same

(* HX_sendfile comes back, to its user or to HX_copy_file, which calls it  *)
(* again.                                                                  *)
LEMMA SentInv ==
    ASSUME IoAssumption, IndInv, NEW v, NEW e, xfer \in Sends, Sent(v, e),
           UNCHANGED same, spos' = spos, kern # "rw" => dst' = dst
    PROVE  IndInv'
<1>1. CASE xfer' = NoXfer
    BY <1>1, IdleInv DEF IndInv, TypeOK
<1>2. CASE xfer.op = "copy" /\ xfer' = Sending("copy", SSIZE_MAX, xfer.was)
    <2>1. /\ xfer' \in Sends /\ xfer'.op = "copy" /\ xfer'.at = "cfr"
          /\ xfer'.count = SSIZE_MAX /\ xfer'.was = xfer.was /\ xfer'.xferd = 0
        BY <1>2 DEF Sends, Sending, IoAssumption
    <2>2. CopyOK'
        BY <1>2, <2>1 DEF IndInv, CopyOK, same
    <2> QED
        BY <2>1, <2>2 DEF IndInv, TypeOK, SlurpOK, same
<1>3. xfer.op \in {"sendfile", "copy"}
    BY DEF Sends
<1> QED
    BY <1>1, <1>2, <1>3 DEF Sent, Return

(* The file grows under the calls. *)
LEMMA GrowInv ==
    ASSUME IndInv, Grow PROVE IndInv'
<1>1. /\ src' = File(Len(src) + 1)
      /\ UNCHANGED <<kern, special, spos, dst, xfer, answer, out>>
    BY DEF Grow
<1>2. Len(src) \in Nat
    BY DEF IndInv, TypeOK
<1>3. Len(src') = Len(src) + 1 /\ src' = File(Len(src'))
    BY <1>1, <1>2 DEF File
<1>4. TypeOK'
    BY <1>1, <1>2, <1>3 DEF IndInv, TypeOK
<1>5. CopyOK'
    <2> SUFFICES ASSUME xfer.op = "copy" PROVE CopyOK'
        BY <1>1 DEF CopyOK
    <2>1. xfer \in Sends
        BY Kinds DEF IndInv
    <2>2. xfer.was \in Nat
        BY <2>1 DEF Sends
    <2> QED
        BY <1>1, <1>2, <1>3, <2>2 DEF IndInv, CopyOK
<1>6. SlurpOK'
    <2> SUFFICES ASSUME xfer.op = "slurp" PROVE SlurpOK'
        BY <1>1 DEF SlurpOK
    <2>1. xfer \in Slurps
        BY Kinds DEF IndInv
    <2>2. xfer.was \in Nat
        BY <2>1 DEF Slurps
    <2> QED
        BY <1>1, <1>2, <1>3, <2>2 DEF IndInv, SlurpOK
<1> QED
    BY <1>4, <1>5, <1>6 DEF IndInv

(* The calls begin. *)
LEMMA StartInv ==
    ASSUME IoAssumption, IndInv,
           \/ \E count \in 0 .. MaxFile : HX_sendfile(count)
           \/ \E keep, chown \in BOOLEAN : HX_copy_file(keep, chown)
    PROVE  IndInv'
<1>1. Len(src) \in Nat /\ kern \in {"cfr", "sendfile", "rw"} /\ UNCHANGED same
    BY DEF IndInv, TypeOK, HX_sendfile, HX_copy_file
<1>2. CASE \E count \in 0 .. MaxFile : HX_sendfile(count)
    <2>1. PICK count \in 0 .. MaxFile : HX_sendfile(count)
        BY <1>2
    <2>2. xfer' = Sending("sendfile", count, Len(src)) /\ spos' = spos
        BY <2>1 DEF HX_sendfile, Start
    <2>3. xfer' \in Sends /\ xfer'.op = "sendfile"
        BY <1>1, <2>2 DEF Sending, Sends
    <2> QED
        BY <1>1, <2>2, <2>3 DEF IndInv, TypeOK, CopyOK, SlurpOK, same
<1>3. CASE \E keep, chown \in BOOLEAN : HX_copy_file(keep, chown)
    <2>1. PICK keep \in BOOLEAN, chown \in BOOLEAN : HX_copy_file(keep, chown)
        BY <1>3
    <2> DEFINE stage == IF chown THEN "chown" ELSE "cfr"
    <2>2. /\ xfer' = [Sending("copy", SSIZE_MAX, Len(src)) EXCEPT !.at = stage]
          /\ spos' = 0 /\ dst' = <<>>
        BY <2>1 DEF HX_copy_file, Start
    <2>3. stage \in {"chown", "cfr"}
        OBVIOUS
    <2> HIDE DEF stage
    <2>4. /\ xfer' \in Sends /\ xfer'.op = "copy" /\ xfer'.at = stage
          /\ xfer'.was = Len(src) /\ xfer'.count = SSIZE_MAX /\ xfer'.xferd = 0
        <3>1. xfer' = [op |-> "copy", at |-> stage, count |-> SSIZE_MAX, was |-> Len(src),
                       xferd |-> 0, buf |-> <<>>, todo |-> 0]
            BY <2>2 DEF Sending
        <3>2. SSIZE_MAX \in Int /\ <<>> \in Seq(Nat)
            BY DEF IoAssumption
        <3> QED
            BY <1>1, <2>3, <3>1, <3>2 DEF Sends
    <2>5. Part(0, 0) = <<>>
        <3>1. Part(0, 0) \in Seq(Nat) /\ Len(Part(0, 0)) = 0
            BY PartType
        <3> QED
            BY <3>1
    <2>6. CopyOK'
        BY <1>1, <2>2, <2>3, <2>4, <2>5 DEF CopyOK, same
    <2> QED
        BY <1>1, <2>2, <2>4, <2>6 DEF IndInv, TypeOK, SlurpOK, same
<1> QED
    BY <1>2, <1>3

(* The kernel moves a part of the file to the destination. *)
LEMMA KernelMovesInv ==
    ASSUME IoAssumption, IndInv, KernelMoves PROVE IndInv'
<1>1. xfer \in Sends /\ xfer.at = kern /\ xfer.at \in {"cfr", "sendfile"}
    BY Kinds DEF IndInv, KernelMoves, InKernel
<1>2. Left \in Int /\ INT_MAX \in Int /\ xfer.count \in Int /\ xfer.xferd \in Nat
    BY <1>1 DEF IndInv, TypeOK, Left, IoAssumption, Sends
<1>3. \A m \in 1 .. Min({Left, INT_MAX, xfer.count}) : m \in 0 .. Left
    <2>1. Min({Left, INT_MAX, xfer.count}) \in Int /\ Min({Left, INT_MAX, xfer.count}) <= Left
        BY <1>2, MinOfThree
    <2> QED
        BY <2>1, <1>2
<1>4. PICK n \in 0 .. Left :
         /\ dst' = dst \o Ahead(n)
         /\ spos' = spos + n
         /\ xfer' = [xfer EXCEPT !.xferd = @ + n]
    BY <1>3 DEF KernelMoves
<1>5. /\ spos \in Nat /\ spos + n \in Nat /\ spos + n \in 0 .. Len(src)
      /\ spos <= spos + n /\ Ahead(n) = Part(spos, spos + n)
    BY AheadIsPart DEF IndInv
<1>6. /\ xfer' \in Sends /\ xfer'.op = xfer.op /\ xfer'.at = xfer.at
      /\ xfer'.was = xfer.was /\ xfer'.count = xfer.count
    <2>1. xfer.xferd + n \in Nat
        BY <1>2
    <2> QED
        BY <1>1, <1>4, <2>1 DEF Sends
<1>7. dst = Part(0, spos) => dst' = Part(0, spos')
    <2>1. 0 \in Nat /\ 0 <= spos /\ spos' \in Nat /\ spos <= spos'
        BY <1>4, <1>5
    <2>2. Part(0, spos) \o Part(spos, spos') = Part(0, spos')
        BY <1>5, <2>1, PartGrows
    <2> QED
        BY <1>4, <1>5, <2>2
<1>8. UNCHANGED same
    BY DEF KernelMoves
<1>9. CopyOK'
    BY <1>1, <1>6, <1>7, <1>8 DEF IndInv, CopyOK, same
<1>10. SlurpOK'
    BY <1>6 DEF SlurpOK, Sends
<1> QED
    BY <1>4, <1>5, <1>6, <1>8, <1>9, <1>10 DEF IndInv, TypeOK, same

(* The ways in which HX_sendfile comes back. *)
LEMMA SendEndsInv ==
    ASSUME IoAssumption, IndInv, KernelEnds \/ KernelFails \/ RwNoMem \/ RwFails
    PROVE  IndInv'
<1>1. xfer \in Sends
    BY Kinds DEF IndInv, KernelEnds, KernelFails, InKernel, RwNoMem, RwFails
<1>2. UNCHANGED <<same, spos, dst>> /\ \E v, e : Sent(v, e)
    BY DEF KernelEnds, KernelFails, RwNoMem, RwFails
<1> QED
    BY <1>1, <1>2, SentInv

(* The next way is tried. *)
LEMMA FallbackInv ==
    ASSUME IoAssumption, IndInv, Fallback PROVE IndInv'
<1>1. xfer \in Sends /\ xfer.at \in {"cfr", "sendfile"} /\ xfer.at # kern
    BY Kinds DEF IndInv, Fallback
<1>2. UNCHANGED <<same, spos, dst, out>>
    BY DEF Fallback
<1>3. xfer.op = "copy" => xfer.count = SSIZE_MAX
    BY <1>1 DEF IndInv, CopyOK
<1>4. kern \in {"cfr", "sendfile", "rw"}
    BY DEF IndInv, TypeOK
<1>5. CASE xfer.at = "cfr" /\ xfer' = [xfer EXCEPT !.at = "sendfile"]
    <2>1. /\ xfer' \in Sends /\ xfer'.op = xfer.op /\ xfer'.at = "sendfile"
          /\ xfer'.was = xfer.was /\ xfer'.count = xfer.count
          /\ xfer'.xferd = xfer.xferd
        BY <1>1, <1>5 DEF Sends
    <2>2. CopyOK'
        BY <1>1, <1>2, <1>3, <1>5, <2>1 DEF IndInv, CopyOK, same
    <2> QED
        BY <1>2, <2>1, <2>2 DEF IndInv, TypeOK, SlurpOK, Sends, same
<1>6. CASE Sent(0, "0")
    BY <1>1, <1>2, <1>6, SentInv
<1>7. CASE /\ xfer.at = "sendfile"
           /\ xfer' = [xfer EXCEPT !.at = "read", !.todo = Min({BufSize, xfer.count})]
    <2>1. Min({BufSize, xfer.count}) \in Int
        <3>1. BufSize \in Int /\ xfer.count \in Int
            BY <1>1 DEF IoAssumption, Sends
        <3> QED
            BY <3>1, MinOfTwo
    <2>2. /\ xfer' \in Sends /\ xfer'.op = xfer.op /\ xfer'.at = "read"
          /\ xfer'.was = xfer.was /\ xfer'.count = xfer.count /\ xfer'.xferd = xfer.xferd
        BY <1>1, <1>7, <2>1 DEF Sends
    <2>3. xfer.op = "copy" => xfer.xferd = 0
        BY <1>1, <1>7 DEF IndInv, CopyOK
    <2>4. xfer.op = "copy" => kern = "rw"
        BY <1>1, <1>4, <1>7 DEF IndInv, CopyOK
    <2>5. CopyOK'
        BY <1>2, <1>3, <2>2, <2>3, <2>4 DEF IndInv, CopyOK, same, IoAssumption
    <2> QED
        BY <1>2, <2>2, <2>5 DEF IndInv, TypeOK, SlurpOK, Sends, same
<1> QED
    BY <1>1, <1>5, <1>6, <1>7 DEF Fallback

(* HX_sendfile_rw reads into its buffer. *)
LEMMA RwReadsInv ==
    ASSUME IoAssumption, IndInv, RwReads PROVE IndInv'
<1>1. xfer \in Sends /\ xfer.at = "read"
    BY Kinds DEF IndInv, RwReads
<1>2. Left \in Int /\ xfer.todo \in Int
    BY <1>1 DEF IndInv, TypeOK, Left, Sends
<1>3. \A m \in 0 .. Min({Left, xfer.todo}) : m \in 0 .. Left
    <2>1. Min({Left, xfer.todo}) \in Int /\ Min({Left, xfer.todo}) <= Left
        BY <1>2, MinOfTwo
    <2> QED
        BY <1>2, <2>1
<1>4. PICK n \in 0 .. Left :
         /\ spos' = spos + n
         /\ xfer' = [xfer EXCEPT !.buf = @ \o Ahead(n),
                                 !.todo = @ - n,
                                 !.at = IF n \in {0, xfer.todo} THEN "write" ELSE "read"]
    BY <1>3 DEF RwReads
<1> DEFINE stage == IF n \in {0, xfer.todo} THEN "write" ELSE "read"
<1>5. stage \in {"read", "write"} /\ xfer' = [xfer EXCEPT !.buf = @ \o Ahead(n),
                                          !.todo = @ - n, !.at = stage]
    BY <1>4
<1> HIDE DEF stage
<1>6. spos + n \in 0 .. Len(src) /\ Ahead(n) \in Seq(Nat)
    BY AheadIsPart DEF IndInv
<1>7. xfer.buf \o Ahead(n) \in Seq(Nat) /\ xfer.todo - n \in Int
    BY <1>1, <1>2, <1>6 DEF Sends
<1>8. /\ xfer' \in Sends /\ xfer'.op = xfer.op /\ xfer'.at = stage
      /\ xfer'.was = xfer.was /\ xfer'.count = xfer.count /\ xfer'.xferd = xfer.xferd
    BY <1>1, <1>5, <1>7 DEF Sends
<1>9. UNCHANGED <<same, dst>>
    BY DEF RwReads
<1>10. CopyOK'
    BY <1>1, <1>5, <1>8, <1>9 DEF IndInv, CopyOK, same
<1> QED
    BY <1>4, <1>6, <1>8, <1>9, <1>10 DEF IndInv, TypeOK, SlurpOK, Sends, same

(* HX_sendfile_rw writes from its buffer. *)
LEMMA RwWritesInv ==
    ASSUME IoAssumption, IndInv, RwWrites PROVE IndInv'
<1>1. xfer \in Sends /\ xfer.at = "write" /\ UNCHANGED <<same, spos, out>>
    BY Kinds DEF IndInv, RwWrites
<1>2. /\ xfer.buf \in Seq(Nat) /\ Len(xfer.buf) \in Nat /\ xfer.count \in Int
      /\ xfer.xferd \in Nat
    BY <1>1 DEF Sends
<1>3. xfer.op = "copy" => kern = "rw" /\ xfer.count + xfer.xferd = SSIZE_MAX
    BY <1>1 DEF IndInv, CopyOK
<1>4. PICK n \in 0 .. Len(xfer.buf) :
         LET rest == xfer.count - n
             more == [xfer EXCEPT !.buf = SubSeq(@, n + 1, Len(@)),
                                  !.count = rest, !.xferd = @ + n]
         IN  IF n < Len(xfer.buf) THEN xfer' = more /\ UNCHANGED answer
             ELSE IF rest = 0 THEN Sent(xfer.xferd + n, "0")
             ELSE /\ xfer' = [more EXCEPT !.at = "read", !.todo = Min({BufSize, rest})]
                  /\ UNCHANGED answer
    BY DEF RwWrites
<1> DEFINE rest == xfer.count - n
           left == SubSeq(xfer.buf, n + 1, Len(xfer.buf))
           more == [xfer EXCEPT !.buf = left, !.count = rest, !.xferd = xfer.xferd + n]
           part == Min({BufSize, rest})
<1>5. left \in Seq(Nat) /\ rest \in Int /\ xfer.xferd + n \in Nat
    BY <1>2
<1>6. rest + (xfer.xferd + n) = xfer.count + xfer.xferd
    BY <1>2
<1>7. \/ xfer' = more
      \/ Sent(xfer.xferd + n, "0")
      \/ xfer' = [more EXCEPT !.at = "read", !.todo = part]
    BY <1>4
<1>8. part \in Int
    <2>1. BufSize \in Int
        BY DEF IoAssumption
    <2> HIDE DEF rest
    <2> QED
        BY <1>5, <2>1, MinOfTwo
<1> HIDE DEF rest, left, part
<1>9. /\ more \in Sends /\ more.op = xfer.op /\ more.at = "write"
      /\ more.was = xfer.was /\ more.count = rest /\ more.xferd = xfer.xferd + n
    BY <1>1, <1>5 DEF Sends
<1> HIDE DEF more
<1>10. CASE Sent(xfer.xferd + n, "0")
    <2>1. CASE xfer.op = "copy"
        BY <1>1, <1>3, <1>10, <2>1, SentInv
    <2>2. CASE xfer.op = "sendfile"
        BY <1>1, <1>10, <2>2, IdleInv DEF Sent, Return, IndInv, TypeOK
    <2> QED
        BY <1>1, <2>1, <2>2 DEF Sends
<1>11. ASSUME \/ xfer' = more
              \/ xfer' = [more EXCEPT !.at = "read", !.todo = part]
       PROVE  IndInv'
    <2>1. /\ xfer' \in Sends /\ xfer'.op = xfer.op /\ xfer'.at \in {"read", "write"}
          /\ xfer'.was = xfer.was /\ xfer'.count = rest /\ xfer'.xferd = xfer.xferd + n
        BY <1>8, <1>9, <1>11 DEF Sends
    <2>2. CopyOK'
        BY <1>1, <1>3, <1>6, <2>1 DEF IndInv, CopyOK, same
    <2> QED
        BY <1>1, <2>1, <2>2 DEF IndInv, TypeOK, SlurpOK, Sends, same
<1> QED
    BY <1>7, <1>10, <1>11

(* HX_copy_file changes the owner of the destination, or gives up. *)
LEMMA CopyChownInv ==
    ASSUME IoAssumption, IndInv, CopyChown PROVE IndInv'
<1>1. xfer \in Sends /\ xfer.at = "chown" /\ UNCHANGED <<same, spos>>
    BY Kinds DEF IndInv, CopyChown
<1>2. CASE xfer' = [xfer EXCEPT !.at = "cfr"] /\ dst' = dst
    <2>1. /\ xfer' \in Sends /\ xfer'.op = xfer.op /\ xfer'.at = "cfr"
          /\ xfer'.was = xfer.was /\ xfer'.count = xfer.count
          /\ xfer'.xferd = xfer.xferd
        BY <1>1, <1>2 DEF Sends
    <2>2. CopyOK'
        <3>1. kern # "chown"
            BY DEF IndInv, TypeOK
        <3> QED
            BY <1>1, <1>2, <2>1, <3>1 DEF IndInv, CopyOK, same
    <2> QED
        BY <1>1, <2>1, <2>2 DEF IndInv, TypeOK, SlurpOK, Sends, same
<1>3. CASE xfer' = NoXfer
    BY <1>1, <1>3, IdleInv DEF IndInv, TypeOK
<1> QED
    BY <1>2, <1>3 DEF CopyChown, Return

(* A slurp begins with an empty buffer. *)
LEMMA SlurpBeginsInv ==
    ASSUME IoAssumption, IndInv, HX_slurp_fd \/ HX_slurp_file PROVE IndInv'
<1>1. PICK from \in 0 .. Len(src) :
         xfer' = Slurping(from) /\ spos' = from /\ UNCHANGED <<same, dst>>
    BY DEF HX_slurp_fd, HX_slurp_file, Start, IndInv, TypeOK
<1>2. Len(src) \in Nat /\ from \in Nat /\ Page \in Nat /\ Page >= 3
    BY <1>1 DEF IndInv, TypeOK, IoAssumption
<1> DEFINE sized == ~special /\ src # <<>>
           stage == IF sized THEN "rest" ELSE "chunk"
           size == IF sized THEN Len(src) ELSE Page
<1>3. xfer' = [op |-> "slurp", at |-> stage, from |-> from, was |-> Len(src),
               size |-> size, buf |-> <<>>]
    BY <1>1 DEF Slurping
<1>4. stage \in {"chunk", "rest"} /\ size \in Nat
      /\ (stage = "rest" => size = Len(src)) /\ (stage = "chunk" => size = Page)
    BY <1>2
<1> HIDE DEF sized, stage, size
<1>5. <<>> \in Seq(Nat) /\ Len(<<>>) = 0
    OBVIOUS
<1>6. /\ xfer' \in Slurps /\ xfer'.op = "slurp" /\ xfer'.at = stage /\ xfer'.from = from
      /\ xfer'.was = Len(src) /\ xfer'.size = size /\ xfer'.buf = <<>>
    BY <1>2, <1>3, <1>4, <1>5 DEF Slurps
<1>7. Part(from, from) = <<>>
    <2>1. Part(from, from) \in Seq(Nat) /\ Len(Part(from, from)) = 0
        BY <1>2, PartType
    <2> QED
        BY <2>1
<1>8. SlurpOK'
    BY <1>1, <1>2, <1>4, <1>5, <1>6, <1>7 DEF SlurpOK, same
<1> QED
    BY <1>1, <1>6, <1>8 DEF IndInv, TypeOK, CopyOK, same

(* Two sequences behind each other. *)
LEMMA Joined ==
    ASSUME NEW s \in Seq(Nat), NEW r \in Seq(Nat)
    PROVE  s \o r \in Seq(Nat) /\ Len(s \o r) = Len(s) + Len(r)
OBVIOUS

(* A read of a slurp that keeps the room its loop relies on. *)
LEMMA SlurpReadInv ==
    ASSUME IndInv, xfer \in Slurps, NEW n \in 0 .. Left, NEW size \in Nat,
           UNCHANGED <<same, dst>>, spos' = spos + n,
           xfer' = [xfer EXCEPT !.buf = @ \o Ahead(n), !.size = size],
           xfer.at = "chunk" =>
               size >= Page /\ size - (Len(xfer.buf) + n) >= Page - 1,
           xfer.at = "rest" => size = xfer.size /\ Len(xfer.buf) + n <= size
    PROVE  IndInv'
<1>1. /\ spos \in Nat /\ spos + n \in Nat /\ spos + n \in 0 .. Len(src)
      /\ spos <= spos + n /\ Ahead(n) = Part(spos, spos + n)
      /\ Ahead(n) \in Seq(Nat) /\ Len(Ahead(n)) = n
    BY AheadIsPart DEF IndInv
<1>2. /\ xfer.buf \in Seq(Nat) /\ xfer.from \in Nat /\ xfer.op = "slurp"
      /\ xfer.at \in {"chunk", "rest"} /\ n \in Nat /\ Len(xfer.buf) \in Nat
    BY DEF Slurps
<1>3. xfer.buf \o Ahead(n) \in Seq(Nat) /\ Len(xfer.buf \o Ahead(n)) = Len(xfer.buf) + n
    <2>1. /\ xfer.buf \o Ahead(n) \in Seq(Nat)
          /\ Len(xfer.buf \o Ahead(n)) = Len(xfer.buf) + Len(Ahead(n))
        BY <1>1, <1>2, Joined, Zenon
    <2> QED
        BY <1>1, <2>1, Zenon
<1>4. /\ xfer' \in Slurps /\ xfer'.op = "slurp" /\ xfer'.at = xfer.at
      /\ xfer'.from = xfer.from /\ xfer'.was = xfer.was /\ xfer'.size = size
      /\ xfer'.buf = xfer.buf \o Ahead(n)
    BY <1>3 DEF Slurps
<1>5. /\ xfer.from <= spos /\ xfer.was <= Len(src) /\ xfer.buf = Part(xfer.from, spos)
      /\ xfer.at = "rest" => xfer.size = xfer.was
    BY <1>2 DEF IndInv, SlurpOK
<1>6. xfer'.buf = Part(xfer.from, spos')
    <2>1. spos' \in Nat /\ spos <= spos'
        BY <1>1
    <2>2. Part(xfer.from, spos) \o Part(spos, spos') = Part(xfer.from, spos')
        BY ZenonT(60), <1>1, <1>2, <1>5, <2>1, PartGrows
    <2> QED
        BY <1>1, <1>4, <1>5, <2>2
<1>7. xfer.from <= spos'
    BY <1>1, <1>2, <1>5
<1>8. SlurpOK'
    BY <1>3, <1>4, <1>5, <1>6, <1>7 DEF SlurpOK, same
<1> QED
    BY <1>1, <1>4, <1>8 DEF IndInv, TypeOK, CopyOK, same

(* A read into the buffer of a file without a size. *)
LEMMA SlurpChunkInv ==
    ASSUME IoAssumption, IndInv, SlurpChunk PROVE IndInv'
<1>1. xfer \in Slurps /\ xfer.at = "chunk" /\ xfer.op = "slurp"
    BY Kinds DEF IndInv, SlurpChunk
<1> DEFINE len == Len(xfer.buf)
           room == xfer.size - 1 - len
<1>2. /\ len \in Nat /\ xfer.size \in Nat /\ Page \in Nat /\ Page >= 3 /\ Left \in Int
      /\ xfer.size >= Page /\ xfer.size - len >= Page - 1
    <2>1. len \in Nat /\ xfer.size \in Nat
        BY <1>1 DEF Slurps
    <2> QED
        BY <1>1, <2>1 DEF IndInv, TypeOK, SlurpOK, IoAssumption, Left
<1>3. \A m \in 1 .. Min({Left, room}) : m \in 0 .. Left /\ m <= room
    <2>1. room \in Int
        BY <1>2
    <2> HIDE DEF room
    <2>2. Min({Left, room}) \in Int /\ Min({Left, room}) <= Left /\ Min({Left, room}) <= room
        BY <1>2, <2>1, MinOfTwo
    <2> QED
        BY <1>2, <2>1, <2>2
<1>4. PICK n \in 0 .. Left :
         /\ n <= room
         /\ spos' = spos + n
         /\ xfer' = [xfer EXCEPT !.buf = @ \o Ahead(n), !.size = Enlarged(Len(xfer.buf) + n)]
    BY <1>3 DEF SlurpChunk
<1> DEFINE size == Enlarged(len + n)
<1>5. size \in Nat /\ size >= Page /\ size - (len + n) >= Page - 1
    <2> DEFINE old == xfer.size
               off == len + n
    <2>1. /\ off \in Nat /\ old \in Nat /\ off < old /\ old >= Page
          /\ Page \in Nat
        BY SMTT(30), <1>2, <1>4
    <2>2. size = IF old - off >= Page - 1 THEN old ELSE 2 * old
        BY DEF Enlarged
    <2> HIDE DEF old, off, size
    <2>3. size \in Nat /\ size >= Page /\ size - off >= Page - 1
        BY <2>1, <2>2
    <2> QED
        BY <2>3 DEF off
<1> HIDE DEF size
<1>6. UNCHANGED <<same, dst>> /\ xfer' = [xfer EXCEPT !.buf = @ \o Ahead(n), !.size = size]
    BY <1>4 DEF SlurpChunk, size
<1> QED
    BY <1>1, <1>4, <1>5, <1>6, SlurpReadInv

(* The read of a file with a size. *)
LEMMA SlurpRestInv ==
    ASSUME IoAssumption, IndInv, SlurpRest PROVE IndInv'
<1>1. xfer \in Slurps /\ xfer.at = "rest" /\ xfer.op = "slurp"
    BY Kinds DEF IndInv, SlurpRest
<1> DEFINE room == xfer.size - Len(xfer.buf)
<1>2. /\ Len(xfer.buf) \in Nat /\ xfer.size \in Nat /\ Left \in Int /\ room \in Int
    <2>1. Len(xfer.buf) \in Nat /\ xfer.size \in Nat
        BY <1>1 DEF Slurps
    <2> QED
        BY <2>1 DEF IndInv, TypeOK, Left
<1>3. \A m \in 1 .. Min({Left, room}) : m \in 0 .. Left /\ m <= room
    <2> HIDE DEF room
    <2>2. Min({Left, room}) \in Int /\ Min({Left, room}) <= Left /\ Min({Left, room}) <= room
        BY <1>2, MinOfTwo
    <2> QED
        BY <1>2, <2>2
<1>4. CASE SlurpReturns(xfer.buf)
    BY <1>4, IdleInv DEF SlurpReturns, Return, IndInv, TypeOK
<1>5. CASE \E n \in 1 .. Min({Left, room}) :
              /\ spos' = spos + n
              /\ xfer' = [xfer EXCEPT !.buf = @ \o Ahead(n)]
              /\ UNCHANGED <<same, dst, answer, out>>
    <2>1. PICK n \in 0 .. Left :
              /\ n <= room
              /\ spos' = spos + n
              /\ xfer' = [xfer EXCEPT !.buf = @ \o Ahead(n)]
              /\ UNCHANGED <<same, dst, answer, out>>
        BY <1>3, <1>5
    <2>2. xfer' = [xfer EXCEPT !.buf = @ \o Ahead(n), !.size = xfer.size]
        BY <1>1, <2>1 DEF Slurps
    <2>3. Len(xfer.buf) + n <= xfer.size
        BY <1>2, <2>1
    <2> QED
        BY <1>1, <1>2, <2>1, <2>2, <2>3, SlurpReadInv
<1> QED
    BY <1>4, <1>5 DEF SlurpRest

(* The ways in which a slurp, or an attempt to copy, comes back. *)
LEMMA ReturnsInv ==
    ASSUME IndInv, CopyFails \/ SlurpFails \/ SlurpStops \/ SlurpReadError
    PROVE  IndInv'
<1>1. xfer' = NoXfer /\ UNCHANGED <<same, spos>>
    BY DEF CopyFails, SlurpFails, SlurpStops, SlurpReadError, SlurpReturns, Return
<1> QED
    BY <1>1, IdleInv DEF IndInv, TypeOK

(* The invariant holds initially and is kept by every step. *)
LEMMA InitInv ==
    ASSUME IoInit PROVE IndInv
<1>1. NoXfer.op = "none" /\ NoXfer.at = "none"
    BY DEF NoXfer
<1>2. src = File(0) /\ Len(File(0)) = 0
    BY DEF IoInit, File
<1> QED
    BY <1>1, <1>2 DEF IoInit, IndInv, TypeOK, CopyOK, SlurpOK

LEMMA NextInv ==
    ASSUME IoAssumption, IndInv, [IoNext]_iovars PROVE IndInv'
<1>1. CASE Grow
    BY <1>1, GrowInv
<1>2. CASE \/ \E count \in 0 .. MaxFile : HX_sendfile(count)
           \/ \E keep, chown \in BOOLEAN : HX_copy_file(keep, chown)
    BY <1>2, StartInv
<1>3. CASE HX_slurp_fd \/ HX_slurp_file
    BY <1>3, SlurpBeginsInv
<1>4. CASE SendSteps
    BY <1>4, KernelMovesInv, SendEndsInv, FallbackInv, RwReadsInv, RwWritesInv, CopyChownInv
       DEF SendSteps
<1>5. CASE SlurpSteps \/ CopyFails
    BY <1>5, SlurpChunkInv, SlurpRestInv, ReturnsInv DEF SlurpSteps
<1>6. CASE UNCHANGED iovars
    <2>1. UNCHANGED <<kern, special, src, spos, dst, xfer>>
        BY <1>6 DEF iovars
    <2> QED
        BY <2>1 DEF IndInv, TypeOK, CopyOK, SlurpOK
<1> QED
    BY <1>1, <1>2, <1>3, <1>4, <1>5, <1>6 DEF IoNext

(* The inductive invariant: what a copy has in its destination and a slurp *)
(* in its buffer at every step.                                            *)
THEOREM Inductive ==
    ASSUME IoAssumption PROVE IoSpec => []IndInv
<1>1. IoInit => IndInv
    BY InitInv
<1>2. IndInv /\ [IoNext]_iovars => IndInv'
    BY NextInv
<1> QED
    BY <1>1, <1>2, PTL DEF IoSpec

-----------------------------------------------------------------------------
(* HX_copy_file reports success only when HX_sendfile moved nothing, which *)
(* it does only at the end of the file.                                    *)
LEMMA SuccessAtEnd ==
    ASSUME IoAssumption, IndInv, [IoNext]_iovars, xfer.op = "copy", xfer' = NoXfer, answer' = 1
    PROVE  /\ kern # "rw" /\ spos = Len(src) /\ UNCHANGED <<src, dst>>
<1>0. xfer \in Sends /\ xfer \notin Slurps /\ xfer # NoXfer
    <2>1. NoXfer.op = "none"
        BY DEF NoXfer
    <2> QED
        BY <2>1, Kinds DEF IndInv
<1>1. ASSUME NEW v, NEW e, Sent(v, e) PROVE v = 0
    <2>1. Sending("copy", SSIZE_MAX, xfer.was).op # NoXfer.op
        BY DEF Sending, NoXfer
    <2> QED
        BY <1>1, <2>1 DEF Sent, Return
<1>2. /\ xfer.xferd \in Nat /\ xfer.count \in Int /\ SSIZE_MAX \in Nat \ {0}
      /\ xfer.buf \in Seq(Nat)
    BY <1>0 DEF Sends, IoAssumption
<1>3. CASE KernelEnds
    <2>1. xfer.at \in {"cfr", "sendfile"} /\ xfer.at = kern
        BY <1>3 DEF KernelEnds, InKernel
    <2>2. xfer.count = SSIZE_MAX
        BY <2>1 DEF IndInv, CopyOK
    <2>3. Left = 0
        BY <1>2, <1>3, <2>2 DEF KernelEnds
    <2> QED
        BY <1>3, <2>1, <2>3 DEF KernelEnds, IndInv, TypeOK, Left, same
<1>4. CASE KernelFails \/ RwNoMem \/ RwFails
    <2>1. \E v, e : Sent(v, e) /\ v # 0
        BY <1>2, <1>4 DEF KernelFails, RwNoMem, RwFails
    <2> QED
        BY <1>1, <2>1
<1>5. CASE Fallback
    <2>1. xfer.count # 0
        BY <1>2, <1>5 DEF Fallback, IndInv, CopyOK
    <2>2. xfer'.at # "none"
        BY <1>0, <1>5, <2>1 DEF Fallback, Sends
    <2> QED
        BY <2>2 DEF NoXfer
<1>6. CASE RwWrites
    <2>1. PICK n \in 0 .. Len(xfer.buf) :
             \/ xfer'.at # "none"
             \/ xfer.count - n = 0 /\ Sent(xfer.xferd + n, "0")
        <3>1. PICK n \in 0 .. Len(xfer.buf) :
                LET rest == xfer.count - n
                    more == [xfer EXCEPT !.buf = SubSeq(@, n + 1, Len(@)),
                                         !.count = rest, !.xferd = @ + n]
                IN  IF n < Len(xfer.buf) THEN xfer' = more /\ UNCHANGED answer
                    ELSE IF rest = 0 THEN Sent(xfer.xferd + n, "0")
                    ELSE /\ xfer' = [more EXCEPT !.at = "read", !.todo = Min({BufSize, rest})]
                         /\ UNCHANGED answer
            BY <1>6 DEF RwWrites
        <3> DEFINE rest == xfer.count - n
                   left == SubSeq(xfer.buf, n + 1, Len(xfer.buf))
                   more == [xfer EXCEPT !.buf = left, !.count = rest,
                                        !.xferd = xfer.xferd + n]
                   part == Min({BufSize, rest})
        <3>2. \/ xfer' = more
              \/ rest = 0 /\ Sent(xfer.xferd + n, "0")
              \/ xfer' = [more EXCEPT !.at = "read", !.todo = part]
            BY <3>1
        <3> HIDE DEF rest, left, part
        <3>3. more.at = xfer.at /\ [more EXCEPT !.at = "read", !.todo = part].at = "read"
            BY <1>0 DEF Sends
        <3>4. xfer.at # "none"
            BY <1>0 DEF Sends
        <3> HIDE DEF more
        <3> QED
            BY <3>2, <3>3, <3>4 DEF rest
    <2>2. xfer'.at = "none"
        BY DEF NoXfer
    <2>3. xfer.xferd + n = 0 /\ xfer.count - n = 0
        BY <1>1, <2>1, <2>2
    <2>4. xfer.count + xfer.xferd = SSIZE_MAX
        BY <1>6 DEF RwWrites, IndInv, CopyOK
    <2> QED
        BY <1>2, <2>3, <2>4
<1>7. CASE CopyChown
    <2>1. CASE answer' = -1
        BY <2>1
    <2>2. CASE xfer' = [xfer EXCEPT !.at = "cfr"]
        BY <1>0, <2>2 DEF Sends, NoXfer
    <2> QED
        BY <1>7, <2>1, <2>2 DEF CopyChown, Return
<1>8. CASE KernelMoves \/ RwReads
    <2>1. xfer'.at # "none"
        <3>1. CASE KernelMoves
            BY <1>0, <3>1 DEF KernelMoves, Sends
        <3>2. CASE RwReads
            BY <1>0, <3>2 DEF RwReads, Sends
        <3> QED
            BY <1>8, <3>1, <3>2
    <2> QED
        BY <2>1 DEF NoXfer
<1>9. ~SlurpSteps
    BY <1>0, Kinds DEF IndInv, SlurpSteps, SlurpFails, SlurpChunk, SlurpStops,
                       SlurpReadError, SlurpRest
<1>10. /\ ~Grow /\ ~UNCHANGED iovars /\ ~CopyFails /\ ~HX_slurp_fd /\ ~HX_slurp_file
       /\ ~\E count \in 0 .. MaxFile : HX_sendfile(count)
       /\ ~\E keep, chown \in BOOLEAN : HX_copy_file(keep, chown)
    BY <1>0 DEF Grow, iovars, CopyFails, HX_slurp_fd, HX_slurp_file, HX_sendfile,
                HX_copy_file, Start
<1> QED
    BY <1>3, <1>4, <1>5, <1>6, <1>7, <1>8, <1>9, <1>10 DEF IoNext, SendSteps

(* HX_copy_file that reports success has copied the file byte for byte and *)
(* to its end, for every way the kernel may cut or interrupt it.           *)
THEOREM CopiesExactly ==
    ASSUME IoAssumption PROVE IoSpec => CopyExact
<1>1. ASSUME IndInv, [IoNext]_iovars, xfer.op = "copy", xfer' = NoXfer, answer' = 1
      PROVE  dst' = SubSeq(src, 1, spos) /\ spos >= xfer.was
    <2>1. kern # "rw" /\ spos = Len(src) /\ dst' = dst
        BY <1>1, SuccessAtEnd
    <2>2. dst = Part(0, spos) /\ xfer.was <= Len(src)
        BY <1>1, <2>1 DEF IndInv, CopyOK
    <2>3. spos \in Nat /\ Len(src) \in Nat /\ src = File(Len(src)) /\ 0 <= spos
        BY <1>1 DEF IndInv, TypeOK
    <2>4. SubSeq(File(Len(src)), 1, spos) = Part(0, spos)
        <3> DEFINE a == 0
        <3>1. a \in Nat /\ a <= spos /\ a + 1 = 1 /\ spos <= Len(src)
            BY <2>1, <2>3
        <3> HIDE DEF a
        <3>2. SubSeq(File(Len(src)), a + 1, spos) = Part(a, spos)
            BY <2>3, <3>1, SubSeqOfFile
        <3>3. SubSeq(File(Len(src)), 1, spos) = Part(a, spos)
            BY <3>1, <3>2, Zenon
        <3> QED
            BY <3>3 DEF a
    <2>5. xfer.was \in Nat
        BY <1>1, Kinds DEF IndInv, Sends
    <2> QED
        BY <2>1, <2>2, <2>3, <2>4, <2>5
<1>2. IndInv /\ [IoNext]_iovars =>
        [xfer.op = "copy" /\ xfer' = NoXfer /\ answer' = 1 =>
           /\ dst' = SubSeq(src, 1, spos)
           /\ spos >= xfer.was]_iovars
    BY <1>1
<1> QED
    BY <1>2, Inductive, PTL DEF IoSpec, CopyExact

(* What a slurp has read so far is the beginning of what it is to return,  *)
(* and the other way round when it has read far enough.                    *)
LEMMA PartPrefix ==
    ASSUME NEW n \in Nat, NEW a \in Nat, NEW w \in Nat, NEW p \in Nat,
           a <= p, w <= p, p <= n
    PROVE  IsPrefix(SubSeq(File(n), a + 1, w), Part(a, p))
<1>1. CASE w < a
    <2>1. SubSeq(File(n), a + 1, w) = <<>>
        BY <1>1, SubSeqEmpty
    <2>2. Part(a, p) \in Seq(Nat) /\ Len(Part(a, p)) \in Nat
        BY PartType
    <2>3. SubSeq(Part(a, p), 1, 0) = SubSeq(<<>>, 1, 0)
        BY SubSeqEmpty
    <2>4. Len(<<>>) = 0 /\ 0 <= Len(Part(a, p))
        BY <2>2
    <2>5. IsPrefix(<<>>, Part(a, p))
        BY <2>3, <2>4, Zenon DEF IsPrefix
    <2> QED
        BY <2>1, <2>5
<1>2. CASE a <= w
    <2>1. SubSeq(File(n), a + 1, w) = Part(a, w)
        BY <1>2, SubSeqOfFile
    <2>2. /\ Part(a, w) \in Seq(Nat) /\ Len(Part(a, w)) = w - a
          /\ Part(a, p) \in Seq(Nat) /\ Len(Part(a, p)) = p - a
        BY <1>2, PartType
    <2>3. SubSeq(Part(a, w), 1, w - a) = [i \in 1 .. w - a |-> a + i]
        <3>1. \A i \in 1 .. w - a : Part(a, w)[i] = a + i
            BY DEF Part
        <3> QED
            BY <1>2, <2>2, <3>1
    <2>4. SubSeq(Part(a, p), 1, w - a) = [i \in 1 .. w - a |-> a + i]
        <3>1. \A i \in 1 .. w - a : Part(a, p)[i] = a + i
            BY DEF Part
        <3> QED
            BY <1>2, <2>2, <3>1
    <2> QED
        BY <1>2, <2>1, <2>2, <2>3, <2>4 DEF IsPrefix
<1> QED
    BY <1>1, <1>2

(* HX_slurp_fd and HX_slurp_file return the whole of what the file held    *)
(* when they began, and the assertion of the loop holds.                   *)
THEOREM SlurpsWhole ==
    ASSUME IoAssumption PROVE IoSpec => SlurpWhole
<1>1. ASSUME IndInv, xfer.op = "slurp"
      PROVE  /\ xfer.at = "chunk" => Len(xfer.buf) < xfer.size
             /\ (SlurpStops \/ (SlurpRest /\ xfer' = NoXfer)) =>
                  IsPrefix(SubSeq(src, xfer.from + 1, xfer.was), out')
    <2>1. xfer \in Slurps
        BY <1>1, Kinds DEF IndInv
    <2>2. /\ xfer.buf \in Seq(Nat) /\ Len(xfer.buf) \in Nat /\ xfer.from \in Nat
          /\ xfer.was \in Nat /\ xfer.size \in Nat /\ Page \in Nat /\ Page >= 3
          /\ xfer.at \in {"chunk", "rest"}
        BY <2>1 DEF Slurps, IoAssumption
    <2>3. /\ xfer.from <= spos /\ xfer.was <= Len(src) /\ xfer.buf = Part(xfer.from, spos)
          /\ xfer.at = "chunk" => xfer.size - Len(xfer.buf) >= Page - 1
          /\ xfer.at = "rest" => xfer.size = xfer.was
        BY <1>1 DEF IndInv, SlurpOK
    <2>4. spos \in Nat /\ Len(src) \in Nat /\ spos <= Len(src) /\ src = File(Len(src))
        BY <1>1 DEF IndInv, TypeOK
    <2>5. xfer.at = "chunk" => Len(xfer.buf) < xfer.size - 1
        BY <2>2, <2>3
    <2>6. ASSUME SlurpReturns(xfer.buf), xfer.was <= spos
          PROVE  IsPrefix(SubSeq(src, xfer.from + 1, xfer.was), out')
        <3>1. IsPrefix(SubSeq(File(Len(src)), xfer.from + 1, xfer.was), Part(xfer.from, spos))
            BY <2>2, <2>3, <2>4, <2>6, PartPrefix
        <3> QED
            BY <3>1, <2>3, <2>4, <2>6 DEF SlurpReturns
    <2>7. ASSUME SlurpStops PROVE xfer.was <= spos
        BY <2>2, <2>3, <2>4, <2>5, <2>7 DEF SlurpStops, Left
    <2>8. ASSUME SlurpRest, xfer' = NoXfer PROVE SlurpReturns(xfer.buf) /\ xfer.was <= spos
        <3>1. xfer.op # NoXfer.op /\ xfer.at = "rest"
            BY <1>1, <2>8 DEF NoXfer, SlurpRest
        <3>2. \A n : xfer' # [xfer EXCEPT !.buf = @ \o Ahead(n)]
            <4>1. \A n : [xfer EXCEPT !.buf = @ \o Ahead(n)].op = "slurp"
                BY <1>1, <2>1 DEF Slurps
            <4> QED
                BY <2>8, <4>1 DEF NoXfer
        <3>3. SlurpReturns(xfer.buf) /\ (xfer.size - Len(xfer.buf) = 0 \/ Left = 0)
            BY <2>8, <3>2 DEF SlurpRest
        <3>4. Len(xfer.buf) = spos - xfer.from
            BY <2>2, <2>3, <2>4, PartType
        <3> QED
            BY <2>2, <2>3, <2>4, <3>1, <3>3, <3>4 DEF Left
    <2> QED
        BY <2>2, <2>5, <2>6, <2>7, <2>8 DEF SlurpStops
<1>2. IndInv /\ [IoNext]_iovars =>
        [xfer.op = "slurp" =>
           /\ xfer.at = "chunk" => Len(xfer.buf) < xfer.size
           /\ (SlurpStops \/ (SlurpRest /\ xfer' = NoXfer)) =>
                IsPrefix(SubSeq(src, xfer.from + 1, xfer.was), out')]_iovars
    BY <1>1
<1> QED
    BY <1>2, Inductive, PTL DEF IoSpec, SlurpWhole

-----------------------------------------------------------------------------
(* Directories.  RemoveStep needs to know why rmdir(2) cannot fail: FsInv  *)
(* says what each call of HX_rrmdir knows of its directory, and that no    *)
(* two calls are for the same one, so what the innermost removes is only   *)
(* ever the entry at hand of the call around it.  MakeStep needs that the  *)
(* prefix before the next one is there.  FsInv is about a file system in   *)
(* which others put no links in the place of directories, LinksInv below   *)
(* about one in which they do.                                             *)

(* What a frame can hold. *)
Frames ==
    {f \in [dir : Tree \ {Link}, names : SUBSET Tree, must : SUBSET Tree,
            seen : SUBSET Tree, cur : Tree, ret : {0, -1}] : f.names \subseteq Entries(f.dir)}

FsTypeOK ==
    /\ fs \in [Places -> {"none", "dir", "file", "link"}]
    /\ stack \in Seq(Frames)
    /\ todo \in Seq(Tree \ {Link})
    /\ at \in {"idle", "mkdir", "stat", "opendir", "readdir", "lstat", "unlink", "rmdir"}
    /\ stack # <<>> <=> at \in {"opendir", "readdir", "lstat", "unlink", "rmdir"}
    /\ todo # <<>> <=> at \in {"mkdir", "stat"}

(* Links are where links are meant to be, and the place they lead to is   *)
(* untouched.                                                              *)
Outside ==
    /\ others # "links"
    /\ fs[Out] = "dir" /\ fs[Kept] = "file"
    /\ \A n \in Tree : fs[n] = "link" => n = Link
    /\ fs[Link] \in {"none", "link"}

(* Each call was made for the entry at hand in the call before it, and no  *)
(* two are for the same directory.                                         *)
AtHand(i) == i < Len(stack) \/ at \in {"lstat", "unlink"}

Chain ==
    /\ stack # <<>> => stack[1].dir = Root
    /\ \A i \in 1 .. Len(stack) : AtHand(i) => stack[i].cur \in Entries(stack[i].dir)
    /\ \A i \in 1 .. Len(stack) - 1 : stack[i + 1].dir = stack[i].cur
    /\ \A i, j \in 1 .. Len(stack) : stack[i].dir = stack[j].dir => i = j

(* What a call f knows of the file system g after opendir when nobody else *)
(* changes it: the entries that readdir has still to return are there, and *)
(* those it has returned have gone, except the one at hand if hand.        *)
Fine(g, f, hand) ==
    /\ f.ret = 0 /\ g[f.dir] = "dir"
    /\ f.must \subseteq Entries(f.dir) /\ f.seen \subseteq Entries(f.dir)
    /\ \A n \in Entries(f.dir) : g[n] # "none" => n \in f.must
    /\ \A n \in f.must \ f.seen : g[n] # "none"
    /\ \A n \in f.seen : g[n] = "none" \/ (hand /\ n = f.cur)
    /\ hand => f.cur \in f.seen /\ g[f.cur] # "none"

(* And before it. *)
Fresh(g, f) == f.ret = 0 /\ g[f.dir] = "dir" /\ f.seen = {}

Quiet == others = "nothing" /\ stuck = {} /\ was = "dir"

Clean ==
    Quiet /\ stack # <<>> =>
      /\ \A i \in 1 .. Len(stack) - 1 : Fine(fs, stack[i], TRUE)
      /\ at = "opendir" => Fresh(fs, stack[Len(stack)])
      /\ at \in {"readdir", "rmdir"} => Fine(fs, stack[Len(stack)], FALSE)
      /\ at \in {"lstat", "unlink"} => Fine(fs, stack[Len(stack)], TRUE)
      /\ at = "unlink" => fs[stack[Len(stack)].cur] # "dir"
      /\ at = "rmdir" => /\ errno = "0"
                         /\ stack[Len(stack)].must \subseteq stack[Len(stack)].seen

(* Something that is no directory can be in the way of HX_mkdir. *)
Obstacle == \E m \in Tree : fs[m] \in {"file", "link"}

(* The directory that the next prefix is in was made or found, and what    *)
(* mkdir(2) found is there, unless others remove things.                   *)
PrefixMade ==
    /\ \A i \in 2 .. Len(todo) : todo[i] # Root /\ ParentOf[todo[i]] = todo[i - 1]
    /\ todo # <<>> /\ others # "anything" =>
         /\ todo[1] # Root => fs[ParentOf[todo[1]]] = "dir" \/ Obstacle
         /\ at = "stat" => fs[todo[1]] # "none"

FsInv == FsTypeOK /\ Outside /\ Chain /\ Clean /\ PrefixMade

-----------------------------------------------------------------------------
(* Sequences: another last element, or none.                               *)
LEMMA FrontFacts ==
    ASSUME NEW S, NEW s \in Seq(S), s # <<>>
    PROVE  /\ Len(s) \in Nat \ {0}
           /\ Front(s) \in Seq(S) /\ Len(Front(s)) = Len(s) - 1
           /\ \A i \in 1 .. Len(s) - 1 : Front(s)[i] = s[i]
           /\ Last(s) = s[Len(s)] /\ Last(s) \in S
<1>1. Len(s) \in Nat \ {0}
  OBVIOUS
<1>2. Front(s) \in Seq(S) /\ Len(Front(s)) = Len(s) - 1
      /\ \A i \in 1 .. Len(s) - 1 : Front(s)[i] = s[i]
  <2> DEFINE n == Len(s) - 1
  <2>1. n \in Int /\ n >= 0 /\ \A i \in 1 .. n : s[i] \in S
    BY <1>1
  <2> HIDE DEF n
  <2>2. /\ SubSeq(s, 1, n) \in Seq(S)
        /\ Len(SubSeq(s, 1, n)) = IF 1 <= n THEN n - 1 + 1 ELSE 0
        /\ \A i \in 1 .. n - 1 + 1 : SubSeq(s, 1, n)[i] = s[1 + i - 1]
    BY <2>1, SubSeqProperties
  <2>3. Len(SubSeq(s, 1, n)) = n /\ \A i \in 1 .. n : SubSeq(s, 1, n)[i] = s[i]
    BY <2>1, <2>2
  <2> QED BY <2>2, <2>3 DEF Front, n
<1>3. Last(s) = s[Len(s)] /\ Last(s) \in S
  BY <1>1 DEF Last
<1> QED BY <1>1, <1>2, <1>3

LEMMA SetTopFacts ==
    ASSUME NEW S, NEW s \in Seq(S), s # <<>>, NEW f \in S
    PROVE  LET t == Front(s) \o <<f>>
           IN  /\ t \in Seq(S) /\ t # <<>> /\ Len(t) = Len(s)
               /\ t[Len(s)] = f
               /\ \A i \in 1 .. Len(s) - 1 : t[i] = s[i]
<1> DEFINE u == Front(s)
<1>1. Len(s) \in Nat \ {0} /\ u \in Seq(S) /\ Len(u) = Len(s) - 1
      /\ \A i \in 1 .. Len(s) - 1 : u[i] = s[i]
  BY FrontFacts
<1> HIDE DEF u
<1> DEFINE t == u \o <<f>>
<1>2. t \in Seq(S) /\ Len(t) = Len(u) + 1
  BY <1>1
<1>3. t[Len(u) + 1] = f /\ \A i \in 1 .. Len(u) : t[i] = u[i]
  BY <1>1
<1> HIDE DEF t
<1>4. t # <<>>
  BY <1>1, <1>2
<1> QED BY <1>1, <1>2, <1>3, <1>4 DEF t, u

(* An entry is in one directory, and never the Root or outside. *)
LEMMA EntriesFacts ==
    ASSUME FsAssumption, NEW d \in Tree
    PROVE  /\ Entries(d) \subseteq Tree \ {Root}
           /\ \A n, e : n \in Entries(d) /\ n \in Entries(e) => d = e
BY DEF FsAssumption, Entries

(* The fields of the frames. *)
LEMMA FrameFacts ==
    ASSUME FsAssumption, FsTypeOK, stack # <<>>
    PROVE  /\ Len(stack) \in Nat \ {0}
           /\ Top = stack[Len(stack)]
           /\ \A i \in 1 .. Len(stack) :
                /\ stack[i] \in Frames
                /\ stack[i].dir \in Tree \ {Link} /\ stack[i].cur \in Tree
                /\ stack[i].must \subseteq Tree /\ stack[i].seen \subseteq Tree
                /\ stack[i].ret \in {0, -1}
                /\ stack[i].names \subseteq Entries(stack[i].dir)
                /\ Entries(stack[i].dir) \subseteq Tree \ {Root}
<1>1. stack \in Seq(Frames)
  BY DEF FsTypeOK
<1>2. Len(stack) \in Nat \ {0} /\ Top = stack[Len(stack)]
  BY <1>1, FrontFacts DEF Top
<1>3. ASSUME NEW i \in 1 .. Len(stack) PROVE stack[i] \in Frames
  BY <1>1, <1>2
<1>4. ASSUME NEW i \in 1 .. Len(stack)
      PROVE  /\ stack[i].dir \in Tree \ {Link} /\ stack[i].cur \in Tree
             /\ stack[i].must \subseteq Tree /\ stack[i].seen \subseteq Tree
             /\ stack[i].ret \in {0, -1}
             /\ stack[i].names \subseteq Entries(stack[i].dir)
  BY <1>3 DEF Frames
<1>5. ASSUME NEW i \in 1 .. Len(stack) PROVE Entries(stack[i].dir) \subseteq Tree \ {Root}
  BY <1>4, EntriesFacts
<1> QED BY <1>2, <1>3, <1>4, <1>5

(* An empty stack says nothing, and nothing to make says nothing. *)
LEMMA NoCall == ASSUME stack = <<>> PROVE Chain /\ Clean
BY DEF Chain, Clean

LEMMA NoMake == ASSUME todo = <<>> PROVE PrefixMade
BY DEF PrefixMade

(* Failed changes ret at most. *)
LEMMA FailedFacts ==
    ASSUME NEW f \in Frames, NEW e
    PROVE  LET g == Failed(f, e)
           IN  /\ g \in Frames
               /\ g.dir = f.dir /\ g.must = f.must /\ g.seen = f.seen /\ g.cur = f.cur
               /\ e = "0" => g = f
               /\ e # "0" => g.ret # 0
BY DEF Failed, Frames

(* The chain depends on the directories and the entries at hand only. *)
LEMMA SameChain ==
    ASSUME Chain, stack # <<>>, Len(stack) \in Nat \ {0}, Len(stack') = Len(stack),
           \A i \in 1 .. Len(stack) : stack'[i].dir = stack[i].dir,
           \A i \in 1 .. Len(stack) - 1 : stack'[i].cur = stack[i].cur,
           at' \in {"lstat", "unlink"} =>
             stack'[Len(stack)].cur \in Entries(stack[Len(stack)].dir)
    PROVE  Chain'
<1>1. /\ 1 \in 1 .. Len(stack)
      /\ \A i \in 1 .. Len(stack) - 1 : i \in 1 .. Len(stack) /\ i + 1 \in 1 .. Len(stack)
  OBVIOUS
<1>2. stack'[1].dir = Root
  BY <1>1 DEF Chain
<1>3. ASSUME NEW i \in 1 .. Len(stack), i < Len(stack) \/ at' \in {"lstat", "unlink"}
      PROVE  stack'[i].cur \in Entries(stack'[i].dir)
  <2>1. CASE i < Len(stack)
    <3>1. i \in 1 .. Len(stack) - 1
      BY <2>1
    <3> QED BY <2>1, <3>1 DEF Chain, AtHand
  <2>2. CASE i = Len(stack)
    BY <1>3, <2>2
  <2> QED BY <2>1, <2>2
<1>4. ASSUME NEW i \in 1 .. Len(stack) - 1 PROVE stack'[i + 1].dir = stack'[i].cur
  BY <1>1 DEF Chain
<1>5. ASSUME NEW i \in 1 .. Len(stack), NEW j \in 1 .. Len(stack),
             stack'[i].dir = stack'[j].dir
      PROVE  i = j
  BY <1>5 DEF Chain
<1> QED BY <1>2, <1>3, <1>4, <1>5 DEF Chain, AtHand

(* A call returns: the chain gets shorter. *)
LEMMA ReturnFacts ==
    ASSUME FsAssumption, FsTypeOK, Chain, stack # <<>>, NEW v, NEW e, Returns(v, e)
    PROVE  /\ stack' \in Seq(Frames)
           /\ errno' = e
           /\ Len(stack) = 1 \/ Len(stack) > 1
           /\ Len(stack) = 1 => stack' = <<>> /\ at' = "idle" /\ ret' = v
           /\ Len(stack) > 1 =>
                /\ stack' # <<>> /\ at' = "readdir" /\ Len(stack') = Len(stack) - 1
                /\ stack'[Len(stack) - 1] = Failed(stack[Len(stack) - 1], e)
                /\ \A i \in 1 .. Len(stack) - 2 : stack'[i] = stack[i]
           /\ Chain'
<1> DEFINE k == Len(stack)
<1>0. stack \in Seq(Frames) /\ k \in Nat \ {0}
  BY FrameFacts DEF FsTypeOK
<1>1. CASE k = 1
  <2>1. stack' = <<>> /\ at' = "idle" /\ ret' = v /\ errno' = e
    BY <1>1 DEF Returns
  <2>2. Chain'
    BY <2>1, NoCall DEF Chain, AtHand
  <2> QED BY <1>1, <2>1, <2>2
<1>2. CASE k > 1
  <2> DEFINE rest == Front(stack)
  <2>1. rest \in Seq(Frames) /\ Len(rest) = k - 1 /\ \A i \in 1 .. k - 1 : rest[i] = stack[i]
    BY <1>0, FrontFacts
  <2>2. rest # <<>>
    BY <1>0, <1>2, <2>1
  <2>3. at' = "readdir" /\ errno' = e /\ stack' = Front(rest) \o <<Failed(Last(rest), e)>>
    <3>1. ~(Len(stack) = 1)
      BY <1>2
    <3> QED BY <3>1 DEF Returns
  <2> HIDE DEF rest
  <2>4. Last(rest) = rest[k - 1] /\ Last(rest) \in Frames
    BY <2>1, <2>2, FrontFacts
  <2>5. k - 1 \in 1 .. k - 1
    BY <1>0, <1>2
  <2>6. Last(rest) = stack[k - 1]
    BY <2>1, <2>4, <2>5
  <2> DEFINE f == Failed(stack[k - 1], e)
  <2>7. f \in Frames /\ f.dir = stack[k - 1].dir /\ f.cur = stack[k - 1].cur
    BY <2>4, <2>6, FailedFacts
  <2>8. stack' = Front(rest) \o <<f>>
    BY <2>3, <2>6
  <2> HIDE DEF f
  <2>9. /\ stack' \in Seq(Frames) /\ stack' # <<>> /\ Len(stack') = k - 1
        /\ stack'[k - 1] = f
        /\ \A i \in 1 .. (k - 1) - 1 : stack'[i] = rest[i]
    BY <2>1, <2>2, <2>7, <2>8, SetTopFacts
  <2>10. \A i \in 1 .. k - 2 : stack'[i] = stack[i]
    BY <1>0, <2>1, <2>9
  <2>11. \A i \in 1 .. k - 1 : stack'[i].dir = stack[i].dir /\ stack'[i].cur = stack[i].cur
    <3> SUFFICES ASSUME NEW i \in 1 .. k - 1
                 PROVE  stack'[i].dir = stack[i].dir /\ stack'[i].cur = stack[i].cur
      OBVIOUS
    <3>1. i = k - 1 \/ i \in 1 .. k - 2
      BY <1>0
    <3> QED BY <2>7, <2>9, <2>10, <3>1
  <2>12. Chain'
    <3>1. \A i \in 1 .. k - 1 : i \in 1 .. k /\ i < k
      BY <1>0
    <3>2. 1 \in 1 .. k - 1
      BY <1>0, <1>2
    <3>3. stack'[1].dir = Root
      BY <2>11, <3>2 DEF Chain
    <3>4. \A i \in 1 .. k - 1 : stack'[i].cur \in Entries(stack'[i].dir)
      BY <2>11, <3>1 DEF Chain, AtHand
    <3>5. ASSUME NEW i \in 1 .. (k - 1) - 1 PROVE stack'[i + 1].dir = stack'[i].cur
      <4>1. i \in 1 .. k - 1 /\ i + 1 \in 1 .. k - 1
        BY <1>0
      <4> QED BY <2>11, <4>1 DEF Chain
    <3>6. \A i, j \in 1 .. k - 1 : stack'[i].dir = stack'[j].dir => i = j
      BY <2>11, <3>1 DEF Chain
    <3> QED BY <2>9, <3>3, <3>4, <3>5, <3>6 DEF Chain, AtHand
  <2> QED BY <1>0, <1>2, <2>3, <2>9, <2>10, <2>12 DEF f
<1>3. k = 1 \/ k > 1
  <2>1. k \in Nat \ {0}
    BY <1>0
  <2> HIDE DEF k
  <2> QED BY <2>1
<1> QED BY <1>1, <1>2, <1>3
-----------------------------------------------------------------------------
(* A change elsewhere does not matter to the call f. *)
LEMMA FineElsewhere ==
    ASSUME NEW g, NEW g2, NEW f, NEW hand \in BOOLEAN, Fine(g, f, hand),
           \A n : n \in Entries(f.dir) \cup {f.dir} => g2[n] = g[n],
           hand => f.cur \in Entries(f.dir)
    PROVE  Fine(g2, f, hand)
BY DEF Fine

(* The entry at hand goes. *)
LEMMA FineDone ==
    ASSUME NEW g, NEW g2, NEW f, Fine(g, f, TRUE),
           g2[f.dir] = g[f.dir], g2[f.cur] = "none",
           \A n \in Entries(f.dir) : n # f.cur => g2[n] = g[n]
    PROVE  Fine(g2, f, FALSE)
BY DEF Fine

(* What goes is in the tree, so the places outside stay. *)
LEMMA GoneOutside ==
    ASSUME FsAssumption, FsTypeOK, Outside, NEW x \in Tree, fs' = [fs EXCEPT ![x] = "none"],
           others' = others
    PROVE  /\ fs' \in [Places -> {"none", "dir", "file", "link"}] /\ Outside'
           /\ fs'[x] = "none" /\ \A n \in Places : n # x => fs'[n] = fs[n]
BY DEF FsAssumption, FsTypeOK, Outside, Places

(* A place where there can be something else than a link is not followed. *)
LEMMA NotFollowed ==
    ASSUME Outside, NEW d \in Tree \ {Link}
    PROVE  Followed(d) = d /\ NamesIn(d) = Entries(d)
BY DEF Outside, Followed, NamesIn

(* So an entry is found in its directory or nowhere. *)
LEMMA Found ==
    ASSUME FsAssumption, Outside, NEW d \in Tree \ {Link}, NEW n \in Tree
    PROVE  There(d, n) = IF fs[d] = "dir" /\ fs[n] # "none" THEN {n} ELSE {}
<1>1. fs[d] # "link" /\ n # Kept /\ n \in Places
  BY DEF Outside, FsAssumption, Places
<1> QED BY <1>1 DEF There

-----------------------------------------------------------------------------
(* The steps of HX_rrmdir.                                                 *)
LEMMA RrmdirInv == ASSUME FsAssumption, FsInv, HX_rrmdir PROVE FsInv'
<1> USE DEF FsInv
<1>1. /\ at = "idle" /\ at' = "opendir" /\ stack' = <<Frame(Root)>> /\ was' = fs[Root]
      /\ UNCHANGED <<fs, stuck, others, todo, errno, ret>>
  BY DEF HX_rrmdir
<1>2. Frame(Root) \in Frames /\ Frame(Root).dir = Root /\ Frame(Root).ret = 0
      /\ Frame(Root).seen = {}
  BY DEF Frame, Frames, FsAssumption
<1>3. /\ stack' \in Seq(Frames) /\ stack' # <<>> /\ Len(stack') = 1
      /\ stack'[1] = Frame(Root)
  BY <1>1, <1>2
<1>4. todo = <<>>
  BY <1>1 DEF FsTypeOK
<1>5. FsTypeOK'
  BY <1>1, <1>3, <1>4 DEF FsTypeOK
<1>6. Outside'
  BY <1>1 DEF Outside
<1>7. Chain'
  BY <1>1, <1>2, <1>3 DEF Chain, AtHand
<1>8. Clean'
  <2>1. Quiet' => Fresh(fs', stack'[1])
    BY <1>1, <1>2, <1>3 DEF Quiet, Fresh
  <2> QED BY <1>1, <1>3, <2>1 DEF Clean
<1>9. PrefixMade'
  BY <1>1, <1>4 DEF PrefixMade
<1> QED BY <1>5, <1>6, <1>7, <1>8, <1>9

LEMMA OpendirInv == ASSUME FsAssumption, FsInv, Opendir PROVE FsInv'
<1> USE DEF FsInv
<1> DEFINE k == Len(stack)
<1> DEFINE d == Top.dir
<1>1. /\ at = "opendir" /\ UNCHANGED <<fs, stuck, others, todo, was>>
  BY DEF Opendir
<1>2. stack # <<>> /\ todo = <<>> /\ todo' = <<>>
  BY <1>1 DEF FsTypeOK
<1>3. /\ k \in Nat \ {0} /\ k \in 1 .. k /\ Top = stack[k] /\ stack[k] \in Frames
      /\ d \in Tree \ {Link} /\ Entries(d) \subseteq Tree
  BY <1>2, FrameFacts
<1>4. Followed(d) = d /\ NamesIn(d) = Entries(d)
  BY <1>3, NotFollowed
<1>5. Outside' /\ PrefixMade'
  BY <1>1, <1>2 DEF Outside, PrefixMade
<1>6. CASE fs[d] = "dir" /\ d \notin stuck
  <2> DEFINE f == [Top EXCEPT !.names = NamesIn(d),
                              !.must = {n \in NamesIn(d) : There(d, n) # {}}]
  <2>0. {n \in NamesIn(d) : There(d, n) # {}} = {n \in Entries(d) : fs[n] # "none"}
    <3>1. \A n \in Entries(d) : There(d, n) = IF fs[n] # "none" THEN {n} ELSE {}
      BY <1>3, <1>6, Found
    <3> QED BY <1>4, <3>1
  <2>1. stack' = SetTop(f) /\ at' = "readdir" /\ UNCHANGED errno
    BY <1>4, <1>6 DEF Opendir
  <2>2. /\ f \in Frames /\ f.dir = stack[k].dir /\ f.ret = stack[k].ret
        /\ f.seen = stack[k].seen /\ f.must = {n \in Entries(d) : fs[n] # "none"}
    BY <1>3, <1>4, <2>0 DEF Frames
  <2> HIDE DEF f
  <2>3. /\ stack' \in Seq(Frames) /\ stack' # <<>> /\ Len(stack') = k /\ stack'[k] = f
        /\ \A i \in 1 .. k - 1 : stack'[i] = stack[i]
    BY <1>2, <2>1, <2>2, SetTopFacts DEF FsTypeOK, SetTop
  <2>4. FsTypeOK'
    BY <1>1, <1>2, <2>1, <2>3 DEF FsTypeOK
  <2>5. Chain'
    <3>1. \A i \in 1 .. k : stack'[i].dir = stack[i].dir
      <4> SUFFICES ASSUME NEW i \in 1 .. k PROVE stack'[i].dir = stack[i].dir
        OBVIOUS
      <4>1. i = k \/ i \in 1 .. k - 1
        BY <1>3
      <4> QED BY <2>2, <2>3, <4>1
    <3> QED BY <1>2, <1>3, <2>1, <2>3, <3>1, SameChain
  <2>6. Clean'
    <3> SUFFICES ASSUME Quiet PROVE Clean'
      BY <1>1 DEF Clean, Quiet
    <3>1. \A i \in 1 .. k - 1 : Fine(fs, stack[i], TRUE)
      BY <1>2 DEF Clean
    <3>2. Fresh(fs, stack[k])
      BY <1>1, <1>2 DEF Clean
    <3>3. Fine(fs, f, FALSE)
      BY <1>3, <1>6, <2>2, <3>2 DEF Fine, Fresh
    <3> QED BY <1>1, <2>1, <2>3, <3>1, <3>3 DEF Clean
  <2> QED BY <1>5, <2>4, <2>5, <2>6
<1>7. CASE ~(fs[d] = "dir" /\ d \notin stuck)
  <2>1. Returns(-1, "ENOENT")
    BY <1>4, <1>7 DEF Opendir
  <2>2. stack' \in Seq(Frames) /\ Chain'
        /\ ((stack' = <<>> /\ at' = "idle") \/ (stack' # <<>> /\ at' = "readdir"))
    BY <1>2, <2>1, ReturnFacts
  <2>3. FsTypeOK'
    BY <1>1, <1>2, <2>2 DEF FsTypeOK
  <2>4. ~Quiet
    BY <1>1, <1>2, <1>3, <1>7 DEF Clean, Fresh, Quiet
  <2>5. Clean'
    BY <1>1, <2>4 DEF Clean, Quiet
  <2> QED BY <1>5, <2>2, <2>3, <2>5
<1> QED BY <1>6, <1>7

LEMMA ReaddirInv == ASSUME FsAssumption, FsInv, Readdir PROVE FsInv'
<1> USE DEF FsInv
<1> DEFINE k == Len(stack)
<1>1. at = "readdir" /\ errno' = "0" /\ UNCHANGED <<fs, stuck, others, todo, was>>
  BY DEF Readdir, ReadErrno
<1>2. stack # <<>> /\ todo = <<>> /\ todo' = <<>>
  BY <1>1 DEF FsTypeOK
<1>3. /\ k \in Nat \ {0} /\ k \in 1 .. k /\ Top = stack[k] /\ stack[k] \in Frames
      /\ Entries(stack[k].dir) \subseteq Tree /\ Top.names \subseteq Entries(Top.dir)
  BY <1>2, FrameFacts
<1>4. Outside' /\ PrefixMade'
  BY <1>1, <1>2 DEF Outside, PrefixMade
<1>5. Quiet => Fine(fs, stack[k], FALSE) /\ \A i \in 1 .. k - 1 : Fine(fs, stack[i], TRUE)
  BY <1>1, <1>2 DEF Clean
<1>6. ASSUME NEW n \in Top.names \ Top.seen, n \in Top.must \/ fs[n] # "none",
             stack' = SetTop([Top EXCEPT !.seen = @ \cup {n}, !.cur = n]), at' = "lstat"
      PROVE  FsInv'
  <2>0. n \in Entries(stack[k].dir) /\ n \in Tree
    BY <1>3, <1>6
  <2> DEFINE f == [Top EXCEPT !.seen = @ \cup {n}, !.cur = n]
  <2>1. /\ f \in Frames /\ f.dir = stack[k].dir /\ f.ret = stack[k].ret
        /\ f.seen = stack[k].seen \cup {n} /\ f.must = stack[k].must /\ f.cur = n
    BY <1>3, <2>0 DEF Frames
  <2>2. stack' = SetTop(f)
    BY <1>6
  <2> HIDE DEF f
  <2>3. /\ stack' \in Seq(Frames) /\ stack' # <<>> /\ Len(stack') = k /\ stack'[k] = f
        /\ \A i \in 1 .. k - 1 : stack'[i] = stack[i]
    BY <1>2, <2>1, <2>2, SetTopFacts DEF FsTypeOK, SetTop
  <2>4. FsTypeOK'
    BY <1>1, <1>2, <1>6, <2>3 DEF FsTypeOK
  <2>5. Chain'
    <3>1. \A i \in 1 .. k : stack'[i].dir = stack[i].dir
      <4> SUFFICES ASSUME NEW i \in 1 .. k PROVE stack'[i].dir = stack[i].dir
        OBVIOUS
      <4>1. i = k \/ i \in 1 .. k - 1
        BY <1>3
      <4> QED BY <2>1, <2>3, <4>1
    <3>2. stack'[k].cur \in Entries(stack[k].dir)
      BY <2>0, <2>1, <2>3
    <3> QED BY <1>2, <1>3, <2>3, <3>1, <3>2, SameChain
  <2>6. Clean'
    <3> SUFFICES ASSUME Quiet PROVE Clean'
      BY <1>1 DEF Clean, Quiet
    <3>1. Fine(fs, f, TRUE)
      BY <1>3, <1>5, <1>6, <2>0, <2>1 DEF Fine
    <3> QED BY <1>1, <1>5, <1>6, <2>3, <3>1 DEF Clean
  <2> QED BY <1>4, <2>4, <2>5, <2>6
<1>7. ASSUME Top.must \subseteq Top.seen, at' = "rmdir", stack' = stack PROVE FsInv'
  <2>1. FsTypeOK'
    BY <1>1, <1>2, <1>7 DEF FsTypeOK
  <2>2. Chain'
    BY <1>2, <1>3, <1>7, SameChain DEF Chain, AtHand
  <2>3. Clean'
    BY <1>1, <1>3, <1>5, <1>7 DEF Clean, Quiet
  <2> QED BY <1>4, <2>1, <2>2, <2>3
<1> QED BY <1>6, <1>7 DEF Readdir

LEMMA LstatInv == ASSUME FsAssumption, FsInv, Lstat PROVE FsInv'
<1> USE DEF FsInv
<1> DEFINE k == Len(stack)
<1> DEFINE c == stack[k].cur
<1>1. at = "lstat" /\ UNCHANGED <<fs, stuck, others, todo, was>>
  BY DEF Lstat
<1>2. stack # <<>> /\ todo = <<>> /\ todo' = <<>>
  BY <1>1 DEF FsTypeOK
<1>3. /\ k \in Nat \ {0} /\ k \in 1 .. k /\ Top = stack[k] /\ stack[k] \in Frames
      /\ c \in Tree /\ stack[k].dir \in Tree \ {Link}
  BY <1>2, FrameFacts
<1>4. Outside' /\ PrefixMade'
  BY <1>1, <1>2 DEF Outside, PrefixMade
<1>5. Quiet => Fine(fs, stack[k], TRUE) /\ \A i \in 1 .. k - 1 : Fine(fs, stack[i], TRUE)
  BY <1>1, <1>2 DEF Clean
<1> DEFINE there == fs[stack[k].dir] = "dir" /\ fs[c] # "none"
<1>0. KindAtHand = IF there THEN {fs[c]} ELSE {}
  <2>1. There(stack[k].dir, c) = IF there THEN {c} ELSE {}
    BY <1>3, Found
  <2> QED BY <1>3, <2>1 DEF KindAtHand
<1>6. CASE ~there
  <2> DEFINE f == Failed(Top, "ENOENT")
  <2>1. stack' = SetTop(f) /\ at' = "readdir"
    BY <1>0, <1>6 DEF Lstat
  <2>2. f \in Frames /\ f.dir = stack[k].dir
    BY <1>3, FailedFacts
  <2> HIDE DEF f
  <2>3. /\ stack' \in Seq(Frames) /\ stack' # <<>> /\ Len(stack') = k /\ stack'[k] = f
        /\ \A i \in 1 .. k - 1 : stack'[i] = stack[i]
    BY <1>2, <2>1, <2>2, SetTopFacts DEF FsTypeOK, SetTop
  <2>4. FsTypeOK'
    BY <1>1, <1>2, <2>1, <2>3 DEF FsTypeOK
  <2>5. Chain'
    <3>1. \A i \in 1 .. k : stack'[i].dir = stack[i].dir
      <4> SUFFICES ASSUME NEW i \in 1 .. k PROVE stack'[i].dir = stack[i].dir
        OBVIOUS
      <4>1. i = k \/ i \in 1 .. k - 1
        BY <1>3
      <4> QED BY <2>2, <2>3, <4>1
    <3> QED BY <1>2, <1>3, <2>1, <2>3, <3>1, SameChain
  <2>6. ~Quiet
    BY <1>5, <1>6 DEF Fine
  <2>7. Clean'
    BY <1>1, <2>6 DEF Clean, Quiet
  <2> QED BY <1>4, <2>4, <2>5, <2>7
<1>7. CASE there /\ fs[c] = "dir"
  <2> DEFINE f == Frame(c)
  <2>1. stack' = Append(stack, f) /\ at' = "opendir"
    BY <1>0, <1>3, <1>7 DEF Lstat
  <2>2. c # Link
    BY <1>7 DEF Outside
  <2>3. f \in Frames /\ f.dir = c /\ f.ret = 0 /\ f.seen = {}
    BY <1>3, <2>2 DEF Frame, Frames
  <2> HIDE DEF f
  <2>4. /\ stack' \in Seq(Frames) /\ stack' # <<>> /\ Len(stack') = k + 1
        /\ stack'[k + 1] = f
        /\ \A i \in 1 .. k : stack'[i] = stack[i]
    BY <1>2, <2>1, <2>3 DEF FsTypeOK
  <2>5. FsTypeOK'
    BY <1>1, <1>2, <2>1, <2>4 DEF FsTypeOK
  <2>6. \A i \in 1 .. k : stack[i].cur \in Entries(stack[i].dir)
    BY <1>1 DEF Chain, AtHand
  <2>7. \A i \in 1 .. k : stack[i].dir # c
    <3> SUFFICES ASSUME NEW i \in 1 .. k, stack[i].dir = c PROVE FALSE
      OBVIOUS
    <3>1. c \in Entries(stack[k].dir) /\ stack[k].dir \in Tree /\ c # Root
      BY <1>2, <1>3, <2>6, FrameFacts
    <3>2. CASE i = 1
      BY <1>2, <3>1, <3>2 DEF Chain
    <3>3. CASE i > 1
      <4> DEFINE j == i - 1
      <4>1. j \in 1 .. k - 1 /\ j \in 1 .. k /\ j + 1 = i /\ j < k
        BY <1>3, <3>3
      <4> HIDE DEF j
      <4>2. stack[i].dir = stack[j].cur
        BY <4>1 DEF Chain
      <4>3. c \in Entries(stack[j].dir)
        BY <2>6, <4>1, <4>2
      <4>4. stack[k].dir = stack[j].dir
        BY <3>1, <4>3, EntriesFacts
      <4>5. k = j
        BY <1>3, <4>1, <4>4 DEF Chain
      <4> QED BY <1>3, <4>1, <4>5
    <3>4. i = 1 \/ i > 1
      BY <1>3
    <3> QED BY <3>2, <3>3, <3>4
  <2>8. Chain'
    <3>0. /\ 1 \in 1 .. k
          /\ \A i \in 1 .. k + 1 : i \in 1 .. k \/ i = k + 1
          /\ \A i \in 1 .. k : i = k \/ i \in 1 .. k - 1
          /\ \A i \in 1 .. k - 1 : i \in 1 .. k /\ i + 1 \in 1 .. k
          /\ (k + 1) - 1 = k /\ ~(k + 1 < k + 1)
      BY <1>3
    <3>1. stack'[1].dir = Root
      BY <1>2, <2>4, <3>0 DEF Chain
    <3>2. \A i \in 1 .. k : stack'[i].cur \in Entries(stack'[i].dir)
      BY <2>4, <2>6
    <3>3. ASSUME NEW i \in 1 .. k PROVE stack'[i + 1].dir = stack'[i].cur
      <4>1. CASE i = k
        BY <1>3, <2>3, <2>4, <4>1
      <4>2. CASE i \in 1 .. k - 1
        <5>1. i \in 1 .. k /\ i + 1 \in 1 .. k
          BY <3>0, <4>2
        <5>2. stack[i + 1].dir = stack[i].cur
          BY <4>2 DEF Chain
        <5> QED BY <2>4, <5>1, <5>2
      <4> QED BY <3>0, <4>1, <4>2
    <3>4. ASSUME NEW i \in 1 .. k + 1, NEW j \in 1 .. k + 1, stack'[i].dir = stack'[j].dir
          PROVE  i = j
      <4>1. CASE i \in 1 .. k /\ j \in 1 .. k
        BY <2>4, <3>4, <4>1 DEF Chain
      <4>2. CASE i = k + 1 /\ j \in 1 .. k
        BY <2>3, <2>4, <2>7, <3>4, <4>2
      <4>3. CASE j = k + 1 /\ i \in 1 .. k
        BY <2>3, <2>4, <2>7, <3>4, <4>3
      <4> QED BY <3>0, <4>1, <4>2, <4>3
    <3> HIDE DEF k
    <3> QED BY <2>1, <2>4, <3>0, <3>1, <3>2, <3>3, <3>4 DEF Chain, AtHand
  <2>9. Clean'
    <3> SUFFICES ASSUME Quiet PROVE Clean'
      BY <1>1 DEF Clean, Quiet
    <3>1. Fresh(fs, f)
      BY <1>7, <2>3 DEF Fresh
    <3>2. \A i \in 1 .. k : Fine(fs, stack[i], TRUE)
      <4> SUFFICES ASSUME NEW i \in 1 .. k PROVE Fine(fs, stack[i], TRUE)
        OBVIOUS
      <4>1. i = k \/ i \in 1 .. k - 1
        BY <1>3
      <4> QED BY <1>5, <4>1
    <3>3. (k + 1) - 1 = k
      BY <1>3
    <3> HIDE DEF k
    <3> QED BY <1>1, <2>1, <2>4, <3>1, <3>2, <3>3 DEF Clean
  <2> QED BY <1>4, <2>5, <2>8, <2>9
<1>8. CASE there /\ fs[c] # "dir"
  <2>1. stack' = stack /\ errno' = errno /\ at' = "unlink"
    BY <1>0, <1>8 DEF Lstat
  <2>2. FsTypeOK'
    BY <1>1, <1>2, <2>1 DEF FsTypeOK
  <2>3. Chain'
    <3>1. stack[k].cur \in Entries(stack[k].dir)
      BY <1>1, <1>3 DEF Chain, AtHand
    <3> QED BY <1>2, <1>3, <2>1, <3>1, SameChain
  <2>4. Clean'
    BY <1>1, <1>5, <1>8, <2>1 DEF Clean, Quiet
  <2> QED BY <1>4, <2>2, <2>3, <2>4
<1> QED BY <1>6, <1>7, <1>8

LEMMA UnlinkInv == ASSUME FsAssumption, FsInv, UnlinkEntry PROVE FsInv'
<1> USE DEF FsInv
<1> DEFINE k == Len(stack)
<1> DEFINE c == stack[k].cur
<1>1. at = "unlink" /\ at' = "readdir" /\ UNCHANGED <<stuck, others, todo, was>>
      /\ others' = others
  BY DEF UnlinkEntry
<1>2. stack # <<>> /\ todo = <<>> /\ todo' = <<>>
  BY <1>1 DEF FsTypeOK
<1>3. /\ k \in Nat \ {0} /\ k \in 1 .. k /\ Top = stack[k] /\ stack[k] \in Frames
      /\ c \in Tree /\ stack[k].dir \in Tree \ {Link}
  BY <1>2, FrameFacts
<1>4. PrefixMade'
  BY <1>2 DEF PrefixMade
<1>5. Quiet => /\ Fine(fs, stack[k], TRUE) /\ \A i \in 1 .. k - 1 : Fine(fs, stack[i], TRUE)
               /\ fs[c] # "dir"
  BY <1>1, <1>2 DEF Clean
<1> DEFINE gone == fs[stack[k].dir] = "dir" /\ fs[c] \in {"file", "link"} /\ c \notin stuck
<1> DEFINE taken == {m \in There(Top.dir, Top.cur) : fs[m] # "dir" /\ m \notin stuck}
<1>0. taken = IF gone THEN {c} ELSE {}
  <2>1. There(Top.dir, Top.cur)
          = IF fs[stack[k].dir] = "dir" /\ fs[c] # "none" THEN {c} ELSE {}
    BY <1>3, Found
  <2>2. fs[c] \in {"none", "dir", "file", "link"}
    BY <1>3 DEF FsTypeOK, Places
  <2> QED BY <2>1, <2>2
<1>00. IF taken # {}
       THEN /\ fs' = [n \in Places |-> IF n \in taken THEN "none" ELSE fs[n]]
            /\ stack' = stack
       ELSE stack' = SetTop(Failed(Top, "EPERM")) /\ fs' = fs
  BY DEF UnlinkEntry
<1> HIDE DEF taken
<1>6. CASE gone
  <2>1. stack' = stack /\ fs' = [fs EXCEPT ![c] = "none"]
    <3>1. taken = {c}
      BY <1>0, <1>6
    <3>2. stack' = stack /\ fs' = [n \in Places |-> IF n \in taken THEN "none" ELSE fs[n]]
      BY <1>00, <3>1
    <3> QED BY <3>1, <3>2 DEF FsTypeOK
  <2>2. /\ fs' \in [Places -> {"none", "dir", "file", "link"}] /\ Outside'
        /\ fs'[c] = "none" /\ \A n \in Places : n # c => fs'[n] = fs[n]
    BY <1>1, <1>3, <2>1, GoneOutside
  <2>3. FsTypeOK'
    BY <1>1, <1>2, <2>1, <2>2 DEF FsTypeOK
  <2>4. Chain'
    BY <1>1, <1>2, <1>3, <2>1, SameChain
  <2>5. Clean'
    <3> SUFFICES ASSUME Quiet PROVE Clean'
      BY <1>1 DEF Clean, Quiet
    <3>0. \A i \in 1 .. k : Entries(stack[i].dir) \cup {stack[i].dir} \subseteq Places
      BY <1>2, FrameFacts DEF Places
    <3>1. Fine(fs', stack[k], FALSE)
      <4>1. stack[k].dir # c
        BY <1>5, <1>6 DEF Fine
      <4> QED BY <1>3, <1>5, <2>2, <3>0, <4>1, FineDone
    <3>2. ASSUME NEW i \in 1 .. k - 1 PROVE Fine(fs', stack[i], TRUE)
      <4>1. i \in 1 .. k /\ i # k /\ i < k
        BY <1>3
      <4>2. stack[i].dir # stack[k].dir /\ stack[i].dir \in Tree /\ stack[k].dir \in Tree
        BY <1>2, <1>3, <4>1, FrameFacts DEF Chain
      <4>3. c \in Entries(stack[k].dir) /\ stack[i].cur \in Entries(stack[i].dir)
        BY <1>1, <1>3, <4>1 DEF Chain, AtHand
      <4>4. c \notin Entries(stack[i].dir)
        BY <4>2, <4>3, EntriesFacts
      <4>5. Fine(fs, stack[i], TRUE)
        BY <1>5
      <4>6. c # stack[i].dir
        BY <1>6, <4>5 DEF Fine
      <4>7. \A n : n \in Entries(stack[i].dir) \cup {stack[i].dir} => fs'[n] = fs[n]
        BY <2>2, <3>0, <4>1, <4>4, <4>6
      <4> QED BY <4>3, <4>4, <4>5, <4>6, <4>7, FineElsewhere
    <3> QED BY <1>1, <2>1, <3>1, <3>2 DEF Clean
  <2> QED BY <1>4, <2>2, <2>3, <2>4, <2>5
<1>7. CASE ~gone
  <2> DEFINE f == Failed(Top, "EPERM")
  <2>1. stack' = SetTop(f) /\ fs' = fs
    BY <1>0, <1>00, <1>7
  <2>2. f \in Frames /\ f.dir = stack[k].dir
    BY <1>3, FailedFacts
  <2> HIDE DEF f
  <2>3. /\ stack' \in Seq(Frames) /\ stack' # <<>> /\ Len(stack') = k /\ stack'[k] = f
        /\ \A i \in 1 .. k - 1 : stack'[i] = stack[i]
    BY <1>2, <2>1, <2>2, SetTopFacts DEF FsTypeOK, SetTop
  <2>4. FsTypeOK' /\ Outside'
    BY <1>1, <1>2, <2>1, <2>3 DEF FsTypeOK, Outside
  <2>5. Chain'
    <3>1. \A i \in 1 .. k : stack'[i].dir = stack[i].dir
      <4> SUFFICES ASSUME NEW i \in 1 .. k PROVE stack'[i].dir = stack[i].dir
        OBVIOUS
      <4>1. i = k \/ i \in 1 .. k - 1
        BY <1>3
      <4> QED BY <2>2, <2>3, <4>1
    <3> QED BY <1>1, <1>2, <1>3, <2>1, <2>3, <3>1, SameChain
  <2>6. ~Quiet
    <3>1. fs[c] \in {"none", "dir", "file", "link"}
      BY <1>3 DEF FsTypeOK, Places
    <3> QED BY <1>5, <1>7, <3>1 DEF Fine, Quiet
  <2>7. Clean'
    BY <1>1, <2>6 DEF Clean, Quiet
  <2> QED BY <1>4, <2>4, <2>5, <2>7
<1> QED BY <1>6, <1>7

(* Nobody else being there, rmdir(2) finds the directory and finds it empty. *)
LEMMA RmdirWorks ==
    ASSUME FsAssumption, FsInv, at = "rmdir", Quiet
    PROVE  LET f == stack[Len(stack)]
           IN  /\ fs[f.dir] = "dir" /\ f.dir \notin stuck /\ f.ret = 0 /\ errno = "0"
               /\ \A n \in Entries(f.dir) : fs[n] = "none"
<1> USE DEF FsInv
<1>1. stack # <<>>
  BY DEF FsTypeOK
<1> DEFINE f == stack[Len(stack)]
<1>2. Fine(fs, f, FALSE) /\ errno = "0" /\ f.must \subseteq f.seen
  BY <1>1 DEF Clean
<1> QED BY <1>2 DEF Fine, Quiet

LEMMA RmdirInv == ASSUME FsAssumption, FsInv, Rmdir PROVE FsInv'
<1> USE DEF FsInv
<1> DEFINE k == Len(stack)
<1> DEFINE d == stack[k].dir
<1> DEFINE empty == fs[d] = "dir" /\ d \notin stuck /\ \A n \in Entries(d) : fs[n] = "none"
<1>1. at = "rmdir" /\ UNCHANGED <<stuck, others, todo, was>>
  BY DEF Rmdir
<1>2. stack # <<>> /\ todo = <<>> /\ todo' = <<>>
  BY <1>1 DEF FsTypeOK
<1>3. /\ k \in Nat \ {0} /\ k \in 1 .. k /\ Top = stack[k] /\ stack[k] \in Frames
      /\ d \in Tree \ {Link}
  BY <1>2, FrameFacts
<1>4. PrefixMade'
  BY <1>2 DEF PrefixMade
<1>5. CASE empty
  <2>1. fs' = [fs EXCEPT ![d] = "none"] /\ Returns(Top.ret, errno)
    BY <1>3, <1>5 DEF Rmdir
  <2>2. /\ fs' \in [Places -> {"none", "dir", "file", "link"}] /\ Outside'
        /\ fs'[d] = "none" /\ \A n \in Places : n # d => fs'[n] = fs[n]
    BY <1>1, <1>3, <2>1, GoneOutside
  <2>3. stack' \in Seq(Frames) /\ Chain'
        /\ ((stack' = <<>> /\ at' = "idle") \/ (stack' # <<>> /\ at' = "readdir"))
    BY <1>2, <2>1, ReturnFacts
  <2>4. FsTypeOK'
    BY <1>1, <1>2, <2>2, <2>3 DEF FsTypeOK
  <2>5. Clean'
    <3> SUFFICES ASSUME Quiet, stack' # <<>> PROVE Clean'
      BY <1>1 DEF Clean, Quiet
    <3>1. /\ k > 1 /\ at' = "readdir" /\ Len(stack') = k - 1
          /\ stack'[k - 1] = Failed(stack[k - 1], errno)
          /\ \A i \in 1 .. k - 2 : stack'[i] = stack[i]
      BY <1>2, <2>1, ReturnFacts
    <3> DEFINE j == k - 1
    <3>2. /\ j \in 1 .. k /\ j \in 1 .. k - 1 /\ j + 1 = k /\ j # k /\ j < k
          /\ j - 1 = k - 2 /\ Len(stack') = j
      BY <1>3, <3>1
    <3>3. stack[j] \in Frames /\ stack[j].dir \in Tree
      BY <1>2, <3>2, FrameFacts
    <3>4. stack'[j] = stack[j]
      BY <1>1, <3>1, <3>3, RmdirWorks, FailedFacts
    <3> HIDE DEF j
    <3>5. stack[j].cur = d /\ d \in Entries(stack[j].dir)
      BY <3>2 DEF Chain, AtHand
    <3>6. \A i \in 1 .. k - 1 : Fine(fs, stack[i], TRUE)
      BY <1>2 DEF Clean
    <3>7. \A i \in 1 .. k : Entries(stack[i].dir) \cup {stack[i].dir} \subseteq Places
      BY <1>2, FrameFacts DEF Places
    <3>8. Fine(fs', stack[j], FALSE)
      <4>1. stack[j].dir # d
        BY <1>3, <3>2 DEF Chain
      <4> QED BY <2>2, <3>2, <3>5, <3>6, <3>7, <4>1, FineDone
    <3>9. ASSUME NEW i \in 1 .. j - 1 PROVE Fine(fs', stack[i], TRUE)
      <4>1. i \in 1 .. k /\ i \in 1 .. k - 1 /\ i # k /\ i # j /\ i < k
        BY <1>3, <3>2
      <4>2. stack[i].dir # d /\ stack[i].dir # stack[j].dir /\ stack[i].dir \in Tree
        BY <1>2, <1>3, <3>2, <4>1, FrameFacts DEF Chain
      <4>3. d \notin Entries(stack[i].dir)
        BY <3>3, <3>5, <4>2, EntriesFacts
      <4>4. stack[i].cur \in Entries(stack[i].dir)
        BY <4>1 DEF Chain, AtHand
      <4>5. \A n : n \in Entries(stack[i].dir) \cup {stack[i].dir} => fs'[n] = fs[n]
        BY <2>2, <3>7, <4>1, <4>2, <4>3
      <4>6. Fine(fs, stack[i], TRUE)
        BY <3>6, <4>1
      <4> QED BY <4>2, <4>3, <4>4, <4>5, <4>6, FineElsewhere
    <3>10. \A i \in 1 .. j - 1 : Fine(fs', stack'[i], TRUE)
      BY <3>1, <3>2, <3>9
    <3> HIDE DEF k
    <3> QED BY <3>1, <3>2, <3>4, <3>8, <3>10 DEF Clean
  <2> QED BY <1>4, <2>2, <2>3, <2>4, <2>5
<1>6. CASE ~empty
  <2>1. fs' = fs /\ Returns(Failed(Top, "ENOTEMPTY").ret, "ENOTEMPTY")
    BY <1>3, <1>6 DEF Rmdir
  <2>2. stack' \in Seq(Frames) /\ Chain'
        /\ ((stack' = <<>> /\ at' = "idle") \/ (stack' # <<>> /\ at' = "readdir"))
    BY <1>2, <2>1, ReturnFacts
  <2>3. FsTypeOK' /\ Outside'
    BY <1>1, <1>2, <2>1, <2>2 DEF FsTypeOK, Outside
  <2>4. ~Quiet
    BY <1>1, <1>6, RmdirWorks
  <2>5. Clean'
    BY <1>1, <2>4 DEF Clean, Quiet
  <2> QED BY <1>4, <2>2, <2>3, <2>5
<1> QED BY <1>5, <1>6

-----------------------------------------------------------------------------
(* The steps of HX_mkdir.                                                  *)
LEMMA MkdirCallInv ==
    ASSUME FsAssumption, FsInv, NEW path \in Paths, HX_mkdir(path)
    PROVE  FsInv'
<1> USE DEF FsInv
<1>1. /\ at = "idle" /\ at' = "mkdir" /\ todo' = path
      /\ UNCHANGED <<fs, stuck, others, stack, errno, ret>>
  BY DEF HX_mkdir
<1>2. stack = <<>>
  BY <1>1 DEF FsTypeOK
<1>3. /\ path \in Seq(Tree \ {Link}) /\ path # <<>> /\ path[1] = Root
      /\ \A i \in 2 .. Len(path) : path[i] # Root /\ ParentOf[path[i]] = path[i - 1]
  <2>1. PICK m \in 0 .. MaxPath : path \in [1 .. m -> Tree \ {Link}]
    BY DEF Paths, SeqOf
  <2>2. m \in Nat
    BY DEF FsAssumption
  <2>3. path \in Seq(Tree \ {Link})
    BY <2>1, <2>2
  <2> QED BY <2>3 DEF Paths
<1>4. FsTypeOK' /\ Outside'
  BY <1>1, <1>2, <1>3 DEF FsTypeOK, Outside
<1>5. Chain' /\ Clean'
  BY <1>1, <1>2 DEF Chain, Clean
<1>6. PrefixMade'
  BY <1>1, <1>3 DEF PrefixMade
<1> QED BY <1>4, <1>5, <1>6

(* The first prefix is there, or a link leads to a directory: on to the    *)
(* next one.                                                               *)
LEMMA NextPrefixInv ==
    ASSUME FsAssumption, FsInv, at \in {"mkdir", "stat"}, NextPrefix,
           fs' \in [Places -> {"none", "dir", "file", "link"}], Outside',
           UNCHANGED <<stuck, others, stack>>,
           others # "anything" => fs'[todo[1]] = "dir" \/ Obstacle'
    PROVE  FsInv'
<1> USE DEF FsInv
<1>1. stack = <<>> /\ stack' = <<>> /\ todo # <<>> /\ todo \in Seq(Tree \ {Link})
  BY DEF FsTypeOK
<1>2. CASE Len(todo) = 1
  <2>1. at' = "idle" /\ todo' = <<>>
    BY <1>2 DEF NextPrefix, MkdirReturns
  <2> QED BY <1>1, <2>1 DEF FsTypeOK, Chain, Clean, PrefixMade
<1>3. CASE Len(todo) # 1
  <2>1. at' = "mkdir" /\ todo' = Tail(todo)
    BY <1>3 DEF NextPrefix
  <2>2. Len(todo) \in Nat /\ Len(todo) > 1
    <3> DEFINE l == Len(todo)
    <3>1. l \in Nat /\ l # 0
      BY <1>1
    <3>2. l # 1
      BY <1>3
    <3> HIDE DEF l
    <3>3. l > 1
      BY <3>1, <3>2
    <3> QED BY <3>1, <3>3 DEF l
  <2>3. /\ todo' \in Seq(Tree \ {Link}) /\ Len(todo') = Len(todo) - 1
        /\ \A i \in 1 .. Len(todo') : todo'[i] = todo[i + 1]
    BY <1>1, <2>1
  <2>4. todo' # <<>>
    BY <2>2, <2>3
  <2>5. /\ \A i \in 2 .. Len(todo') : todo'[i] # Root /\ ParentOf[todo'[i]] = todo'[i - 1]
        /\ ParentOf[todo'[1]] = todo[1]
    <3>1. ASSUME NEW i \in 2 .. Len(todo')
          PROVE  todo'[i] # Root /\ ParentOf[todo'[i]] = todo'[i - 1]
      <4>1. i + 1 \in 2 .. Len(todo) /\ i \in 1 .. Len(todo') /\ i - 1 \in 1 .. Len(todo')
            /\ (i + 1) - 1 = i /\ (i - 1) + 1 = i
        BY <2>2, <2>3
      <4>2. todo[i + 1] # Root /\ ParentOf[todo[i + 1]] = todo[i]
        BY <4>1 DEF PrefixMade
      <4> QED BY <2>3, <4>1, <4>2
    <3>2. 1 + 1 \in 2 .. Len(todo) /\ 1 \in 1 .. Len(todo') /\ (1 + 1) - 1 = 1
      BY <2>2, <2>3
    <3>3. todo'[1] = todo[1 + 1] /\ ParentOf[todo[1 + 1]] = todo[1]
      BY <2>3, <3>2 DEF PrefixMade
    <3> QED BY <3>1, <3>3
  <2>6. PrefixMade'
    BY <2>1, <2>5 DEF PrefixMade
  <2> QED BY <1>1, <2>1, <2>3, <2>4, <2>6 DEF FsTypeOK, Chain, Clean
<1> QED BY <1>2, <1>3

(* HX_mkdir returns: nothing is left to do. *)
LEMMA MakeEndsInv ==
    ASSUME FsInv, at \in {"mkdir", "stat"}, at' = "idle", todo' = <<>>,
           UNCHANGED <<fs, stuck, others, stack>>
    PROVE  FsInv'
<1>1. stack = <<>>
  BY DEF FsInv, FsTypeOK
<1>2. FsTypeOK' /\ Outside'
  BY <1>1 DEF FsInv, FsTypeOK, Outside
<1>3. Chain' /\ Clean' /\ PrefixMade'
  BY <1>1 DEF Chain, Clean, PrefixMade
<1> QED BY <1>2, <1>3 DEF FsInv

LEMMA MkdirInv == ASSUME FsAssumption, FsInv, Mkdir PROVE FsInv'
<1> USE DEF FsInv
<1> DEFINE n == Head(todo)
<1>1. at = "mkdir" /\ UNCHANGED <<stuck, others, stack, was>>
  BY DEF Mkdir
<1>2. stack = <<>> /\ todo # <<>> /\ n = todo[1] /\ n \in Tree \ {Link}
  BY <1>1 DEF FsTypeOK
<1>3. ASSUME fs[n] = "none", fs' = [fs EXCEPT ![n] = "dir"], NextPrefix PROVE FsInv'
  <2>1. /\ fs' \in [Places -> {"none", "dir", "file", "link"}] /\ Outside'
        /\ fs'[n] = "dir"
    BY <1>1, <1>2, <1>3 DEF FsAssumption, FsTypeOK, Outside, Places
  <2> QED BY <1>1, <1>2, <1>3, <2>1, NextPrefixInv
<1>4. ASSUME n # Root => fs[ParentOf[n]] = "dir", fs[n] # "none", at' = "stat",
             UNCHANGED <<fs, todo>>
      PROVE  FsInv'
  <2>1. FsTypeOK' /\ Outside'
    BY <1>1, <1>2, <1>4 DEF FsTypeOK, Outside
  <2>2. Chain' /\ Clean'
    BY <1>1, <1>2 DEF Chain, Clean
  <2>3. PrefixMade'
    BY <1>1, <1>2, <1>4 DEF PrefixMade, Obstacle
  <2> QED BY <2>1, <2>2, <2>3
<1>5. ASSUME MkdirReturns(-1), UNCHANGED fs PROVE FsInv'
  BY <1>1, <1>5, MakeEndsInv DEF MkdirReturns
<1> QED BY <1>3, <1>4, <1>5 DEF Mkdir

LEMMA MkdirStatInv == ASSUME FsAssumption, FsInv, MkdirStat PROVE FsInv'
<1> USE DEF FsInv
<1> DEFINE n == Head(todo)
<1>1. at = "stat" /\ UNCHANGED <<fs, stuck, others, stack, was>>
  BY DEF MkdirStat
<1>2. stack = <<>> /\ todo # <<>> /\ n = todo[1] /\ n \in Tree \ {Link}
  BY <1>1 DEF FsTypeOK
<1>3. CASE fs[Followed(n)] = "dir"
  <2>1. NextPrefix /\ Followed(n) = n
    BY <1>2, <1>3, NotFollowed DEF MkdirStat
  <2>2. Outside' /\ fs' \in [Places -> {"none", "dir", "file", "link"}]
    BY <1>1 DEF Outside, FsTypeOK
  <2>3. fs'[todo[1]] = "dir"
    BY <1>1, <1>2, <1>3, <2>1
  <2> QED BY <1>1, <2>1, <2>2, <2>3, NextPrefixInv
<1>4. CASE fs[Followed(n)] # "dir"
  BY <1>1, <1>4, MakeEndsInv DEF MkdirStat, MkdirReturns
<1> QED BY <1>3, <1>4

-----------------------------------------------------------------------------
(* The steps of others.                                                    *)
LEMMA MakeInv ==
    ASSUME FsAssumption, FsInv, NEW n \in Tree, NEW kind \in {"dir", "file", "link"},
           Make(n, kind)
    PROVE  FsInv'
<1> USE DEF FsInv
<1>1. /\ others # "nothing" /\ fs[n] = "none" /\ (kind = "link" <=> n = Link)
      /\ fs' = [fs EXCEPT ![n] = kind]
      /\ UNCHANGED <<stuck, others, stack, todo, at, errno, ret, was>>
  BY DEF Make, Outside
<1>2. /\ fs' \in [Places -> {"none", "dir", "file", "link"}] /\ Outside'
      /\ fs'[n] = kind /\ \A m \in Places : m # n => fs'[m] = fs[m]
  BY <1>1 DEF FsAssumption, FsTypeOK, Outside, Places
<1>3. FsTypeOK' /\ Chain'
  BY <1>1, <1>2 DEF FsTypeOK, Chain, AtHand
<1>4. Clean'
  BY <1>1 DEF Clean, Quiet
<1>5. PrefixMade'
  <2>1. \A m \in Places : fs[m] # "none" => fs'[m] = fs[m]
    BY <1>1, <1>2
  <2>2. Obstacle => Obstacle'
    BY <2>1 DEF Obstacle, Places
  <2>3. todo # <<>> => todo[1] \in Tree
    BY DEF FsTypeOK
  <2>4. todo # <<>> /\ todo[1] # Root => ParentOf[todo[1]] \in Places
    BY <2>3 DEF FsAssumption, Places
  <2>5. todo # <<>> => todo[1] \in Places
    BY <2>3 DEF Places
  <2>6. \A i \in 2 .. Len(todo') : todo'[i] # Root /\ ParentOf[todo'[i]] = todo'[i - 1]
    BY <1>1 DEF PrefixMade
  <2>7. ASSUME todo' # <<>>, others' # "anything"
        PROVE  /\ todo'[1] # Root => fs'[ParentOf[todo'[1]]] = "dir" \/ Obstacle'
               /\ at' = "stat" => fs'[todo'[1]] # "none"
    <3>1. todo # <<>> /\ others # "anything" /\ todo' = todo /\ at' = at
      BY <1>1, <2>7
    <3>2. todo[1] # Root => fs'[ParentOf[todo[1]]] = "dir" \/ Obstacle'
      BY <2>1, <2>2, <2>4, <3>1 DEF PrefixMade
    <3>3. at = "stat" => fs'[todo[1]] # "none"
      BY <2>1, <2>5, <3>1 DEF PrefixMade
    <3> QED BY <3>1, <3>2, <3>3
  <2> QED BY <2>6, <2>7 DEF PrefixMade
<1> QED BY <1>2, <1>3, <1>4, <1>5

LEMMA TakeInv == ASSUME FsAssumption, FsInv, NEW n \in Tree, Take(n) PROVE FsInv'
<1> USE DEF FsInv
<1>1. /\ others = "anything" /\ fs' = [fs EXCEPT ![n] = "none"]
      /\ UNCHANGED <<stuck, others, stack, todo, at, errno, ret, was>>
  BY DEF Take, Outside
<1>2. fs' \in [Places -> {"none", "dir", "file", "link"}] /\ Outside'
  BY <1>1, GoneOutside
<1>3. FsTypeOK' /\ Chain'
  BY <1>1, <1>2 DEF FsTypeOK, Chain, AtHand
<1>4. Clean' /\ PrefixMade'
  BY <1>1 DEF Clean, Quiet, PrefixMade
<1> QED BY <1>2, <1>3, <1>4

-----------------------------------------------------------------------------
LEMMA FsInitInv == ASSUME FsAssumption, FsInit, others # "links" PROVE FsInv
<1>1. FsTypeOK
  BY DEF FsInit, FsTypeOK
<1>2. Outside
  BY DEF FsInit, FsAssumption, Outside
<1>3. Chain /\ Clean /\ PrefixMade
  BY NoCall, NoMake DEF FsInit
<1> QED BY <1>1, <1>2, <1>3 DEF FsInv

LEMMA FsNextInv == ASSUME FsAssumption, FsInv, [FsNext]_fsvars PROVE FsInv'
<1>1. CASE UNCHANGED fsvars
  BY SMTT(30), <1>1 DEF fsvars, FsInv, FsTypeOK, Outside, Chain, AtHand, Clean, Quiet, Fine, Fresh,
              PrefixMade, Obstacle
<1>2. CASE FsNext
  BY <1>2, RrmdirInv, OpendirInv, ReaddirInv, LstatInv, UnlinkInv, RmdirInv, MkdirCallInv,
     MkdirInv, MkdirStatInv, MakeInv, TakeInv DEF FsNext, Steps
<1> QED BY <1>1, <1>2

-----------------------------------------------------------------------------
(* Where others put links in the place of directories the claim is only    *)
(* that 0 means that the directory has gone, and it needs little: that the *)
(* outermost call is for Root, and that a value is 0 or -1.                *)
AllNames == Tree \cup {Kept}

LooseFrames ==
    [dir : AllNames, names : SUBSET AllNames, must : SUBSET AllNames, seen : SUBSET AllNames,
     cur : AllNames, ret : {0, -1}]

(* The directory of the outermost call. *)
Outermost == stack # <<>> => stack[1].dir = Root

Removing == at \in {"opendir", "readdir", "lstat", "unlink", "rmdir"}

LinksInv ==
    /\ others = "links"
    /\ fs \in [Places -> {"none", "dir", "file", "link"}]
    /\ stack \in Seq(LooseFrames)
    /\ Outermost
    /\ todo = <<>> /\ at \notin {"mkdir", "stat"}
    /\ stack # <<>> <=> Removing

(* The steps leave others as they are, and either leave fs or change it to *)
(* something that is a file system again.                                  *)
LEMMA LinksFs ==
    ASSUME FsAssumption, LinksInv, [FsNext]_fsvars
    PROVE  others' = "links" /\ fs' \in [Places -> {"none", "dir", "file", "link"}]
<1> DEFINE Things == {"none", "dir", "file", "link"}
<1>0. others = "links" /\ fs \in [Places -> Things] /\ at \notin {"mkdir", "stat"}
  BY DEF LinksInv
<1>1. \A n, kind : kind \in Things => [fs EXCEPT ![n] = kind] \in [Places -> Things]
  BY <1>0
<1>2. CASE UNCHANGED fsvars
  BY <1>0, <1>2 DEF fsvars
<1>3. ASSUME NEW n \in Tree, Take(n) PROVE others' = others /\ fs' \in [Places -> Things]
  BY <1>1, <1>3 DEF Take
<1>4. ASSUME NEW n \in Tree, NEW kind \in {"dir", "file", "link"}, Make(n, kind)
      PROVE  others' = others /\ fs' \in [Places -> Things]
  BY <1>1, <1>4 DEF Make
<1>5. ASSUME NEW path, HX_mkdir(path) PROVE FALSE
  BY <1>0, <1>5 DEF HX_mkdir
<1>6. ~Mkdir /\ ~MkdirStat
  BY <1>0 DEF Mkdir, MkdirStat
<1>7. HX_rrmdir \/ Opendir \/ Readdir \/ Lstat => others' = others /\ fs' = fs
  BY DEF HX_rrmdir, Opendir, Readdir, Lstat
<1>8. ASSUME UnlinkEntry PROVE others' = others /\ fs' \in [Places -> Things]
  <2> DEFINE taken == {m \in There(Top.dir, Top.cur) : fs[m] # "dir" /\ m \notin stuck}
  <2>1. others' = others
        /\ (fs' = [n \in Places |-> IF n \in taken THEN "none" ELSE fs[n]] \/ fs' = fs)
    BY <1>8 DEF UnlinkEntry
  <2> HIDE DEF taken
  <2> QED BY <1>0, <2>1
<1>9. ASSUME Rmdir PROVE others' = others /\ fs' \in [Places -> Things]
  <2>1. others' = others /\ (fs' = [fs EXCEPT ![Top.dir] = "none"] \/ fs' = fs)
    BY <1>9 DEF Rmdir
  <2> QED BY <1>0, <1>1, <2>1
<1> QED BY <1>0, <1>2, <1>3, <1>4, <1>5, <1>6, <1>7, <1>8, <1>9 DEF FsNext, Steps

(* The first call is the innermost or below it. *)
LEMMA FirstOrTop ==
    ASSUME NEW k \in Nat \ {0}
    PROVE  /\ 1 = k \/ 1 \in 1 .. k - 1
           /\ k # 1 => k - 1 \in Nat \ {0} /\ 1 \in 1 .. k - 1
OBVIOUS

(* Another top frame for the same path. *)
LEMMA LinksTop ==
    ASSUME LinksInv, stack # <<>>, NEW f \in LooseFrames, f.dir = Top.dir,
           stack' = SetTop(f)
    PROVE  stack' \in Seq(LooseFrames) /\ stack' # <<>> /\ Outermost'
<1> DEFINE k == Len(stack)
<1>1. stack \in Seq(LooseFrames) /\ k \in Nat \ {0} /\ Top = stack[k]
  BY FrontFacts DEF LinksInv, Top
<1>2. /\ stack' \in Seq(LooseFrames) /\ stack' # <<>> /\ stack'[k] = f
      /\ \A i \in 1 .. k - 1 : stack'[i] = stack[i]
  BY <1>1, SetTopFacts DEF SetTop
<1>3. stack[1].dir = Root
  BY DEF LinksInv, Outermost
<1>4. 1 = k \/ 1 \in 1 .. k - 1
  BY <1>1, FirstOrTop
<1> HIDE DEF k
<1> QED BY <1>1, <1>2, <1>3, <1>4 DEF Outermost

(* A frame less. *)
LEMMA LinksReturn ==
    ASSUME LinksInv, stack # <<>>, NEW v, NEW e, Returns(v, e)
    PROVE  /\ stack' \in Seq(LooseFrames) /\ Outermost'
           /\ stack' = <<>> => at' = "idle" /\ ret' = v /\ Len(stack) = 1
           /\ stack' # <<>> => at' = "readdir"
<1> DEFINE k == Len(stack)
<1>1. stack \in Seq(LooseFrames) /\ k \in Nat \ {0}
  BY FrontFacts DEF LinksInv
<1>2. CASE k = 1
  BY <1>2 DEF Returns, Outermost
<1>3. CASE k # 1
  <2> DEFINE rest == Front(stack)
  <2>1. rest \in Seq(LooseFrames) /\ Len(rest) = k - 1
        /\ \A i \in 1 .. k - 1 : rest[i] = stack[i]
    BY <1>1, FrontFacts
  <2>2. at' = "readdir" /\ stack' = Front(rest) \o <<Failed(Last(rest), e)>>
    BY <1>3 DEF Returns
  <2> HIDE DEF rest
  <2>3. k - 1 \in Nat \ {0} /\ 1 \in 1 .. k - 1
    BY <1>1, <1>3, FirstOrTop
  <2>4. rest # <<>>
    BY <2>1, <2>3
  <2>5. Last(rest) = rest[k - 1] /\ Last(rest) \in LooseFrames
    BY <2>1, <2>4, FrontFacts
  <2> DEFINE f == Failed(Last(rest), e)
  <2>6. f \in LooseFrames /\ f.dir = rest[k - 1].dir
    BY <2>5 DEF Failed, LooseFrames
  <2> HIDE DEF f
  <2>7. /\ stack' \in Seq(LooseFrames) /\ stack' # <<>> /\ stack'[k - 1] = f
        /\ \A i \in 1 .. (k - 1) - 1 : stack'[i] = rest[i]
    <3> HIDE DEF k
    <3>1. stack' = Front(rest) \o <<f>>
      BY <2>2 DEF f
    <3>2. rest \in Seq(LooseFrames) /\ rest # <<>> /\ f \in LooseFrames
      BY <2>1, <2>4, <2>6
    <3>3. LET t == Front(rest) \o <<f>>
          IN  /\ t \in Seq(LooseFrames) /\ t # <<>> /\ t[Len(rest)] = f
              /\ \A i \in 1 .. Len(rest) - 1 : t[i] = rest[i]
      BY <3>2, SetTopFacts
    <3>4. Len(rest) = k - 1
      BY <2>1
    <3> QED BY <3>1, <3>3, <3>4
  <2>8. rest[1] = stack[1] /\ stack[1].dir = Root
    BY <2>1, <2>3 DEF LinksInv, Outermost
  <2>9. 1 = k - 1 \/ 1 \in 1 .. (k - 1) - 1
    BY <2>3, FirstOrTop
  <2> HIDE DEF k
  <2>10. stack'[1].dir = Root
    BY <2>6, <2>7, <2>8, <2>9
  <2> QED BY <2>2, <2>7, <2>10 DEF Outermost
<1> QED BY <1>2, <1>3

(* The stack keeps its form in every step. *)
LEMMA LinksStack ==
    ASSUME FsAssumption, LinksInv, [FsNext]_fsvars
    PROVE  /\ stack' \in Seq(LooseFrames) /\ Outermost' /\ (stack' # <<>> <=> Removing')
           /\ todo' = <<>> /\ at' \notin {"mkdir", "stat"}
<1> DEFINE Goal == /\ stack' \in Seq(LooseFrames) /\ Outermost' /\ (stack' # <<>> <=> Removing')
                   /\ todo' = <<>> /\ at' \notin {"mkdir", "stat"}
<1>0. /\ others = "links" /\ stack \in Seq(LooseFrames) /\ Outermost
      /\ todo = <<>> /\ at \notin {"mkdir", "stat"} /\ (stack # <<>> <=> Removing)
  BY DEF LinksInv
<1>1. CASE UNCHANGED <<stack, todo, at>>
  BY <1>0, <1>1 DEF Outermost, Removing
<1>2. ASSUME NEW n, NEW kind, Take(n) \/ Make(n, kind) PROVE UNCHANGED <<stack, todo, at>>
  BY <1>2 DEF Take, Make
<1>3. ASSUME NEW path, HX_mkdir(path) PROVE FALSE
  BY <1>0, <1>3 DEF HX_mkdir
<1>4. ~Mkdir /\ ~MkdirStat
  BY <1>0 DEF Mkdir, MkdirStat
<1>5. CASE HX_rrmdir
  <2>1. Frame(Root) \in LooseFrames /\ Frame(Root).dir = Root
    BY DEF FsAssumption, Frame, LooseFrames, AllNames
  <2>2. stack' = <<Frame(Root)>> /\ at' = "opendir" /\ todo' = todo
    BY <1>5 DEF HX_rrmdir
  <2>3. stack' \in Seq(LooseFrames) /\ stack' # <<>> /\ stack'[1] = Frame(Root)
    BY <2>1, <2>2
  <2> QED BY <1>0, <2>1, <2>2, <2>3 DEF Outermost, Removing
<1>6. ASSUME Removing
      PROVE  /\ stack # <<>> /\ Top \in LooseFrames
             /\ Top.dir \in AllNames /\ Top.cur \in AllNames
  <2>1. stack # <<>>
    BY <1>0, <1>6
  <2>2. Top \in LooseFrames
    BY <1>0, <2>1, FrontFacts DEF Top
  <2> QED BY <2>1, <2>2 DEF LooseFrames
<1>7. ASSUME Removing, NEW v, NEW e, Returns(v, e), todo' = todo PROVE Goal
  BY <1>0, <1>6, <1>7, LinksReturn DEF Removing
<1>8. ASSUME Removing, NEW f \in LooseFrames, f.dir = Top.dir, stack' = SetTop(f),
             at' \in {"readdir", "lstat"}, todo' = todo
      PROVE  Goal
  BY <1>0, <1>6, <1>8, LinksTop DEF Removing
<1>9. CASE Opendir
  <2>1. Removing /\ todo' = todo
    BY <1>9 DEF Opendir, Removing
  <2> DEFINE d == Top.dir
  <2> DEFINE f == [Top EXCEPT !.names = NamesIn(d),
                              !.must = {n \in NamesIn(d) : There(d, n) # {}}]
  <2>2. (stack' = SetTop(f) /\ at' = "readdir") \/ Returns(-1, "ENOENT")
    BY <1>9 DEF Opendir
  <2>3. NamesIn(d) \subseteq AllNames
    BY DEF NamesIn, Entries, AllNames
  <2>4. f \in LooseFrames /\ f.dir = d
    BY <1>6, <2>1, <2>3 DEF LooseFrames
  <2> HIDE DEF f
  <2> QED BY <1>7, <1>8, <2>1, <2>2, <2>4
<1>10. CASE Readdir
  <2>1. Removing /\ todo' = todo
    BY <1>10 DEF Readdir, Removing
  <2>2. CASE at' = "rmdir" /\ UNCHANGED stack
    BY <1>0, <2>1, <2>2 DEF Outermost, Removing
  <2>3. ASSUME NEW n \in Top.names \ Top.seen,
               stack' = SetTop([Top EXCEPT !.seen = @ \cup {n}, !.cur = n]), at' = "lstat"
        PROVE  Goal
    <3> DEFINE f == [Top EXCEPT !.seen = @ \cup {n}, !.cur = n]
    <3>1. f \in LooseFrames /\ f.dir = Top.dir
      BY <1>6, <2>1, <2>3 DEF LooseFrames
    <3>2. stack' = SetTop(f)
      BY <2>3
    <3> HIDE DEF f
    <3> QED BY <1>8, <2>1, <2>3, <3>1, <3>2
  <2> QED BY <1>10, <2>2, <2>3 DEF Readdir
<1>11. ASSUME Removing, NEW e, stack' = SetTop(Failed(Top, e)), at' = "readdir", todo' = todo
       PROVE  Goal
  <2> DEFINE f == Failed(Top, e)
  <2>1. f \in LooseFrames /\ f.dir = Top.dir
    BY <1>6, <1>11 DEF Failed, LooseFrames
  <2>2. stack' = SetTop(f)
    BY <1>11
  <2> HIDE DEF f
  <2> QED BY <1>8, <1>11, <2>1, <2>2
<1>12. CASE Lstat
  <2>1. Removing /\ todo' = todo
    BY <1>12 DEF Lstat, Removing
  <2>2. CASE stack' = Append(stack, Frame(Top.cur)) /\ at' = "opendir"
    <3> DEFINE f == Frame(Top.cur)
    <3>1. f \in LooseFrames
      BY <1>6, <2>1 DEF Frame, LooseFrames
    <3>2. stack' = Append(stack, f) /\ Len(stack) \in Nat \ {0}
      BY <1>0, <1>6, <2>1, <2>2
    <3> HIDE DEF f
    <3>3. stack' \in Seq(LooseFrames) /\ stack' # <<>> /\ stack'[1] = stack[1]
      BY <1>0, <3>1, <3>2
    <3> QED BY <1>0, <1>6, <2>1, <2>2, <3>3 DEF Outermost, Removing
  <2>3. CASE UNCHANGED stack /\ at' = "unlink"
    BY <1>0, <2>1, <2>3 DEF Outermost, Removing
  <2>4. CASE stack' = SetTop(Failed(Top, "ENOENT")) /\ at' = "readdir"
    BY <1>11, <2>1, <2>4
  <2> QED BY <1>12, <2>2, <2>3, <2>4 DEF Lstat
<1>13. CASE UnlinkEntry
  <2>1. Removing /\ todo' = todo /\ at' = "readdir"
    BY <1>13 DEF UnlinkEntry, Removing
  <2>2. stack' = stack \/ stack' = SetTop(Failed(Top, "EPERM"))
    BY <1>13 DEF UnlinkEntry
  <2>3. CASE stack' = stack
    BY <1>0, <2>1, <2>3 DEF Outermost, Removing
  <2> QED BY <1>11, <2>1, <2>2, <2>3
<1>14. CASE Rmdir
  <2>1. Removing /\ todo' = todo
    BY <1>14 DEF Rmdir, Removing
  <2>2. \E v, e : Returns(v, e)
    BY <1>14 DEF Rmdir
  <2> QED BY <1>7, <2>1, <2>2
<1>15. CASE UNCHANGED fsvars
  BY <1>1, <1>15 DEF fsvars
<1> QED BY <1>1, <1>2, <1>3, <1>4, <1>5, <1>9, <1>10, <1>12, <1>13, <1>14, <1>15
        DEF FsNext, Steps

LEMMA LinksNext == ASSUME FsAssumption, LinksInv, [FsNext]_fsvars PROVE LinksInv'
BY LinksFs, LinksStack DEF LinksInv

-----------------------------------------------------------------------------
(* HX_rrmdir returns from opendir or from rmdir. *)
LEMMA RemoveEnds ==
    ASSUME NEW S, stack \in Seq(S), stack # <<>>, stack' = <<>>, Removing, FsNext
    PROVE  Opendir \/ Rmdir
<1>1. \A f : SetTop(f) # <<>>
  <2> SUFFICES ASSUME NEW f PROVE SetTop(f) # <<>>
    OBVIOUS
  <2> DEFINE T == S \cup {f}
  <2>1. stack \in Seq(T) /\ f \in T
    OBVIOUS
  <2> HIDE DEF T
  <2> QED BY <2>1, SetTopFacts DEF SetTop
<1>2. \A f : Append(stack, f) # <<>>
  OBVIOUS
<1>3. ~Readdir /\ ~Lstat /\ ~UnlinkEntry
  BY <1>1, <1>2 DEF Readdir, Lstat, UnlinkEntry
<1>4. ASSUME NEW n, NEW kind, Take(n) \/ Make(n, kind) PROVE FALSE
  BY <1>4 DEF Take, Make
<1>5. ~HX_rrmdir /\ ~Mkdir /\ ~MkdirStat /\ \A p : ~HX_mkdir(p)
  BY DEF Removing, HX_rrmdir, Mkdir, MkdirStat, HX_mkdir
<1> QED BY <1>3, <1>4, <1>5 DEF FsNext, Steps

LEMMA RemoveSteps == ASSUME FsAssumption, FsInv, FsNext PROVE RemoveStep
<1> DEFINE k == Len(stack)
<1>0. FsTypeOK /\ Outside /\ Chain /\ Clean
  BY DEF FsInv
<1>1. fs'[Out] = "dir" /\ fs'[Kept] = "file"
  BY FsNextInv DEF FsInv, Outside
<1> SUFFICES ASSUME stack # <<>>, stack' = <<>>
             PROVE  (ret' = 0 => fs'[Root] = "none") /\ (Quiet => ret' = 0)
  BY <1>1 DEF RemoveStep, Quiet
<1>3. /\ k \in Nat \ {0} /\ k \in 1 .. k /\ Top = stack[k] /\ stack[k] \in Frames
      /\ stack[k].dir \in Tree \ {Link} /\ stack[k].ret \in {0, -1}
  BY <1>0, FrameFacts
<1>6. CASE Opendir
  <2> DEFINE d == stack[k].dir
  <2>1. Followed(Top.dir) = d
    BY <1>0, <1>3, NotFollowed
  <2>2. at = "opendir" /\ UNCHANGED <<fs, stuck, others>>
    BY <1>6 DEF Opendir
  <2>3. ~(fs[d] = "dir" /\ d \notin stuck) /\ Returns(-1, "ENOENT")
    <3>1. \A f \in Frames : SetTop(f) # <<>>
      BY <1>0, SetTopFacts DEF SetTop, FsTypeOK
    <3> DEFINE f == [Top EXCEPT !.names = NamesIn(Top.dir),
                       !.must = {n \in NamesIn(Top.dir) : There(Top.dir, n) # {}}]
    <3>2. NamesIn(Top.dir) = Entries(Top.dir) /\ Entries(Top.dir) \subseteq Tree
      BY <1>0, <1>3, NotFollowed, EntriesFacts
    <3>3. f \in Frames
      BY <1>3, <3>2 DEF Frames
    <3>4. IF fs[d] = "dir" /\ d \notin stuck THEN stack' = SetTop(f) ELSE Returns(-1, "ENOENT")
      BY <1>6, <2>1 DEF Opendir
    <3> HIDE DEF f
    <3> QED BY <3>1, <3>3, <3>4
  <2>4. ret' = -1
    BY <1>0, <2>3, ReturnFacts
  <2>5. ~Quiet
    BY <1>0, <2>2, <2>3 DEF Clean, Fresh, Quiet
  <2> QED BY <2>4, <2>5
<1>10. CASE Rmdir
  <2> DEFINE d == stack[k].dir
  <2> DEFINE empty == fs[d] = "dir" /\ d \notin stuck /\ \A n \in Entries(d) : fs[n] = "none"
  <2>1. at = "rmdir"
    BY <1>10 DEF Rmdir
  <2>2. CASE empty
    <3>1. fs' = [fs EXCEPT ![d] = "none"] /\ Returns(Top.ret, errno)
      BY <1>3, <1>10, <2>2 DEF Rmdir
    <3>2. k = 1 /\ ret' = Top.ret
      BY <1>0, <3>1, ReturnFacts
    <3>3. d = Root
      BY <1>0, <3>2 DEF Chain
    <3>4. fs'[Root] = "none"
      BY <1>0, <1>3, <1>10, <3>1, <3>3, GoneOutside DEF Rmdir
    <3>5. Quiet => ret' = 0
      BY <1>3, <2>1, <3>2, RmdirWorks
    <3> QED BY <3>4, <3>5
  <2>3. CASE ~empty
    <3>1. Returns(Failed(Top, "ENOTEMPTY").ret, "ENOTEMPTY")
      BY <1>3, <1>10, <2>3 DEF Rmdir
    <3>2. ret' = Failed(Top, "ENOTEMPTY").ret
      BY <1>0, <3>1, ReturnFacts
    <3>3. ret' # 0
      BY <1>3, <3>2, FailedFacts
    <3>4. ~Quiet
      BY <2>1, <2>3, RmdirWorks
    <3> QED BY <3>3, <3>4
  <2> QED BY <2>2, <2>3
<1>11. Opendir \/ Rmdir
  <2>1. Removing
    BY <1>0 DEF FsTypeOK, Removing
  <2> QED BY <1>0, <2>1, RemoveEnds DEF FsTypeOK
<1> QED BY <1>6, <1>10, <1>11

LEMMA RemoveStepsLinks == ASSUME FsAssumption, LinksInv, FsNext PROVE RemoveStep
<1>0. others = "links" /\ stack \in Seq(LooseFrames) /\ (stack # <<>> => Removing)
      /\ fs \in [Places -> {"none", "dir", "file", "link"}] /\ Outermost
  BY DEF LinksInv
<1> SUFFICES ASSUME stack # <<>>, stack' = <<>>, ret' = 0 PROVE fs'[Root] = "none"
  BY <1>0 DEF RemoveStep
<1>1. Top = stack[Len(stack)] /\ Top \in LooseFrames
  BY <1>0, FrontFacts DEF Top
<1>2. Opendir \/ Rmdir
  BY <1>0, RemoveEnds
<1>3. CASE Opendir
  <2>1. \A f : SetTop(f) # <<>>
    <3> SUFFICES ASSUME NEW f PROVE SetTop(f) # <<>>
      OBVIOUS
    <3> DEFINE T == LooseFrames \cup {f}
    <3>1. stack \in Seq(T) /\ f \in T
      BY <1>0
    <3> HIDE DEF T
    <3> QED BY <3>1, SetTopFacts DEF SetTop
  <2>2. Returns(-1, "ENOENT")
    BY <1>3, <2>1 DEF Opendir
  <2> QED BY <2>2, LinksReturn
<1>4. CASE Rmdir
  <2>1. \/ fs' = [fs EXCEPT ![Top.dir] = "none"] /\ Returns(Top.ret, errno)
        \/ Returns(Failed(Top, "ENOTEMPTY").ret, "ENOTEMPTY")
    BY <1>4 DEF Rmdir
  <2>2. CASE Returns(Failed(Top, "ENOTEMPTY").ret, "ENOTEMPTY")
    <3>1. Failed(Top, "ENOTEMPTY").ret # 0
      BY <1>1 DEF Failed, LooseFrames
    <3> QED BY <2>2, <3>1, LinksReturn
  <2>3. CASE fs' = [fs EXCEPT ![Top.dir] = "none"] /\ Returns(Top.ret, errno)
    <3>1. Len(stack) = 1
      BY <2>3, LinksReturn
    <3>2. Top.dir = Root /\ Root \in Places
      BY <1>0, <1>1, <3>1 DEF Outermost, FsAssumption, Places
    <3> QED BY <1>0, <2>3, <3>2
  <2> QED BY <2>1, <2>2, <2>3
<1> QED BY <1>2, <1>3, <1>4

(* HX_mkdir returns from mkdir or from stat. *)
LEMMA MakeSteps == ASSUME FsAssumption, FsInv, FsNext PROVE MakeStep
<1> DEFINE n == Head(todo)
<1>0. FsTypeOK /\ Outside /\ PrefixMade
  BY DEF FsInv
<1> SUFFICES ASSUME todo # <<>>, todo' = <<>>, others # "anything"
             PROVE  /\ ret' = 1 => fs'[Followed(n)] = "dir"
                    /\ ret' = -1 => stuck # {} \/ Obstacle
  BY DEF MakeStep, Obstacle
<1>1. at \in {"mkdir", "stat"} /\ n = todo[1] /\ n \in Tree \ {Link} /\ n \in Places
  BY <1>0 DEF FsTypeOK, Places
<1>2. Followed(n) = n
  BY <1>0, <1>1, NotFollowed
<1>3. n # Root => fs[ParentOf[n]] = "dir" \/ Obstacle
  BY <1>0, <1>1 DEF PrefixMade
<1>4. NextPrefix => ret' = 1
  <2>1. Len(todo) # 1 => Len(Tail(todo)) # 0
    <3> DEFINE l == Len(todo)
    <3>1. l \in Nat /\ l # 0 /\ Len(Tail(todo)) = l - 1
      BY <1>0 DEF FsTypeOK
    <3> HIDE DEF l
    <3>2. l # 1 => l - 1 # 0
      BY <3>1
    <3> QED BY <3>1, <3>2 DEF l
  <2>2. Len(<<>>) = 0
    OBVIOUS
  <2> QED BY <2>1, <2>2 DEF NextPrefix, MkdirReturns
<1>5. CASE Mkdir
  <2>1. ASSUME fs' = [fs EXCEPT ![n] = "dir"], NextPrefix
        PROVE  ret' = 1 /\ fs'[n] = "dir"
    BY <1>0, <1>1, <1>4, <2>1 DEF FsTypeOK
  <2>2. ASSUME ~(n # Root => fs[ParentOf[n]] = "dir") \/ (fs[n] = "none" /\ n \in stuck),
               MkdirReturns(-1)
        PROVE  ret' = -1 /\ (stuck # {} \/ Obstacle)
    BY <1>3, <2>2 DEF MkdirReturns
  <2>3. (fs' = [fs EXCEPT ![n] = "dir"] /\ NextPrefix)
        \/ ((~(n # Root => fs[ParentOf[n]] = "dir") \/ (fs[n] = "none" /\ n \in stuck))
            /\ MkdirReturns(-1))
    BY <1>5 DEF Mkdir
  <2> QED BY <1>2, <2>1, <2>2, <2>3
<1>6. CASE MkdirStat
  <2>1. at = "stat" /\ fs' = fs
    BY <1>6 DEF MkdirStat
  <2>2. CASE fs[n] = "dir"
    <3>1. ret' = 1
      BY <1>2, <1>4, <1>6, <2>2 DEF MkdirStat
    <3> QED BY <1>2, <2>1, <2>2, <3>1
  <2>3. CASE fs[n] # "dir"
    <3>1. ret' = -1
      BY <1>2, <1>6, <2>3 DEF MkdirStat, MkdirReturns
    <3>2. fs[n] # "none" /\ fs[n] \in {"none", "dir", "file", "link"}
      BY <1>0, <1>1, <2>1 DEF PrefixMade, FsTypeOK
    <3>3. Obstacle
      BY <1>1, <2>3, <3>2 DEF Obstacle
    <3> QED BY <3>1, <3>3
  <2> QED BY <2>2, <2>3
<1>7. Mkdir \/ MkdirStat
  <2>1. ASSUME NEW m \in Tree, Take(m) PROVE FALSE
    BY <2>1 DEF Take
  <2>2. ASSUME NEW m \in Tree, NEW kind, Make(m, kind) PROVE FALSE
    BY <2>2 DEF Make
  <2>3. ~HX_rrmdir /\ (\A p : ~HX_mkdir(p)) /\ ~Opendir /\ ~Readdir /\ ~Lstat /\ ~UnlinkEntry
        /\ ~Rmdir
    BY <1>1 DEF HX_rrmdir, HX_mkdir, Opendir, Readdir, Lstat, UnlinkEntry, Rmdir
  <2> QED BY <2>1, <2>2, <2>3 DEF FsNext, Steps
<1> QED BY <1>5, <1>6, <1>7

(* Nothing is made where LinksInv holds. *)
LEMMA MakeStepsLinks == ASSUME LinksInv PROVE MakeStep
BY DEF LinksInv, MakeStep

(* What holds whatever the others do. *)
FsSafe == FsInv \/ LinksInv

LEMMA FsSafeInit == ASSUME FsAssumption, FsInit PROVE FsSafe
<1>1. CASE others # "links"
  BY <1>1, FsInitInv DEF FsSafe
<1>2. CASE others = "links"
  <2>1. LinksInv
    BY <1>2 DEF FsInit, LinksInv, Outermost, Removing
  <2> QED BY <2>1 DEF FsSafe
<1> QED BY <1>1, <1>2

LEMMA FsSafeNext == ASSUME FsAssumption, FsSafe, [FsNext]_fsvars PROVE FsSafe'
BY FsNextInv, LinksNext DEF FsSafe

(* HX_rrmdir returns 0 only in the step in which the directory goes, and   *)
(* always does for a tree that nobody else changes and nothing is refused  *)
(* in; what a link leads to is never touched unless others put links in    *)
(* the place of directories: for trees of every shape and depth, and in    *)
(* every interleaving with other processes that make and remove entries.   *)
THEOREM RemovesWhole == ASSUME FsAssumption PROVE FsSpec => RemoveOK
<1>1. FsInit => FsSafe
  BY FsSafeInit
<1>2. FsSafe /\ [FsNext]_fsvars => FsSafe'
  BY FsSafeNext
<1>3. FsSafe /\ [FsNext]_fsvars => [RemoveStep]_fsvars
  BY RemoveSteps, RemoveStepsLinks DEF FsSafe
<1> QED BY <1>1, <1>2, <1>3, PTL DEF FsSpec, RemoveOK

(* HX_mkdir fails only for a refusal or for something else than a          *)
(* directory in the way, while others make entries at will, and success    *)
(* means that the directory is there, for paths of every length.           *)
THEOREM MakesPath == ASSUME FsAssumption PROVE FsSpec => MakeOK
<1>1. FsInit => FsSafe
  BY FsSafeInit
<1>2. FsSafe /\ [FsNext]_fsvars => FsSafe'
  BY FsSafeNext
<1>3. FsSafe /\ [FsNext]_fsvars => [MakeStep]_fsvars
  BY MakeSteps, MakeStepsLinks DEF FsSafe
<1> QED BY <1>1, <1>2, <1>3, PTL DEF FsSpec, MakeOK

=============================================================================
