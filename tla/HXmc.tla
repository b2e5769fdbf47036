------------------------------- MODULE HXmc --------------------------------
(***************************************************************************)
(* Memory containers (mc.c): a heap block with the capacity and the length *)
(* of its data before the data, and a NUL after them.  HX_readlink and     *)
(* HX_getcwd (io.c) let the kernel write into a container whose size they  *)
(* double until the answer fits.                                           *)
(*                                                                         *)
(* data is the block after the header, as malloc returned it; writing past *)
(* its end makes it longer than alloc + 1, which McOK excludes.            *)
(***************************************************************************)
EXTENDS Integers, Sequences, SequencesExt, FiniteSetsExt

CONSTANTS
    Bytes,      \* what users store
    NUL, Junk,  \* the terminator, and whatever uninitialized memory holds
    MaxLen,     \* bound: no container longer than this
    Prealloc,   \* 23, the capacity HXmc_strinit starts with
    Chunk       \* 128, the size HX_readlink and HX_getcwd start with

VARIABLES
    mc,         \* the container, or NoMc for NULL
    call,       \* the HX_readlink or HX_getcwd under way
    txt,        \* history: what the container holds by what its calls promise
    raw         \* history: the length was set, and nothing written since

mcvars == <<mc, call, txt, raw>>

NoMc == [alloc |-> -1, length |-> 0, data |-> <<>>]

Idle == [op |-> "none"]

McInit ==
    /\ mc = NoMc
    /\ call = Idle
    /\ txt = <<>>
    /\ raw = FALSE

Strings == UNION {[1 .. n -> Bytes] : n \in 0 .. MaxLen}

-----------------------------------------------------------------------------
(* realloc to n bytes of data and the terminator. *)
Resize(d, n) == [i \in 1 .. n + 1 |-> IF i \in DOMAIN d THEN d[i] ELSE Junk]

(* Bytes s written at offset pos, wherever that is. *)
Poke(d, pos, s) ==
    [i \in 1 .. Max({Len(d), pos + Len(s)}) |->
        IF i - pos \in DOMAIN s THEN s[i - pos] ELSE IF i \in DOMAIN d THEN d[i] ELSE Junk]

Mut_Room(c, n) ==
    IF c.alloc < n THEN [c EXCEPT !.alloc = n, !.data = Resize(@, n - 1)] ELSE c

(* The block once it has room for n bytes. *)
Room(c, n) ==
    IF c.alloc < n THEN [c EXCEPT !.alloc = n, !.data = Resize(@, n)] ELSE c

(* The data replaced from pos by s, and the length and the terminator set. *)
Fill(c, pos, s) ==
    [c EXCEPT !.data = Poke(@, pos, Append(s, NUL)), !.length = pos + Len(s)]

Content(c) == SubSeq(c.data, 1, c.length)

Keep(t) == txt' = t /\ raw' = FALSE

(* A call whose malloc or realloc fails returns NULL and leaves everything *)
(* as it was.                                                              *)
NoMem(n) == mc.alloc < n /\ UNCHANGED <<mc, txt, raw>>

-----------------------------------------------------------------------------
HXmc_meminit(s) ==
    /\ mc = NoMc
    /\ \/ NoMem(Len(s))
       \/ /\ mc' = Fill(Room(NoMc, Len(s)), 0, s)
          /\ Keep(s)
    /\ UNCHANGED call

(* A short string gets some capacity first. *)
HXmc_strinit(s) ==
    /\ mc = NoMc
    /\ \/ NoMem(Len(s))
       \/ /\ mc' = LET c == IF Len(s) < Prealloc
                            THEN Fill(Room(NoMc, Prealloc), 0, <<>>) ELSE NoMc
                   IN  Fill(Room(c, Len(s)), 0, s)
          /\ Keep(s)
    /\ UNCHANGED call

(* HXmc_memcpy and HXmc_strcpy; the former may be given no data. *)
HXmc_memcpy(s, null) ==
    /\ mc # NoMc
    /\ \/ NoMem(Len(s))
       \/ /\ mc' = Fill(Room(mc, Len(s)), 0, IF null THEN <<>> ELSE s)
          /\ Keep(IF null THEN <<>> ELSE s)
    /\ UNCHANGED call

HXmc_free ==
    /\ mc # NoMc
    /\ mc' = NoMc
    /\ Keep(<<>>)
    /\ UNCHANGED call

(* Without data, appending and inserting only make room. *)
MakeRoom(n) ==
    /\ mc # NoMc
    /\ n > mc.alloc /\ n <= MaxLen
    /\ mc' = Room(mc, n)
    /\ UNCHANGED <<call, txt, raw>>

(* HXmc_memcat and HXmc_strcat. *)
HXmc_memcat(s) ==
    /\ mc # NoMc
    /\ mc.length + Len(s) <= MaxLen
    /\ \/ NoMem(mc.length + Len(s))
       \/ /\ mc' = Fill(Room(mc, mc.length + Len(s)), mc.length, s)
          /\ Keep(txt \o s)
    /\ UNCHANGED call

(* HXmc_memins, HXmc_mempcat and their variants for strings. *)
HXmc_memins(pos, s) ==
    LET c == Room(mc, mc.length + Len(s))
        moved == Poke(c.data, pos + Len(s), SubSeq(c.data, pos + 1, c.length))
    IN  /\ mc # NoMc
        /\ pos \in 0 .. mc.length
        /\ mc.length + Len(s) <= MaxLen
        /\ \/ NoMem(mc.length + Len(s))
           \/ /\ mc' = [c EXCEPT !.data = Poke(Poke(moved, pos, s), c.length + Len(s), <<NUL>>),
                                 !.length = c.length + Len(s)]
              /\ Keep(SubSeq(txt, 1, pos) \o s \o SubSeq(txt, pos + 1, Len(txt)))
        /\ UNCHANGED call

HXmc_memdel(pos, n) ==
    LET len == IF pos + n > mc.length THEN mc.length - pos ELSE n
    IN  /\ mc # NoMc
        /\ pos \in 0 .. mc.length
        /\ mc' = Fill(mc, pos, SubSeq(mc.data, pos + len + 1, mc.length))
        /\ Keep(SubSeq(txt, 1, pos) \o SubSeq(txt, pos + n + 1, Len(txt)))
        /\ UNCHANGED call

(* Within the capacity the length is set, also to more than it was, beyond *)
(* it only the capacity.  doc/memory_container.rst:122-126 has it that a   *)
(* length greater than the data's is never set.                            *)
TruncMc(n) ==
    IF n > mc.alloc THEN Room(mc, n)
    ELSE [mc EXCEPT !.data = Poke(@, n, <<NUL>>), !.length = n]

(* What is promised of data of another length: the new bytes are anything. *)
Stretch(t, n) == [i \in 1 .. n |-> IF i \in DOMAIN t THEN t[i] ELSE Junk]

HXmc_trunc(n) ==
    /\ mc # NoMc
    /\ n \in 0 .. MaxLen
    /\ \/ NoMem(n)
       \/ /\ mc' = TruncMc(n)
          /\ IF n > mc.alloc THEN UNCHANGED <<txt, raw>> ELSE Keep(Stretch(txt, n))
    /\ UNCHANGED call

SetLen(n) == [TruncMc(n) EXCEPT !.length = n]

HXmc_setlen(n) ==
    /\ mc # NoMc
    /\ n \in 0 .. MaxLen
    /\ \/ NoMem(n)
       \/ /\ mc' = SetLen(n)
          /\ txt' = Stretch(txt, n)
          /\ raw' = (n > mc.alloc)
    /\ UNCHANGED call

-----------------------------------------------------------------------------
(* HX_readlink and HX_getcwd with answer s of the kernel.                  *)

AnswerBegin(op, s) ==
    /\ \/ /\ mc = NoMc
          /\ NoMem(Chunk)
          /\ UNCHANGED call
       \/ /\ mc = NoMc
          /\ mc' = Fill(Room(NoMc, Chunk), 0, <<>>)
          /\ call' = [op |-> op, s |-> s, size |-> Chunk, allocate |-> TRUE]
          /\ Keep(<<>>)
       \/ /\ mc # NoMc
          /\ mc.length >= Chunk
          /\ call' = [op |-> op, s |-> s, size |-> mc.length, allocate |-> FALSE]
          /\ UNCHANGED <<mc, txt, raw>>
       \/ /\ mc # NoMc
          /\ mc.length < Chunk
          /\ NoMem(Chunk)
          /\ UNCHANGED call
       \/ /\ mc # NoMc
          /\ mc.length < Chunk
          /\ mc' = SetLen(Chunk)
          /\ call' = [op |-> op, s |-> s, size |-> Chunk, allocate |-> FALSE]
          /\ txt' = Stretch(txt, Chunk)
          /\ raw' = (Chunk > mc.alloc)

(* What the kernel writes, which getcwd terminates: the answer has to be   *)
(* shorter than the buffer in both cases.                                  *)
Answer == IF call.op = "getcwd" THEN Append(call.s, NUL) ELSE call.s

AnswerFits ==
    /\ call.op # "none"
    /\ Len(call.s) < call.size
    /\ mc' = Fill(mc, 0, call.s)
    /\ Keep(call.s)
    /\ call' = Idle

(* The system call or the enlarging fails: a container of the caller's is  *)
(* left to it, with unspecified contents, one of the call's own is freed.  *)
AnswerFails ==
    /\ call.op # "none"
    /\ IF call.allocate THEN mc' = NoMc /\ Keep(<<>>)
       ELSE txt' = Stretch(<<>>, mc.length) /\ UNCHANGED <<mc, raw>>
    /\ call' = Idle

(* The buffer is filled as far as it goes and made twice as large. *)
AnswerGrows ==
    LET written == [mc EXCEPT !.data = Poke(@, 0, SubSeq(Answer, 1, call.size))]
        n == 2 * call.size
    IN  /\ call.op # "none"
        /\ Len(call.s) >= call.size
        /\ mc' = [IF n > mc.alloc THEN Room(written, n)
                  ELSE [written EXCEPT !.data = Poke(@, n, <<NUL>>)]
                    EXCEPT !.length = n]
        /\ txt' = Stretch(<<>>, n)
        /\ raw' = (n > mc.alloc)
        /\ call' = [call EXCEPT !.size = n]

-----------------------------------------------------------------------------
User ==
    \/ \E s \in Strings :
         \/ HXmc_meminit(s)
         \/ HXmc_strinit(s)
         \/ \E null \in BOOLEAN : HXmc_memcpy(s, null)
         \/ HXmc_memcat(s)
         \/ \E pos \in 0 .. MaxLen : HXmc_memins(pos, s)
         \/ \E op \in {"readlink", "getcwd"} : AnswerBegin(op, s)
    \/ \E n \in 0 .. MaxLen :
         \/ \E pos \in 0 .. MaxLen : HXmc_memdel(pos, n)
         \/ HXmc_trunc(n)
         \/ HXmc_setlen(n)
         \/ MakeRoom(mc.length + n)
    \/ HXmc_free

McNext ==
    \/ call = Idle /\ User
    \/ AnswerFits
    \/ AnswerFails
    \/ AnswerGrows

McSpec == McInit /\ [][McNext]_mcvars

(* What the theorems assume of the constants: they are sizes. *)
McAssumption == MaxLen \in Nat /\ Prealloc \in Nat /\ Chunk \in Nat

(* After any sequence of calls, with any of them failing, the container    *)
(* holds what its calls promise, followed by the terminator unless         *)
(* HXmc_setlen moved the end to where nothing was written, and no call has *)
(* written beyond the block.  Of HXmc_trunc this says what mc.c:130-132    *)
(* does: the data grow up to the capacity, where the manual denies it.     *)
McOK ==
    mc # NoMc =>
      /\ mc.length <= mc.alloc
      /\ Len(mc.data) = mc.alloc + 1
      /\ Len(txt) = mc.length
      /\ \A i \in DOMAIN txt : txt[i] = Junk \/ mc.data[i] = txt[i]
      /\ raw \/ mc.data[mc.length + 1] = NUL

=============================================================================
