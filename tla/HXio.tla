-------------------------------- MODULE HXio -------------------------------
(***************************************************************************)
(* Moving data between descriptors (io.c): HX_sendfile with its fallbacks, *)
(* HX_copy_file on top of it, HX_slurp_fd and HX_slurp_file, and the loops *)
(* of HXio_fullread and HXio_fullwrite within them, one step per system    *)
(* call.  The kernel transfers any part of what it is asked for, may be    *)
(* interrupted and may fail.  The file read may be growing.                *)
(***************************************************************************)
EXTENDS Integers, Sequences, SequencesExt, FiniteSetsExt

CONSTANTS
    MaxFile,    \* bound: how long the file may become
    BufSize,    \* 0x10000, the buffer of HX_sendfile_rw
    Page,       \* 4096, the first buffer of HX_slurp_fd
    INT_MAX,    \* the most HX_sendfile asks the kernel for at a time
    SSIZE_MAX,  \* what the SIZE_MAX that HX_copy_file passes is cut to
    NoFile      \* there is no destination

VARIABLES
    kern,       \* what the kernel can do for the two files: "cfr", "sendfile", "rw"
    special,    \* st_size of the source is 0 whatever it contains, as in procfs
    src, spos,  \* the file read and the position in it
    dst,        \* the file written
    xfer,       \* the call under way
    answer,     \* what the last call returned, -1 for every error
    out         \* the buffer the last call returned, if it was a slurp

iovars == <<kern, special, src, spos, dst, xfer, answer, out>>

(* The calls read the kernel's state and do not change it. *)
same == <<kern, special, src>>

Errors == {"EINTR", "EIO"}

NoXfer == [op |-> "none", at |-> "none"]

(* A file is the sequence of the numbers of its bytes. *)
File(n) == [i \in 1 .. n |-> i]

IoInit ==
    /\ kern \in {"cfr", "sendfile", "rw"}
    /\ special \in BOOLEAN
    /\ src = File(0)
    /\ spos = 0
    /\ dst = NoFile
    /\ xfer = NoXfer
    /\ answer = 1
    /\ out = <<>>

Left == Len(src) - spos
Ahead(n) == SubSeq(src, spos + 1, spos + n)

(* Another process appends to the file. *)
Grow ==
    /\ Len(src) < MaxFile
    /\ src' = File(Len(src) + 1)
    /\ UNCHANGED <<kern, special, spos, dst, xfer, answer, out>>

Start(c) ==
    /\ xfer = NoXfer
    /\ xfer' = c
    /\ answer' = 0
    /\ out' = <<>>

Return(v) ==
    /\ xfer' = NoXfer
    /\ answer' = v

-----------------------------------------------------------------------------
(* HX_sendfile.                                                            *)

(* The local variables of HX_sendfile and of the three ways under it; was  *)
(* is the size of the source when its caller began.                        *)
Sending(op, count, was) ==
    [op |-> op, at |-> "cfr", count |-> count, was |-> was,
     xferd |-> 0, buf |-> <<>>, todo |-> 0]

HX_sendfile(count) ==
    /\ Start(Sending("sendfile", count, Len(src)))
    /\ dst' = <<>>
    /\ UNCHANGED <<same, spos>>

Mut_Sent(v, e) ==
    CASE xfer.op = "sendfile" -> Return(v)
      [] xfer.op = "copy" /\ v <= 0 -> Return(IF v = 0 \/ e = "EINTR" THEN 1 ELSE -1)
      [] OTHER -> xfer' = Sending("copy", SSIZE_MAX, xfer.was) /\ UNCHANGED answer

Mut_Sent2(v, e) ==
    CASE xfer.op = "sendfile" -> Return(v)
      [] xfer.op = "copy" /\ v < 0 /\ e # "EINTR" -> Return(-1)
      [] OTHER -> xfer' = Sending("copy", SSIZE_MAX, xfer.was) /\ UNCHANGED answer

(* HX_sendfile returns v with errno e: HX_copy_file calls it again until   *)
(* there is nothing left or there is an error other than EINTR.            *)
Sent(v, e) ==
    CASE xfer.op = "sendfile" -> Return(v)
      [] xfer.op = "copy" /\ v = 0 -> Return(1)
      [] xfer.op = "copy" /\ v < 0 /\ e # "EINTR" -> Return(-1)
      [] OTHER -> xfer' = Sending("copy", SSIZE_MAX, xfer.was) /\ UNCHANGED answer

(* The two loops in the kernel's favour, HX_cfr_linux and                  *)
(* HX_sendfile_linux, ask for count bytes again and again.                 *)
InKernel == xfer.at \in {"cfr", "sendfile"} /\ xfer.at = kern

KernelMoves ==
    /\ InKernel
    /\ \E n \in 1 .. Min({Left, INT_MAX, xfer.count}) :
         /\ dst' = dst \o Ahead(n)
         /\ spos' = spos + n
         /\ xfer' = [xfer EXCEPT !.xferd = @ + n]
    /\ UNCHANGED <<same, answer, out>>

KernelEnds ==
    /\ InKernel
    /\ Left = 0 \/ xfer.count = 0
    /\ Sent(xfer.xferd, "0")
    /\ UNCHANGED <<same, spos, dst, out>>

KernelFails ==
    /\ InKernel
    /\ \E e \in Errors : Sent(IF xfer.xferd > 0 THEN xfer.xferd ELSE -1, e)
    /\ UNCHANGED <<same, spos, dst, out>>

(* ENOSYS or EXDEV: the next way is tried. *)
Fallback ==
    /\ xfer.at \in {"cfr", "sendfile"}
    /\ xfer.at # kern
    /\ IF xfer.at = "cfr" THEN xfer' = [xfer EXCEPT !.at = "sendfile"] /\ UNCHANGED answer
       ELSE IF xfer.count = 0 THEN Sent(0, "0")
       ELSE /\ xfer' = [xfer EXCEPT !.at = "read", !.todo = Min({BufSize, xfer.count})]
            /\ UNCHANGED answer
    /\ UNCHANGED <<same, spos, dst, out>>

(* HX_sendfile_rw gets no buffer. *)
RwNoMem ==
    /\ xfer.at = "sendfile"
    /\ kern = "rw"
    /\ Sent(-1, "ENOMEM")
    /\ UNCHANGED <<same, spos, dst, out>>

(* HXio_fullread of todo more bytes into the buffer, until the file ends. *)
RwReads ==
    /\ xfer.at = "read"
    /\ \E n \in 0 .. Min({Left, xfer.todo}) :
         /\ n = 0 => Left = 0
         /\ spos' = spos + n
         /\ xfer' = [xfer EXCEPT !.buf = @ \o Ahead(n),
                                 !.todo = @ - n,
                                 !.at = IF n \in {0, xfer.todo} THEN "write" ELSE "read"]
    /\ UNCHANGED <<same, dst, answer, out>>

(* HXio_fullwrite of the buffer, and the next turn of the loop when all of *)
(* it is written: todo counts what has been written of it.                 *)
RwWrites ==
    /\ xfer.at = "write"
    /\ \E n \in 0 .. Len(xfer.buf) :
         /\ n = 0 => xfer.buf = <<>>
         /\ dst' = dst \o SubSeq(xfer.buf, 1, n)
         /\ LET rest == xfer.count - n
                more == [xfer EXCEPT !.buf = SubSeq(@, n + 1, Len(@)),
                                     !.count = rest, !.xferd = @ + n]
            IN  IF n < Len(xfer.buf) THEN xfer' = more /\ UNCHANGED answer
                ELSE IF rest = 0 THEN Sent(xfer.xferd + n, "0")
                ELSE /\ xfer' = [more EXCEPT !.at = "read", !.todo = Min({BufSize, rest})]
                     /\ UNCHANGED answer
    /\ UNCHANGED <<same, spos, out>>

(* An error of either loses what the buffer holds. *)
RwFails ==
    /\ xfer.at \in {"read", "write"}
    /\ xfer.op # "slurp"
    /\ \E e \in Errors : Sent(IF xfer.xferd > 0 THEN xfer.xferd ELSE -1, e)
    /\ UNCHANGED <<same, spos, dst, out>>

-----------------------------------------------------------------------------
(* HX_copy_file up to its loop.                                            *)

CopyFails ==
    /\ xfer = NoXfer
    /\ Return(-1)
    /\ UNCHANGED <<same, spos, dst, out>>

(* The destination is created or emptied; with HXF_KEEP it must be new. *)
HX_copy_file(keep, chown) ==
    /\ keep => dst = NoFile
    /\ dst' = <<>>
    /\ spos' = 0
    /\ Start([Sending("copy", SSIZE_MAX, Len(src))
                EXCEPT !.at = IF chown THEN "chown" ELSE "cfr"])
    /\ UNCHANGED same

CopyChown ==
    /\ xfer.at = "chown"
    /\ \/ xfer' = [xfer EXCEPT !.at = "cfr"] /\ UNCHANGED <<dst, answer>>
       \/ Return(-1) /\ dst' = NoFile
    /\ UNCHANGED <<same, spos, out>>

-----------------------------------------------------------------------------
(* HX_slurp_fd, and HX_slurp_file, which opens the file for it.            *)

SlurpFails ==
    /\ xfer.op \in {"none", "slurp"}
    /\ Return(-1)
    /\ UNCHANGED <<same, spos, dst, out>>

(* The local variables, by what fstat reports; from is the position of the *)
(* descriptor.                                                             *)
Slurping(from) ==
    LET sized == ~special /\ src # <<>>
    IN  [op |-> "slurp", at |-> IF sized THEN "rest" ELSE "chunk", from |-> from,
         was |-> Len(src), size |-> IF sized THEN Len(src) ELSE Page, buf |-> <<>>]

HX_slurp_fd ==
    /\ Start(Slurping(spos))
    /\ UNCHANGED <<same, spos, dst>>

HX_slurp_file ==
    /\ Start(Slurping(0))
    /\ spos' = 0
    /\ UNCHANGED <<same, dst>>

SlurpReturns(buf) ==
    /\ Return(1)
    /\ out' = buf
    /\ UNCHANGED <<same, spos, dst>>

Mut_Enlarged(offset) == xfer.size

(* The size of the buffer of a file without a size once offset bytes are   *)
(* in it: 4095 bytes of room or twice the size.                            *)
Enlarged(offset) == IF xfer.size - offset >= Page - 1 THEN xfer.size ELSE 2 * xfer.size

SlurpChunk ==
    /\ xfer.at = "chunk"
    /\ \E n \in 1 .. Min({Left, xfer.size - 1 - Len(xfer.buf)}) :
         /\ spos' = spos + n
         /\ xfer' = [xfer EXCEPT !.buf = @ \o Ahead(n), !.size = Enlarged(Len(xfer.buf) + n)]
    /\ UNCHANGED <<same, dst, answer, out>>

(* The read has no room, the file ends, or the read fails. *)
SlurpStops ==
    /\ xfer.at = "chunk"
    /\ Left = 0 \/ Len(xfer.buf) = xfer.size - 1
    /\ SlurpReturns(xfer.buf)

SlurpReadError ==
    /\ xfer.at = "chunk"
    /\ SlurpReturns(xfer.buf)

(* HXio_fullread of the size that fstat reported. *)
SlurpRest ==
    /\ xfer.at = "rest"
    /\ LET room == xfer.size - Len(xfer.buf)
       IN  IF room = 0 \/ Left = 0 THEN SlurpReturns(xfer.buf)
           ELSE \E n \in 1 .. Min({Left, room}) :
                  /\ spos' = spos + n
                  /\ xfer' = [xfer EXCEPT !.buf = @ \o Ahead(n)]
                  /\ UNCHANGED <<same, dst, answer, out>>

-----------------------------------------------------------------------------
SendSteps ==
    \/ KernelMoves \/ KernelEnds \/ KernelFails \/ Fallback
    \/ RwNoMem \/ RwReads \/ RwWrites \/ RwFails \/ CopyChown

SlurpSteps == SlurpFails \/ SlurpChunk \/ SlurpStops \/ SlurpReadError \/ SlurpRest

IoNext ==
    \/ Grow
    \/ \E count \in 0 .. MaxFile : HX_sendfile(count)
    \/ CopyFails
    \/ \E keep, chown \in BOOLEAN : HX_copy_file(keep, chown)
    \/ HX_slurp_fd \/ HX_slurp_file
    \/ SendSteps
    \/ SlurpSteps

(* A call that has begun goes on, and the kernel does not interrupt every  *)
(* transfer for ever.                                                      *)
IoFair == WF_iovars(SendSteps) /\ SF_iovars(KernelMoves) /\ SF_iovars(KernelEnds)

IoSpec == IoInit /\ [][IoNext]_iovars

-----------------------------------------------------------------------------
(* What the theorems assume of the constants: there are buffers, and the   *)
(* one of a slurp has room to read into next to the 4095 bytes that        *)
(* Enlarged keeps free and the final NUL.                                  *)
IoAssumption ==
    /\ MaxFile \in Nat /\ INT_MAX \in Nat
    /\ BufSize \in Nat \ {0} /\ SSIZE_MAX \in Nat \ {0}
    /\ Page \in Nat /\ Page >= 3

(* HX_copy_file that reports success has copied every byte that was there  *)
(* when it began and what it copied is, byte for byte, the beginning of    *)
(* the file, whichever way the kernel offered, however it cut the          *)
(* transfers and wherever it interrupted them.                             *)
CopyExact ==
    [][xfer.op = "copy" /\ xfer' = NoXfer /\ answer' = 1 =>
         /\ dst' = SubSeq(src, 1, spos)
         /\ spos >= xfer.was]_iovars

(* A slurp whose reads did not fail returns everything that the file held  *)
(* from its position when the slurp began, whatever st_size says, and      *)
(* always has a byte of its buffer left for the final NUL.                 *)
SlurpWhole ==
    [][xfer.op = "slurp" =>
         /\ xfer.at = "chunk" => Len(xfer.buf) < xfer.size
         /\ (SlurpStops \/ (SlurpRest /\ xfer' = NoXfer)) =>
              IsPrefix(SubSeq(src, xfer.from + 1, xfer.was), out')]_iovars

(* With a kernel that can copy between the two files HX_copy_file comes    *)
(* back.  (Without one it does not: HX_sendfile_rw does not look for the   *)
(* end of the file.)                                                       *)
CopyReturns == (xfer.op = "copy" /\ kern # "rw") ~> xfer = NoXfer

(* What the manual says of HX_sendfile: a transfer that succeeds is one of *)
(* the number of bytes requested, where the file has as many.              *)
SendExact ==
    [][xfer.op = "sendfile" /\ xfer' = NoXfer => answer' <= xfer.count]_iovars

=============================================================================
