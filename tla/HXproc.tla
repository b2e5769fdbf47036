------------------------------- MODULE HXproc -------------------------------
(***************************************************************************)
(* Subprocesses (proc.c) as two descriptor tables, the caller's and the    *)
(* child's, from HXproc_run_async over fork and exec to HXproc_wait.       *)
(*                                                                         *)
(* A descriptor is a number, a table maps it to the file it refers to; the *)
(* kernel hands out the lowest number that is free, so that a caller that  *)
(* has closed its own standard descriptors gets pipe ends and /dev/null in *)
(* their place.  The caller then behaves as doc/process_management.rst     *)
(* tells it to: it closes its end of the child's stdin, reads the other    *)
(* pipes to the end, and waits.  The program run reads its stdin, if that  *)
(* is a pipe, to the end before it exits, and may be killed at any time.   *)
(***************************************************************************)
EXTENDS Integers, FiniteSets, FiniteSetsExt

CONSTANTS
    Limits      \* RLIMIT_NOFILE: how many descriptors a process may have, above 2

VARIABLES
    base,       \* the caller's descriptors before the calls under test
    fdt,        \* the caller's descriptors
    proc,       \* struct HXproc: flags (by descriptor) and p_stdin, ...
    pipes,      \* the local array of HXproc_run_async, -1 where unused
    nullfd,     \* the local variable of that name
    pc,         \* where the caller is, "idle" outside of all calls
    sync,       \* the call is HXproc_run_sync
    owed,       \* history: calls of p_prefork less calls of p_complete
    child,      \* the child process
    result      \* what the last call returned

procvars == <<base, fdt, proc, pipes, nullfd, pc, sync, owed, child, result>>

LimitsAssumption == \A n \in Limits : n \in Nat /\ n > 2

Std == 0 .. 2

(* Files: the caller's own, /dev/null, and the two ends of the pipe for a  *)
(* standard descriptor.                                                    *)
None == <<"none", 0>>
Own(fd) == <<"own", fd>>
DevNull == <<"null", 0>>
End(d, x) == <<d, x>>

(* The child's side of the pipe for x, and the caller's. *)
Inner(x) == IF x = 0 THEN "r" ELSE "w"
Outer(x) == IF x = 0 THEN "w" ELSE "r"

NoPipe == [r |-> -1, w |-> -1]

NoPipes == [x \in Std |-> NoPipe]

NoFds == [x \in Std |-> -1]

(* A struct HXproc between calls.  A user sets the flags before each call, *)
(* so those of the last one do not matter.                                 *)
NoProc == [flags |-> [x \in Std |-> {}], std |-> NoFds]

NoChild ==
    [pc |-> "none", x |-> 0, fdt |-> <<>>, std |-> NoFds, pipes |-> NoPipes, nullfd |-> -1]

ProcInit ==
    /\ \E n \in Limits, open \in SUBSET Std :
         base = [fd \in 0 .. n - 1 |-> IF fd \in open THEN Own(fd) ELSE None]
    /\ fdt = base
    /\ proc = NoProc
    /\ pipes = NoPipes
    /\ nullfd = -1
    /\ pc = "idle"
    /\ sync = FALSE
    /\ owed = 0
    /\ child = NoChild
    /\ result = "none"

-----------------------------------------------------------------------------
(* The kernel.                                                             *)

FreeFds(t) == {fd \in DOMAIN t : t[fd] = None}

Lowest(t) == Min(FreeFds(t))

Close(t, fds) == [fd \in DOMAIN t |-> IF fd \in fds THEN None ELSE t[fd]]

(* dup: the descriptor, or -1 at the limit. *)
DupFd(t) == IF FreeFds(t) = {} THEN -1 ELSE Lowest(t)

(* A read on the pipe for x finds the end once nobody can write to it. *)
AtEnd(x) ==
    /\ \A fd \in DOMAIN fdt : fdt[fd] # End("w", x)
    /\ \A fd \in DOMAIN child.fdt : child.fdt[fd] # End("w", x)

-----------------------------------------------------------------------------
(* HXproc_run_async in the caller.                                         *)

Wants(x, what) == what \in proc.flags[x]

(* HXproc_close_pipes. *)
PipeFds(p) == UNION {{p[x].r, p[x].w} : x \in Std}

HXproc_close_pipes(t, p) == Close(t, PipeFds(p))

Mut_GiveUp(err) ==
    /\ fdt' = HXproc_close_pipes(fdt, pipes)
    /\ proc' = NoProc
    /\ pipes' = NoPipes
    /\ nullfd' = -1
    /\ pc' = "idle"
    /\ result' = err
    /\ UNCHANGED <<base, sync, child>>

(* The error paths: everything opened so far is closed. *)
GiveUp(err) ==
    /\ fdt' = Close(HXproc_close_pipes(fdt, pipes), {nullfd})
    /\ proc' = NoProc
    /\ pipes' = NoPipes
    /\ nullfd' = -1
    /\ pc' = "idle"
    /\ result' = err
    /\ UNCHANGED <<base, sync, child>>

Asks(flags, what) == \E x \in Std : what \in flags[x]

(* What both calls begin with: an argv without a program and a flag pair   *)
(* that contradicts itself are refused, and /dev/null is opened if asked   *)
(* for, which may fail.                                                    *)
Begin(flags) ==
    /\ pc = "idle"
    /\ \/ /\ result' = "EFAULT"
          /\ UNCHANGED <<fdt, proc, nullfd, pc>>
       \/ /\ \E x \in Std : flags[x] = {"pipe", "null"}
          /\ result' = "EINVAL"
          /\ UNCHANGED <<fdt, proc, nullfd, pc>>
       \/ /\ \A x \in Std : flags[x] # {"pipe", "null"}
          /\ Asks(flags, "null")
          /\ result' = "errno"
          /\ UNCHANGED <<fdt, proc, nullfd, pc>>
       \/ /\ \A x \in Std : flags[x] # {"pipe", "null"}
          /\ Asks(flags, "null")
          /\ FreeFds(fdt) # {}
          /\ nullfd' = Lowest(fdt)
          /\ fdt' = [fdt EXCEPT ![Lowest(fdt)] = DevNull]
          /\ proc' = [flags |-> flags, std |-> NoFds]
          /\ pc' = "pipe0"
          /\ result' = "none"
       \/ /\ ~ Asks(flags, "null")
          /\ proc' = [flags |-> flags, std |-> NoFds]
          /\ pc' = "pipe0"
          /\ result' = "none"
          /\ UNCHANGED <<fdt, nullfd>>
    /\ UNCHANGED <<base, pipes, owed, child>>

HXproc_run_async(flags) ==
    /\ Begin(flags)
    /\ sync' = FALSE

(* Pipes are refused, as nobody would read them; there are no callbacks,   *)
(* and HXproc_wait follows.                                                *)
HXproc_run_sync(flags) ==
    \/ /\ pc = "idle"
       /\ Asks(flags, "pipe")
       /\ result' = "EINVAL"
       /\ UNCHANGED <<base, fdt, proc, pipes, nullfd, pc, sync, owed, child>>
    \/ /\ ~ Asks(flags, "pipe")
       /\ Begin(flags)
       /\ sync' = TRUE

PipeStep == <<"pipe0", "pipe1", "pipe2", "fork">>

(* HXproc_build_pipes, one pipe per step. *)
BuildPipe(x) ==
    /\ pc = PipeStep[x + 1]
    /\ IF Wants(x, "pipe")
       THEN LET r == Lowest(fdt)
                w == Min(FreeFds(fdt) \ {r})
            IN  /\ Cardinality(FreeFds(fdt)) >= 2
                /\ pipes' = [pipes EXCEPT ![x] = [r |-> r, w |-> w]]
                /\ fdt' = [fdt EXCEPT ![r] = End("r", x), ![w] = End("w", x)]
       ELSE UNCHANGED <<pipes, fdt>>
    /\ pc' = PipeStep[x + 2]
    /\ UNCHANGED <<base, proc, nullfd, sync, owed, child, result>>

PipeFails(x) ==
    /\ pc = PipeStep[x + 1]
    /\ Wants(x, "pipe")
    /\ GiveUp("errno")
    /\ UNCHANGED owed

(* p_prefork and fork: the child gets a copy of the table and the locals. *)
Fork ==
    /\ pc = "fork"
    /\ owed' = IF sync THEN owed ELSE owed + 1
    /\ child' = [pc |-> "dup", x |-> 0, fdt |-> fdt, std |-> NoFds,
                 pipes |-> pipes, nullfd |-> nullfd]
    /\ pc' = "close"
    /\ UNCHANGED <<base, fdt, proc, pipes, nullfd, sync, result>>

Mut_ForkFails ==
    /\ pc = "fork"
    /\ owed' = IF sync THEN owed ELSE owed + 1
    /\ GiveUp("errno")

(* p_prefork, fork fails, p_complete. *)
ForkFails ==
    /\ pc = "fork"
    /\ UNCHANGED owed
    /\ GiveUp("errno")

(* The caller's half after the fork: the child's ends are closed and its   *)
(* own are handed out.                                                     *)
ParentEnds ==
    /\ pc = "close"
    /\ fdt' = Close(fdt, {nullfd} \cup {pipes[x][Inner(x)] : x \in Std})
    /\ proc' = [proc EXCEPT !.std = [x \in Std |-> pipes[x][Outer(x)]]]
    /\ pipes' = NoPipes
    /\ nullfd' = -1
    /\ pc' = "user"
    /\ result' = "started"
    /\ UNCHANGED <<base, sync, owed, child>>

-----------------------------------------------------------------------------
(* HXproc_run_async in the child.  Nothing here touches the caller.        *)

caller == <<base, fdt, proc, pipes, nullfd, pc, sync, owed, result>>

(* The files for the standard descriptors are duplicated out of the way of *)
(* HXproc_close_pipes, one by one.  A dup that fails goes unnoticed.       *)
ChildDup ==
    LET x == child.x
        t == child.fdt
        src == IF Wants(x, "pipe") THEN child.pipes[x][Inner(x)] ELSE child.nullfd
        fd == IF proc.flags[x] = {} THEN -1 ELSE DupFd(t)
    IN  /\ child.pc = "dup"
        /\ child' =
             [child EXCEPT
                !.x = (x + 1) % 3,
                !.pc = IF x = 2 THEN "close" ELSE "dup",
                !.std[x] = fd,
                !.fdt = [i \in DOMAIN t |-> IF i = fd THEN t[src] ELSE t[i]]]
        /\ UNCHANGED caller

(* p_postfork, which is taken to leave the descriptors alone, and          *)
(* HXproc_close_pipes.                                                     *)
ChildClosePipes ==
    /\ child.pc = "close"
    /\ child' = [child EXCEPT !.pc = "dup2",
                              !.fdt = HXproc_close_pipes(child.fdt, child.pipes),
                              !.pipes = NoPipes]
    /\ UNCHANGED caller

(* dup2 and close. *)
MoveFd(t, from, to) ==
    [i \in DOMAIN t |-> IF i = to THEN t[from] ELSE IF i = from THEN None ELSE t[i]]

(* Without the test for a descriptor that is in its place already. *)
Mut_ChildDup2 ==
    LET x == child.x
        fd == child.std[x]
    IN  /\ child.pc = "dup2"
        /\ child' =
             [child EXCEPT
                !.x = (x + 1) % 3,
                !.pc = IF x = 2 THEN "exec" ELSE "dup2",
                !.fdt = IF fd >= 0 THEN Close(MoveFd(@, fd, x), {fd}) ELSE @]
        /\ UNCHANGED caller

(* The duplicates go to their final places. *)
ChildDup2 ==
    LET x == child.x
        fd == child.std[x]
    IN  /\ child.pc = "dup2"
        /\ child' =
             [child EXCEPT
                !.x = (x + 1) % 3,
                !.pc = IF x = 2 THEN "exec" ELSE "dup2",
                !.fdt = IF fd >= 0 /\ fd # x THEN MoveFd(@, fd, x) ELSE @]
        /\ UNCHANGED caller

(* nullfd is closed and the program takes over, or execv fails and the     *)
(* child leaves by _exit(-1).                                              *)
ChildExec ==
    /\ child.pc = "exec"
    /\ \/ child' = [child EXCEPT !.pc = "running", !.fdt = Close(@, {child.nullfd})]
       \/ child' = [child EXCEPT !.pc = "exited", !.fdt = <<>>]
    /\ UNCHANGED caller

(* The program run: it exits once it has read all of its stdin. *)
ProgramExits ==
    /\ child.pc = "running"
    /\ child.fdt[0] = End("r", 0) => AtEnd(0)
    /\ child' = [child EXCEPT !.pc = "exited", !.fdt = <<>>]
    /\ UNCHANGED caller

(* A signal ends the child, wherever it is. *)
Killed ==
    /\ child.pc \notin {"none", "exited", "signalled"}
    /\ child' = [child EXCEPT !.pc = "signalled", !.fdt = <<>>]
    /\ UNCHANGED caller

-----------------------------------------------------------------------------
(* The caller until it has waited for the child.                           *)

(* The user closes its end of the child's stdin when it has no more to     *)
(* say, and the others when they have come to an end.                      *)
UserCloses(x) ==
    /\ pc = "user"
    /\ proc.std[x] >= 0
    /\ x # 0 => AtEnd(x)
    /\ fdt' = Close(fdt, {proc.std[x]})
    /\ proc' = [proc EXCEPT !.std[x] = -1]
    /\ UNCHANGED <<base, pipes, nullfd, pc, sync, owed, child, result>>

(* Waiting until WIFEXITED. *)
Mut_HXproc_wait ==
    /\ pc = "user"
    /\ proc.std[0] = -1
    /\ child.pc = "exited"
    /\ result' = child.pc
    /\ owed' = IF sync THEN owed ELSE owed - 1
    /\ child' = NoChild
    /\ UNCHANGED <<base, fdt, proc, pipes, nullfd, pc, sync>>

(* waitpid returns with the child's status, p_complete is called.  The     *)
(* user has closed the child's stdin by then.                              *)
HXproc_wait ==
    /\ pc = "user"
    /\ proc.std[0] = -1
    /\ child.pc \in {"exited", "signalled"}
    /\ result' = child.pc
    /\ owed' = IF sync THEN owed ELSE owed - 1
    /\ child' = NoChild
    /\ UNCHANGED <<base, fdt, proc, pipes, nullfd, pc, sync>>

(* waitpid is interrupted.  The user may call HXproc_wait again, but       *)
(* HXproc_run_sync returns, and the child's number is lost with its frame. *)
WaitInterrupted ==
    /\ pc = "user"
    /\ proc.std[0] = -1
    /\ child.pc # "none"
    /\ result' = "errno"
    /\ child' = IF sync THEN NoChild ELSE child
    /\ UNCHANGED <<base, fdt, proc, pipes, nullfd, pc, sync, owed>>

(* The user is done with the child. *)
UserDone ==
    /\ pc = "user"
    /\ proc.std = NoFds
    /\ child.pc = "none"
    /\ proc' = NoProc
    /\ pc' = "idle"
    /\ UNCHANGED <<base, fdt, pipes, nullfd, sync, owed, child, result>>

-----------------------------------------------------------------------------

Flags == [Std -> SUBSET {"pipe", "null"}]

Build == \E x \in Std : BuildPipe(x) \/ PipeFails(x)

CallerStep ==
    \/ Build
    \/ Fork \/ ForkFails \/ ParentEnds
    \/ \E x \in Std : UserCloses(x)
    \/ HXproc_wait
    \/ UserDone

ChildStep == ChildDup \/ ChildClosePipes \/ ChildDup2 \/ ChildExec \/ ProgramExits

ProcNext ==
    \/ \E flags \in Flags : HXproc_run_async(flags) \/ HXproc_run_sync(flags)
    \/ CallerStep
    \/ ChildStep
    \/ Killed
    \/ WaitInterrupted

ProcSpec == ProcInit /\ [][ProcNext]_procvars

(* Both processes go on: the library's code has no step that can wait for  *)
(* ever but waitpid, and the user closes and waits as documented.          *)
ProcFair == WF_procvars(CallerStep) /\ WF_procvars(ChildStep)

-----------------------------------------------------------------------------
(* The properties.                                                         *)

Files == {None, DevNull} \cup {Own(fd) : fd \in Std}
           \cup {End(d, x) : d \in {"r", "w"}, x \in Std}

Fds == {-1} \cup DOMAIN base

(* Every variable has its type. *)
ProcTypeOK ==
    /\ fdt \in [DOMAIN base -> Files]
    /\ proc \in [flags : Flags, std : [Std -> Fds]]
    /\ pipes \in [Std -> [r : Fds, w : Fds]]
    /\ nullfd \in Fds
    /\ pc \in {"idle", "pipe0", "pipe1", "pipe2", "fork", "close", "user"}
    /\ sync \in BOOLEAN
    /\ owed \in Int
    /\ child.pc \in {"none", "dup", "close", "dup2", "exec", "running",
                     "exited", "signalled"}
    /\ child.x \in Std
    /\ child.std \in [Std -> Fds]
    /\ \A fd \in DOMAIN child.fdt : child.fdt[fd] \in Files
    /\ result \in {"none", "EFAULT", "EINVAL", "errno", "started", "exited", "signalled"}

(* Whenever the library returns to its user, by whatever path, the         *)
(* process has the descriptors it had before, and those handed out in      *)
(* p_stdin, p_stdout and p_stderr, which are the caller's ends.            *)
NoLeak ==
    pc \in {"idle", "user"} =>
      \A fd \in DOMAIN base :
        \/ fdt[fd] = base[fd] /\ \A x \in Std : proc.std[x] # fd
        \/ \E x \in Std : proc.std[x] = fd /\ fdt[fd] = End(Outer(x), x)

(* What descriptor x was asked to be. *)
Asked(x) ==
    CASE proc.flags[x] = {} -> base[x]
      [] Wants(x, "pipe") -> End(Inner(x), x)
      [] OTHER -> DevNull

(* The program is started with what was asked for on its standard          *)
(* descriptors and nothing else that the library opened, whichever         *)
(* numbers the pipes and the duplicates got.  Two exceptions are the       *)
(* code's: a descriptor whose dup failed, and one that nullfd occupied in  *)
(* a caller without it, which the last close takes away again.             *)
ChildWired ==
    child.pc = "running" =>
      \A fd \in DOMAIN base :
        IF fd \in Std
        THEN \/ child.fdt[fd] = Asked(fd)
             \/ proc.flags[fd] # {} /\ child.std[fd] = -1 /\ child.fdt[fd] = base[fd]
             \/ fd = child.nullfd /\ child.fdt[fd] = None
        ELSE child.fdt[fd] = base[fd]

(* Each p_prefork is followed by one p_complete, on the error path of fork *)
(* as after the wait: one is owed exactly while there is a child.          *)
CallbacksPaired == owed = IF sync \/ child.pc = "none" THEN 0 ELSE 1

(* Whatever fails on the way, a call that was begun comes to its end, with *)
(* the child waited for unless HXproc_run_sync was interrupted: neither of *)
(* the two keeps an end of a pipe open that makes the other wait for ever. *)
Reaped == pc # "idle" ~> pc = "idle"

=============================================================================
