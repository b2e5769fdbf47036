------------------------------ MODULE HXsocket -----------------------------
(***************************************************************************)
(* HX_inet_connect, HX_inet_listen, HX_local_listen and                    *)
(* HX_socket_from_env (socket.c), one step per system call, in several     *)
(* processes that want the same local address.                             *)
(*                                                                         *)
(* path is what the file system holds at that address: nothing, a file, a  *)
(* socket nobody has open any more, or the socket of a process.            *)
(***************************************************************************)
EXTENDS Integers, Sequences, FiniteSets, FiniteSetsExt

CONSTANTS
    Procs,      \* processes
    MaxAddr,    \* bound: addresses that getaddrinfo returns
    Envs        \* inherited descriptors: [fds |-> sequence of sockets, top |-> top_fd - 3]

VARIABLES
    path,       \* "none", "file", "dead" or a process
    env,        \* the descriptors a process inherited, if its environment names any
    signals,    \* whether a connect(2) may be interrupted
    proc        \* the state of each process and of its call

socketvars == <<path, env, signals, proc>>

(* Processes are none of the other things that can be at the address. *)
SocketAssumption ==
    /\ Procs \cap {"none", "file", "dead"} = {}
    /\ MaxAddr \in Nat
    /\ \A e \in Envs : Len(e.fds) \in Nat /\ e.top \in Int

Fresh == [pc |-> "idle", op |-> "none", sk |-> "none", test |-> FALSE, nonblock |-> FALSE,
          left |-> 0, second |-> FALSE, errno |-> "0", alone |-> TRUE]

SocketInit ==
    /\ path \in {"none", "file", "dead"}
    /\ env \in [Procs -> Envs]
    /\ signals \in BOOLEAN
    /\ proc = [p \in Procs |-> Fresh]

Resting == {"idle", "up", "failed"}

Set(p, r) == proc' = [proc EXCEPT ![p] = r]

(* What is at the address once process p has closed its socket. *)
Deserted(p) == IF path = p THEN "dead" ELSE path

(* A call returns an error or a descriptor, and its variables are gone. *)
Return(p, at, e, sk) ==
    [proc[p] EXCEPT !.pc = at, !.errno = e, !.sk = sk,
                    !.test = FALSE, !.nonblock = FALSE, !.left = 0, !.second = FALSE]

Fail(p, e) == Return(p, "failed", e, "none")

-----------------------------------------------------------------------------
(* Starting a call.  A local one is alone until another one begins.        *)

Request(p, op, n, nonblock) ==
    LET rivals == {q \in Procs \ {p} : proc[q].op = "local" /\ proc[q].pc \notin Resting}
        first == IF op = "connect" THEN "socket" ELSE "env"
        new == [Fresh EXCEPT !.pc = first, !.op = op, !.left = n, !.nonblock = nonblock,
                             !.alone = rivals = {}]
    IN  /\ proc[p].pc \in {"idle", "failed"}
        /\ proc' = [q \in Procs |->
                      IF q = p THEN new
                      ELSE IF q \in rivals /\ op = "local" THEN [proc[q] EXCEPT !.alone = FALSE]
                      ELSE proc[q]]
        /\ UNCHANGED <<path, env, signals>>

HX_local_listen(p) == Request(p, "local", 1, FALSE)

(* The addresses that HX_inet_lookup finds, none when it fails. *)
HX_inet_listen(p) == \E n \in 0 .. MaxAddr : Request(p, "listen", n, FALSE)
HX_inet_connect(p) == \E n \in 0 .. MaxAddr, b \in BOOLEAN : Request(p, "connect", n, b)

(* The loop over the addresses has come to its end. *)
NoAddress(p) ==
    /\ proc[p].pc \in {"env", "socket"}
    /\ proc[p].left = 0
    /\ LET e == proc[p].errno
       IN  Set(p, Fail(p, IF e = "0" THEN "EHOSTUNREACH" ELSE e))
    /\ UNCHANGED <<path, env, signals>>

-----------------------------------------------------------------------------
(* HX_socket_from_env: the first inherited descriptor below top_fd that is *)
(* a listening socket of the address asked for.                            *)

try_sk_from_env(s) == s.accepting /\ s.addr = "asked"

FromEnv(p) ==
    LET fds == env[p].fds
    IN  {i \in 1 .. Min({Len(fds), env[p].top}) : try_sk_from_env(fds[i])}

HX_socket_from_env(p) ==
    /\ proc[p].pc = "env"
    /\ proc[p].left > 0
    /\ Set(p, IF FromEnv(p) = {} THEN [proc[p] EXCEPT !.pc = "socket"]
              ELSE Return(p, "up", "0", IF env[p].fds[Min(FromEnv(p))].accepting
                                        THEN "inherited" ELSE "deaf"))
    /\ UNCHANGED <<path, env, signals>>

-----------------------------------------------------------------------------
(* HX_gai_listen, and the first steps of HX_inet_connect.                  *)

(* The next address, or the end of HX_local_listen. *)
NextAddress(p, e) ==
    IF proc[p].op = "local" THEN Fail(p, e)
    ELSE [proc[p] EXCEPT !.pc = IF proc[p].op = "connect" THEN "socket" ELSE "env",
                         !.left = @ - 1, !.sk = "none", !.errno = e]

Socket(p) ==
    /\ proc[p].pc = "socket"
    /\ proc[p].left > 0
    /\ \/ Set(p, [proc[p] EXCEPT !.sk = "open",
                                 !.pc = IF proc[p].op # "connect" THEN "bind"
                                        ELSE IF proc[p].nonblock THEN "fcntl" ELSE "connect"])
       \/ LET kept == proc[p].op = "connect" /\ proc[p].errno # "0"
          IN  Set(p, NextAddress(p, IF kept THEN proc[p].errno ELSE "EMFILE"))
    /\ UNCHANGED <<path, env, signals>>

Mut_Bind(p) ==
    /\ proc[p].pc = "bind"
    /\ IF proc[p].op = "local"
       THEN IF path = "none"
            THEN path' = p /\ Set(p, [proc[p] EXCEPT !.sk = "bound", !.pc = "listen"])
            ELSE /\ Set(p, IF proc[p].second THEN Fail(p, "EADDRINUSE")
                           ELSE [proc[p] EXCEPT !.pc = "stat"])
                 /\ UNCHANGED path
       ELSE /\ Set(p, [proc[p] EXCEPT !.sk = "bound", !.pc = "listen"])
            /\ UNCHANGED path
    /\ UNCHANGED <<env, signals>>

(* bind(2) finds the address in use, or is refused.  HX_local_listen then  *)
(* looks at who uses it, once; HX_inet_listen gives up.                    *)
Bind(p) ==
    /\ proc[p].pc = "bind"
    /\ \/ /\ proc[p].op = "local" => path = "none"
          /\ path' = IF proc[p].op = "local" THEN p ELSE path
          /\ Set(p, [proc[p] EXCEPT !.sk = "bound", !.pc = "listen"])
       \/ /\ proc[p].op = "local" => path # "none"
          /\ Set(p, IF proc[p].op = "local" /\ ~proc[p].second
                    THEN [proc[p] EXCEPT !.sk = "none", !.pc = "stat"]
                    ELSE Fail(p, "EADDRINUSE"))
          /\ UNCHANGED path
       \/ Set(p, Fail(p, "EACCES")) /\ UNCHANGED path
    /\ UNCHANGED <<env, signals>>

Listen(p) ==
    /\ proc[p].pc = "listen"
    /\ \/ Set(p, Return(p, "up", "0", "listening")) /\ UNCHANGED path
       \/ Set(p, NextAddress(p, "EADDRINUSE")) /\ path' = Deserted(p)
    /\ UNCHANGED <<env, signals>>

-----------------------------------------------------------------------------
(* HX_inet_connect for one address.                                        *)

Fcntl(p) ==
    /\ proc[p].pc = "fcntl"
    /\ \/ Set(p, [proc[p] EXCEPT !.pc = "connect"])
       \/ Set(p, NextAddress(p, "EBADF"))
    /\ UNCHANGED <<path, env, signals>>

Connect(p) ==
    /\ proc[p].pc = "connect"
    /\ \/ Set(p, Return(p, "up", "0", "connected"))
       \/ Set(p, IF proc[p].nonblock THEN Return(p, "up", "0", "connected")
                 ELSE NextAddress(p, "EINPROGRESS"))
       \/ Set(p, NextAddress(p, "ECONNREFUSED"))
    /\ UNCHANGED <<path, env, signals>>

-----------------------------------------------------------------------------
(* HX_local_listen when the address is in use.                             *)

Stat(p) ==
    /\ proc[p].pc = "stat"
    /\ Set(p, CASE path = "none" -> Fail(p, "ENOENT")
                [] path = "file" -> Fail(p, "ENOTSOCK")
                [] OTHER -> [proc[p] EXCEPT !.pc = "testfd"])
    /\ UNCHANGED <<path, env, signals>>

TestSocket(p) ==
    /\ proc[p].pc = "testfd"
    /\ \/ Set(p, [proc[p] EXCEPT !.pc = "test", !.test = TRUE])
       \/ Set(p, Fail(p, "EMFILE"))
    /\ UNCHANGED <<path, env, signals>>

Answers == path \in Procs /\ proc[path].sk = "listening"

Mut_TestConnect(p) ==
    /\ proc[p].pc = "test"
    /\ Set(p, [proc[p] EXCEPT !.pc = "unlink", !.test = FALSE])
    /\ UNCHANGED <<path, env, signals>>

(* A connection shows that somebody is listening; any error is taken to    *)
(* show that nobody is.                                                    *)
TestConnect(p) ==
    /\ proc[p].pc = "test"
    /\ \/ Answers /\ Set(p, Fail(p, "EADDRINUSE"))
       \/ /\ ~Answers \/ signals
          /\ Set(p, [proc[p] EXCEPT !.pc = "unlink", !.test = FALSE])
    /\ UNCHANGED <<path, env, signals>>

UnlinkAddress(p) ==
    /\ proc[p].pc = "unlink"
    /\ \/ /\ path' = "none"
          /\ Set(p, [proc[p] EXCEPT !.pc = "socket", !.second = TRUE])
       \/ Set(p, Fail(p, "EACCES")) /\ UNCHANGED path
    /\ UNCHANGED <<env, signals>>

-----------------------------------------------------------------------------
(* The process closes what it got. *)
Stop(p) ==
    /\ proc[p].pc = "up"
    /\ Set(p, Fresh)
    /\ path' = Deserted(p)
    /\ UNCHANGED <<env, signals>>

(* Somebody puts a file at the address or tidies up there. *)
Elsewhere ==
    /\ path \in {"none", "file", "dead"}
    /\ path' \in {"none", "file"} \ {path}
    /\ UNCHANGED <<env, signals, proc>>

SocketNext ==
    \/ \E p \in Procs :
         \/ HX_local_listen(p) \/ HX_inet_listen(p) \/ HX_inet_connect(p)
         \/ NoAddress(p) \/ HX_socket_from_env(p) \/ Socket(p) \/ Bind(p) \/ Listen(p)
         \/ Fcntl(p) \/ Connect(p)
         \/ Stat(p) \/ TestSocket(p) \/ TestConnect(p) \/ UnlinkAddress(p)
         \/ Stop(p)
    \/ Elsewhere

SocketSpec == SocketInit /\ [][SocketNext]_socketvars

-----------------------------------------------------------------------------
(* A call that fails has closed every descriptor it opened and returns a   *)
(* negative value, never -0, which would be a descriptor; one that         *)
(* succeeds holds one descriptor, of the kind asked for and, if it         *)
(* listens, really listening.                                              *)
AnswerOK ==
    \A p \in Procs :
      LET r == proc[p]
      IN  /\ r.pc \in {"idle", "failed"} => r.sk = "none" /\ ~r.test
          /\ r.pc = "failed" => r.errno # "0"
          /\ r.pc \in {"stat", "testfd", "test", "unlink"} => r.sk = "none"
          /\ r.pc = "up" =>
               /\ ~r.test
               /\ r.sk \in IF r.op = "connect" THEN {"connected"} ELSE {"listening", "inherited"}

(* The local server that came up while no other process was in             *)
(* HX_local_listen keeps its address until it stops, whoever else asks for *)
(* it and in whatever order: the socket removed is never one that answers. *)
(* (Two at a time can take the address from each other, and so can one     *)
(* whose connect(2) fails for another reason than a dead socket.)          *)
KeepsAddress ==
    \A p \in Procs :
      LET r == proc[p]
      IN  r.pc = "up" /\ r.op = "local" /\ r.sk = "listening" /\ r.alone /\ ~signals => path = p

=============================================================================
