-------------------------------- MODULE HXfs -------------------------------
(***************************************************************************)
(* HX_mkdir and HX_rrmdir (io.c) with HXdir_open, HXdir_read and           *)
(* HXdir_close, one step per system call, on a file system that other      *)
(* processes may change in between.  HX_rrmdir calls itself: the stack has *)
(* one frame for each call, the last being the innermost.                  *)
(* A frame holds its directory as a path, which is resolved anew at each   *)
(* call, through a link if one has been put in the directory's place.      *)
(***************************************************************************)
EXTENDS Integers, Sequences, SequencesExt, FiniteSets

CONSTANTS
    Root,       \* the directory that is made or removed, in one that always exists
    Tree,       \* the places of the file system at and below Root
    ParentOf,   \* the place above each of Tree except Root
    Link,       \* the one of Tree meant to be a symbolic link, to Out
    Out, Kept,  \* a directory elsewhere and the one file in it
    Same,       \* the places of Tree whose last name is that of Kept
    MaxPath     \* bound: the longest path given to HX_mkdir

FsAssumption ==
    /\ Root \in Tree /\ Link \in Tree \ {Root}
    /\ Out \notin Tree /\ Kept \notin Tree \cup {Out}
    /\ ParentOf \in [Tree \ {Root} -> Tree]
    /\ Same \subseteq Tree \ {Root}
    /\ \A m, n \in Same : ParentOf[m] = ParentOf[n] => m = n
    /\ MaxPath \in Nat

VARIABLES
    fs,         \* what is at each place: "none", "dir", "file" or "link"
    stuck,      \* the places at which unlink, rmdir and opendir are refused
    others,     \* what other processes do: "nothing", "make" entries, make
                \* and remove "anything", and that with "links" at any place
    stack,      \* the frames of HX_rrmdir
    todo,       \* the directories HX_mkdir has still to make
    at,         \* the next system call
    errno,
    ret,        \* what the last call returned: 0, 1 or -1 for an error
    was         \* what was at Root when the call began

fsvars == <<fs, stuck, others, stack, todo, at, errno, ret, was>>

Places == Tree \cup {Out, Kept}

Entries(d) == {n \in Tree \ {Root} : ParentOf[n] = d}

(* Where a path that ends at n leads when the last link is followed. *)
Followed(n) == IF fs[n] = "link" THEN Out ELSE n

(* What is there under the name of n on a path through d: nothing or one   *)
(* place, behind the link if d is one.                                     *)
There(d, n) ==
    {m \in Places : /\ fs[m] # "none"
                    /\ \/ fs[d] = "dir" /\ m = n /\ n # Kept
                       \/ fs[d] = "link" /\ m = Kept /\ n \in Same \cup {Kept}}

(* The names readdir can return of the directory that opendir finds at d,  *)
(* each given by the place in d that has it if there is one.               *)
NamesIn(d) ==
    LET alike == Same \cap Entries(d)
    IN  IF fs[d] # "link" THEN Entries(d)
        ELSE {n \in alike \cup {Kept} : fs[Kept] # "none" /\ (n = Kept => alike = {})}

FsInit ==
    /\ fs \in [Places -> {"none", "dir", "file", "link"}]
    /\ fs[Out] = "dir" /\ fs[Kept] = "file"
    /\ others \in {"nothing", "make", "anything", "links"}
    /\ \A n \in Tree : fs[n] # "none" /\ others # "links" => (fs[n] = "link" <=> n = Link)
    /\ \A n \in Tree \ {Root} : fs[n] # "none" => fs[ParentOf[n]] = "dir"
    /\ stuck \in {{}} \cup {{n} : n \in Tree}
    /\ stack = <<>>
    /\ todo = <<>>
    /\ at = "idle"
    /\ errno = "stale"
    /\ ret = 0
    /\ was = fs[Root]

(* Another process makes or removes an entry.  It puts a link in the place *)
(* of a directory by some of these steps in a row.                         *)
Make(n, kind) ==
    /\ others # "nothing"
    /\ fs[n] = "none"
    /\ n # Root => fs[ParentOf[n]] = "dir"
    /\ others # "links" => (kind = "link" <=> n = Link)
    /\ fs' = [fs EXCEPT ![n] = kind]
    /\ UNCHANGED <<stuck, others, stack, todo, at, errno, ret, was>>

Take(n) ==
    /\ others \in {"anything", "links"}
    /\ fs[n] # "none"
    /\ \A m \in Entries(n) : fs[m] = "none"
    /\ fs' = [fs EXCEPT ![n] = "none"]
    /\ UNCHANGED <<stuck, others, stack, todo, at, errno, ret, was>>

-----------------------------------------------------------------------------
(* HX_mkdir: one mkdir_gen for each prefix of the path.  Links in the      *)
(* place of directories are only put in the way of HX_rrmdir.              *)

HX_mkdir(path) ==
    /\ at = "idle"
    /\ others # "links"
    /\ at' = "mkdir"
    /\ todo' = path
    /\ was' = fs[Root]
    /\ UNCHANGED <<fs, stuck, others, stack, errno, ret>>

MkdirReturns(v) ==
    /\ at' = "idle"
    /\ todo' = <<>>
    /\ ret' = v

(* The next prefix, or the end of the loop. *)
NextPrefix ==
    IF Len(todo) = 1 THEN MkdirReturns(1)
    ELSE at' = "mkdir" /\ todo' = Tail(todo) /\ UNCHANGED ret

(* mkdir(2) makes the directory, finds something there, or is refused. *)
Mkdir ==
    LET n == Head(todo)
        there == n # Root => fs[ParentOf[n]] = "dir"
    IN  /\ at = "mkdir"
        /\ \/ /\ there /\ fs[n] = "none" /\ n \notin stuck
              /\ fs' = [fs EXCEPT ![n] = "dir"]
              /\ NextPrefix
              /\ UNCHANGED errno
           \/ /\ there /\ fs[n] # "none"
              /\ errno' = "EEXIST"
              /\ at' = "stat"
              /\ UNCHANGED <<fs, todo, ret>>
           \/ /\ ~there \/ (fs[n] = "none" /\ n \in stuck)
              /\ errno' = "EACCES"
              /\ MkdirReturns(-1)
              /\ UNCHANGED fs
        /\ UNCHANGED <<stuck, others, stack, was>>

Mut_MkdirStat ==
    /\ at = "stat"
    /\ MkdirReturns(-1)
    /\ UNCHANGED <<fs, stuck, others, stack, errno, was>>

(* mkdir_gen accepts what it finds if stat(2), which follows links, says   *)
(* that it is a directory.                                                 *)
MkdirStat ==
    /\ at = "stat"
    /\ IF fs[Followed(Head(todo))] = "dir" THEN NextPrefix ELSE MkdirReturns(-1)
    /\ UNCHANGED <<fs, stuck, others, stack, errno, was>>

-----------------------------------------------------------------------------
(* HX_rrmdir.                                                              *)

(* A call: its path, the names in what opendir found there and those of    *)
(* them that were in use then, those returned by readdir, the entry at     *)
(* hand and the value to return.                                           *)
Frame(d) ==
    [dir |-> d, names |-> {}, must |-> {}, seen |-> {}, cur |-> d, ret |-> 0]

Top == Last(stack)
SetTop(f) == Front(stack) \o <<f>>

HX_rrmdir ==
    /\ at = "idle"
    /\ at' = "opendir"
    /\ stack' = <<Frame(Root)>>
    /\ was' = fs[Root]
    /\ UNCHANGED <<fs, stuck, others, todo, errno, ret>>

(* The first error is kept; -errno is 0 if errno is. *)
Failed(f, e) == IF f.ret = 0 /\ e # "0" THEN [f EXCEPT !.ret = -1] ELSE f

(* A call returns v with errno e: the caller takes anything but a positive *)
(* value for a failure, and HX_rrmdir never returns one, but errno is      *)
(* then 0 unless something went wrong.                                     *)
Returns(v, e) ==
    /\ errno' = e
    /\ IF Len(stack) = 1
       THEN at' = "idle" /\ stack' = <<>> /\ ret' = v
       ELSE /\ at' = "readdir"
            /\ LET rest == Front(stack)
               IN  stack' = Front(rest) \o <<Failed(Last(rest), e)>>
            /\ UNCHANGED ret

(* HXdir_open: opendir(3) follows links. *)
Opendir ==
    LET d == Top.dir
    IN  /\ at = "opendir"
        /\ IF fs[Followed(d)] = "dir" /\ Followed(d) \notin stuck
           THEN /\ stack' = SetTop([Top EXCEPT
                       !.names = NamesIn(d),
                       !.must = {n \in NamesIn(d) : There(d, n) # {}}])
                /\ at' = "readdir"
                /\ UNCHANGED <<errno, ret>>
           ELSE Returns(-1, "ENOENT")
        /\ UNCHANGED <<fs, stuck, others, todo, was>>

Mut_ReadErrno == errno

(* HXdir_read clears errno before it asks for the next entry. *)
ReadErrno == "0"

(* readdir(3) returns each entry there was at opendir once, be it there    *)
(* still or not, and maybe entries made since.                             *)
Readdir ==
    /\ at = "readdir"
    /\ errno' = ReadErrno
    /\ \/ \E n \in Top.names \ Top.seen :
            /\ n \in Top.must \/ fs[n] # "none"
            /\ stack' = SetTop([Top EXCEPT !.seen = @ \cup {n}, !.cur = n])
            /\ at' = "lstat"
       \/ /\ Top.must \subseteq Top.seen
          /\ at' = "rmdir"
          /\ UNCHANGED stack
    /\ UNCHANGED <<fs, stuck, others, todo, ret, was>>

(* What lstat(2) says of the entry at hand, or unlink(2) of what it takes. *)
KindAtHand == {fs[m] : m \in There(Top.dir, Top.cur)}

Lstat ==
    /\ at = "lstat"
    /\ CASE KindAtHand = {} ->
              /\ stack' = SetTop(Failed(Top, "ENOENT"))
              /\ errno' = "ENOENT"
              /\ at' = "readdir"
         [] KindAtHand = {"dir"} ->
              /\ stack' = Append(stack, Frame(Top.cur))
              /\ at' = "opendir"
              /\ UNCHANGED errno
         [] OTHER -> at' = "unlink" /\ UNCHANGED <<stack, errno>>
    /\ UNCHANGED <<fs, stuck, others, todo, ret, was>>

UnlinkEntry ==
    LET taken == {m \in There(Top.dir, Top.cur) : fs[m] # "dir" /\ m \notin stuck}
    IN  /\ at = "unlink"
        /\ at' = "readdir"
        /\ IF taken # {}
           THEN /\ fs' = [n \in Places |-> IF n \in taken THEN "none" ELSE fs[n]]
                /\ UNCHANGED <<stack, errno>>
           ELSE stack' = SetTop(Failed(Top, "EPERM")) /\ errno' = "EPERM" /\ UNCHANGED fs
        /\ UNCHANGED <<stuck, others, todo, ret, was>>

(* rmdir(2), which follows no link, and HXdir_close. *)
Rmdir ==
    LET d == Top.dir
    IN  /\ at = "rmdir"
        /\ IF fs[d] = "dir" /\ d \notin stuck /\ \A n \in Entries(d) : fs[n] = "none"
           THEN fs' = [fs EXCEPT ![d] = "none"] /\ Returns(Top.ret, errno)
           ELSE UNCHANGED fs /\ Returns(Failed(Top, "ENOTEMPTY").ret, "ENOTEMPTY")
        /\ UNCHANGED <<stuck, others, todo, was>>

-----------------------------------------------------------------------------
(* The paths given to HX_mkdir, each by its prefixes in their order. *)
Paths ==
    {p \in SeqOf(Tree \ {Link}, MaxPath) :
       /\ p # <<>> /\ p[1] = Root
       /\ \A i \in 2 .. Len(p) : p[i] # Root /\ ParentOf[p[i]] = p[i - 1]}

Steps == Mkdir \/ MkdirStat \/ Opendir \/ Readdir \/ Lstat \/ UnlinkEntry \/ Rmdir

FsNext ==
    \/ \E n \in Tree : Take(n) \/ \E kind \in {"dir", "file", "link"} : Make(n, kind)
    \/ \E path \in Paths : HX_mkdir(path)
    \/ HX_rrmdir
    \/ Steps

FsSpec == FsInit /\ [][FsNext]_fsvars

-----------------------------------------------------------------------------
(* What a step may do that ends a call of HX_rrmdir, or any other. *)
RemoveStep ==
    /\ others # "links" => fs'[Out] = "dir" /\ fs'[Kept] = "file"
    /\ stack # <<>> /\ stack' = <<>> =>
         /\ ret' = 0 => fs'[Root] = "none"
         /\ others = "nothing" /\ stuck = {} /\ was = "dir" => ret' = 0

(* HX_rrmdir returns 0 only when the directory has gone, and does so for   *)
(* every tree that nobody else touches and in which nothing is refused,    *)
(* though each inner call's 0 is taken for a failure.  (The first half is  *)
(* about the step in which it returns.)  It removes symbolic links and     *)
(* never what they lead to, as long as others put no link in the place of  *)
(* a directory: one put there between lstat(2) and opendir(3), or between  *)
(* readdir(3) and unlink(2), is followed, and so is the caller's own path. *)
RemoveOK == [][RemoveStep]_fsvars

(* What a step may do that ends a call of HX_mkdir. *)
MakeStep ==
    todo # <<>> /\ todo' = <<>> =>
      LET n == Head(todo)
      IN  /\ ret' = 1 /\ others # "anything" => fs'[Followed(n)] = "dir"
          /\ ret' = -1 /\ others # "anything" =>
               stuck # {} \/ \E m \in Tree : fs[m] \in {"file", "link"}

(* HX_mkdir succeeds on every path without a refusal or another kind of    *)
(* file in the way, also when others make the same directories at the same *)
(* time, and when it succeeds while nobody removes anything the directory  *)
(* is there.                                                               *)
MakeOK == [][MakeStep]_fsvars

=============================================================================
