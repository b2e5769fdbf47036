----------------------------- MODULE HXrealpath ----------------------------
(***************************************************************************)
(* HX_realpath and HX_realpath_symres (io.c), one step per turn of the     *)
(* loop, on a tree of directories and symbolic links.                      *)
(*                                                                         *)
(* A path is a record: whether it starts with a slash, and its components, *)
(* repeated slashes being one.  state.dest is the sequence of its          *)
(* components with the flag of its first slash; the working directory "/"  *)
(* is one empty component, to which the code appends another slash.        *)
(***************************************************************************)
EXTENDS Integers, Sequences, SequencesExt

CONSTANTS
    Names,      \* names of files
    Locs,       \* the places of the tree: sequences of names
    Targets,    \* the paths that symbolic links may hold
    Flags,      \* the sets of flags given: subsets of {"ABSOLUTE", "SELF", "PARENT"}
    MaxComps,   \* bound: components of the path given
    MaxDeref    \* 40, the number of links followed

(* What a path is made of.  The empty component is in none that is given. *)
Given == Names \cup {".", ".."}
Components == Given \cup {""}

RealpathAssumption ==
    /\ Names \cap {"", ".", ".."} = {}
    /\ Locs \subseteq Seq(Names)
    /\ \A loc \in Locs : Len(loc) > 1 => Front(loc) \in Locs
    /\ Targets \subseteq [abs : BOOLEAN, comps : Seq(Given)]
    /\ MaxComps \in Nat /\ MaxDeref \in Nat

VARIABLES
    tree,       \* what is at each place: nothing, a directory, or a link
    cwd,        \* the working directory
    flags,      \* the third argument
    orig,       \* the path given
    left,       \* the components still to be looked at: path
    dest, dabs, \* state.dest and whether it starts with a slash
    rq_slash,
    deref,      \* state.deref_count
    outcome     \* "none" in the loop, "done", "ENOENT", "ELOOP", "outside"

rpvars == <<tree, cwd, flags, orig, left, dest, dabs, rq_slash, deref, outcome>>

Missing == [kind |-> "none"]
Directory == [kind |-> "dir"]
LinkTo(t) == [kind |-> "link", abs |-> t.abs, comps |-> t.comps]

(* What tree t has at a place; the root is not in Locs. *)
Found(t, loc) ==
    IF loc = <<>> THEN Directory ELSE IF loc \in Locs THEN t[loc] ELSE Missing

Upwards(loc) == IF loc = <<>> THEN loc ELSE Front(loc)

-----------------------------------------------------------------------------
(* The reference: the walk of the kernel along components from a place,    *)
(* when w[1] links may still be followed and the components w[2] are left. *)
(* An error is no place.                                                   *)

Nowhere(e) == <<"", e>>

(* From place loc by the first component, when f walks on. *)
Onward(t, f, w, loc) ==
    LET c == Head(w[2])
        child == Append(loc, c)
        here == Found(t, child)
        on == f[<<w[1], Tail(w[2])>>]
    IN  IF w[2] = <<>> THEN loc
        ELSE CASE c \in {"", "."} -> on[loc]
               [] c = ".." -> on[Upwards(loc)]
               [] c \in Names /\ here.kind = "none" -> Nowhere("ENOENT")
               [] c \in Names /\ here.kind = "dir" -> on[child]
               [] OTHER ->
                    IF w[1] = 0 THEN Nowhere("ELOOP")
                    ELSE f[<<w[1] - 1, here.comps \o Tail(w[2])>>][IF here.abs THEN <<>> ELSE loc]

Walk(t) ==
    LET walk[w \in (0 .. MaxDeref) \X Seq(Components)] ==
            [loc \in Seq(Names) |-> Onward(t, walk, w, loc)]
    IN  walk

(* The place a path leads to from the working directory. *)
Place(abs, comps) == Walk(tree)[<<MaxDeref, comps>>][IF abs THEN <<>> ELSE cwd]

-----------------------------------------------------------------------------
(* HX_realpath up to its loop, with a new or an empty buffer. *)
RealpathInit ==
    /\ tree \in [Locs -> {Missing, Directory} \cup {LinkTo(t) : t \in Targets}]
    /\ \A loc \in Locs : Len(loc) > 1 /\ tree[loc] # Missing => tree[Front(loc)] = Directory
    /\ cwd \in {loc \in Locs \cup {<<>>} : Found(tree, loc) = Directory}
    /\ flags \in Flags
    /\ orig \in [abs : BOOLEAN, comps : UNION {[1 .. n -> Given] : n \in 0 .. MaxComps}]
    /\ left = orig.comps
    /\ dabs = (~orig.abs /\ "ABSOLUTE" \in flags)
    /\ dest = IF ~dabs THEN <<>> ELSE IF cwd = <<>> THEN <<"">> ELSE cwd
    /\ rq_slash = (orig.abs \/ "ABSOLUTE" \in flags)
    /\ deref = 0
    /\ outcome = "none"

Looking == outcome = "none" /\ left # <<>>

IsSelf == Head(left) = "." /\ "SELF" \in flags

Self ==
    /\ Looking
    /\ IsSelf
    /\ left' = Tail(left)
    /\ UNCHANGED <<tree, cwd, flags, orig, dest, dabs, rq_slash, deref, outcome>>

IsParent ==
    /\ Head(left) = ".."
    /\ "PARENT" \in flags
    /\ "ABSOLUTE" \in flags \/ dest # <<>>

(* Everything from the last slash of dest is cut off, or all of it. *)
Parent ==
    /\ Looking
    /\ IsParent
    /\ left' = Tail(left)
    /\ dest' = IF dest = <<>> THEN <<>> ELSE Front(dest)
    /\ UNCHANGED <<tree, cwd, flags, orig, dabs, rq_slash, deref, outcome>>

(* dest as the system sees it when readlink(2) is called with it. *)
Dest(d, abs) ==
    LET n == Len(d)
        loc == Place(abs, SubSeq(d, 1, n - 1))
    IN  IF d[n] \in {"", ".", ".."} THEN Directory ELSE Found(tree, Append(loc, d[n]))

Mut_Symres(d, abs, link) ==
    /\ dest' = IF link.abs THEN <<>> ELSE d
    /\ dabs' = abs
    /\ left' = link.comps \o Tail(left)
    /\ deref' = deref + 1
    /\ UNCHANGED outcome

(* HX_realpath_symres on dest d: the link's target takes the place of its  *)
(* last component.  A relative target is looked for behind the last slash, *)
(* and when there is none, before the beginning of the buffer.             *)
Symres(d, abs, link) ==
    /\ deref' = deref + 1
    /\ IF deref >= MaxDeref
       THEN outcome' = "ELOOP" /\ UNCHANGED <<left, dest, dabs>>
       ELSE /\ dest' = IF link.abs THEN <<>> ELSE Front(d)
            /\ dabs' = abs
            /\ left' = link.comps \o Tail(left)
            /\ outcome' = IF ~link.abs /\ ~abs /\ Len(d) = 1 THEN "outside" ELSE outcome

(* Any other component is appended to dest and then looked up. *)
Component ==
    /\ Looking
    /\ ~IsSelf /\ ~IsParent
    /\ rq_slash' = TRUE
    /\ LET d == Append(dest, Head(left))
           abs == IF dest = <<>> THEN rq_slash ELSE dabs
           here == Dest(d, abs)
       IN  CASE here.kind = "none" -> outcome' = "ENOENT" /\ UNCHANGED <<left, dest, dabs, deref>>
             [] here.kind = "dir" -> /\ left' = Tail(left)
                                     /\ dest' = d
                                     /\ dabs' = abs
                                     /\ UNCHANGED <<deref, outcome>>
             [] here.kind = "link" -> Symres(d, abs, here)
    /\ UNCHANGED <<tree, cwd, flags, orig>>

(* The end of the path; an empty dest becomes "/" or ".". *)
Finish ==
    /\ outcome = "none"
    /\ left = <<>>
    /\ outcome' = "done"
    /\ IF dest = <<>>
       THEN /\ dest' = IF orig.abs THEN <<"">> ELSE <<".">>
            /\ dabs' = orig.abs
       ELSE UNCHANGED <<dest, dabs>>
    /\ UNCHANGED <<tree, cwd, flags, orig, left, rq_slash, deref>>

Returned == outcome # "none" /\ UNCHANGED rpvars

RealpathNext == Self \/ Parent \/ Component \/ Finish \/ Returned

RealpathSpec == RealpathInit /\ [][RealpathNext]_rpvars

-----------------------------------------------------------------------------
(* For an absolute path, and for any path with HX_REALPATH_ABSOLUTE,       *)
(* HX_realpath gives the place the kernel would reach with it, as an       *)
(* absolute path without links and without the components that the flags   *)
(* ask to resolve, and fails with the kernel's error when the kernel does: *)
(* a link in the middle, a link to a link, ".." after a link, a loop of    *)
(* links.  (Left out: resolving ".." but not ".", for which "/b/./.."      *)
(* becomes "/b", and a relative path that leads to the root, which becomes *)
(* ".".)                                                                   *)
SamePlace ==
    /\ orig.abs \/ "ABSOLUTE" \in flags
    /\ "PARENT" \in flags => "SELF" \in flags
    /\ outcome # "none"
    => LET loc == Place(orig.abs, orig.comps)
       IN  IF outcome = "done"
           THEN \/ /\ dabs /\ Place(TRUE, dest) = loc
                   /\ {"PARENT", "ABSOLUTE"} \subseteq flags =>
                        dest = loc \/ dest = <<"">> \o loc
                \/ dest = <<".">> /\ loc = <<>> /\ ~orig.abs
           ELSE loc = Nowhere(outcome)

=============================================================================
