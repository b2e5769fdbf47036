------------------------------ MODULE HXshconf -----------------------------
(***************************************************************************)
(* Reading shell-style configuration files (opt.c): HX_shconf_break and    *)
(* HX_shconfig with HX_shconf_assign, along the directories of             *)
(* HX_shconfig_pv, one step per line.                                      *)
(*                                                                         *)
(* The files are made of entries: a key with a value and the way in which  *)
(* the value is quoted, or something that is not an assignment.  Render    *)
(* writes a line of entries out as text, which is what the code sees.      *)
(***************************************************************************)
EXTENDS HXdequote, SequencesExt, FiniteSets, Functions

CONSTANTS
    Keys,       \* keys of the option table
    Foreign,    \* keys that are not in it
    Values,     \* values: sequences of characters
    Dirs,       \* the number of directories in the search path
    MaxEntries  \* bound: entries in all the files

VARIABLES
    files,      \* for each directory the lines of its file, <<>> where there is none
    one,        \* SHCONF_ONE
    dir, line,  \* where the reading is; directory 0 before it begins
    val,        \* what the option table's pointers hold
    count       \* ret of HX_shconfig_pv

vars == <<files, one, dir, line, val, count>>

Unset == <<"unset">>
Styles == {"bare", "double", "single"}
AnyKey == Keys \cup Foreign
Entries == {[key |-> k, value |-> v, style |-> st] : k \in AnyKey, v \in Values, st \in Styles}
             \cup {[key |-> "#", value |-> <<>>, style |-> "bare"],
                   [key |-> "1", value |-> <<>>, style |-> "bare"]}

Init ==
    /\ files = [d \in 1 .. Dirs |-> <<>>]
    /\ one \in BOOLEAN
    /\ dir = 0
    /\ line = 0
    /\ val = [k \in Keys |-> Unset]
    /\ count = 0

(* The files are being written: an entry on a line of its own or on the    *)
(* last line.                                                              *)
Size == FoldSeq(LAMBDA ls, n : n + Len(FlattenSeq(ls)), 0, files)

Write(d, e, new) ==
    /\ dir = 0
    /\ Size < MaxEntries
    /\ ~new => files[d] # <<>>
    /\ files' = [files EXCEPT ![d] = IF new THEN Append(@, <<e>>)
                                     ELSE Front(@) \o <<Append(Last(@), e)>>]
    /\ UNCHANGED <<one, dir, line, val, count>>

-----------------------------------------------------------------------------
(* How a value is quoted: in quotes the quote and the backslash are        *)
(* escaped, outside them everything that means something.                  *)
Escaped(v, S) == FlattenSeq([i \in DOMAIN v |-> IF v[i] \in S THEN <<"\\", v[i]>> ELSE <<v[i]>>])

Quoted(e) ==
    CASE e.style = "double" -> <<"\"">> \o Escaped(e.value, {"\"", "\\"}) \o <<"\"">>
      [] e.style = "single" -> <<"'">> \o Escaped(e.value, {"'", "\\"}) \o <<"'">>
      [] e.style = "bare" -> Escaped(e.value, {"\"", "'", "\\", " ", ";"})

Render(entries) ==
    FlattenSeq([i \in DOMAIN entries |->
      (IF i > 1 THEN <<";", " ">> ELSE <<" ">>) \o <<entries[i].key, "=">> \o Quoted(entries[i])])

-----------------------------------------------------------------------------
IsSpace(c) == c = " "
IsAlnum(c) == c \in AnyKey \cup {"1"}

(* The first index from i on at which the character is not one of the kind. *)
Skip(s, i, Kind(_)) ==
    LET stop == {j \in i .. Len(s) : ~Kind(s[j])}
    IN  IF stop = {} THEN Len(s) + 1 ELSE CHOOSE j \in stop : \A k \in stop : j <= k

RECURSIVE Break(_, _)

Mut_HX_shconf_break(s) ==
    LET lp == Skip(s, 1, LAMBDA c : IsSpace(c) \/ c = ";")
        eq == Skip(s, lp, IsAlnum)
    IN  IF lp > Len(s) \/ s[lp] \notin AnyKey \/ eq > Len(s) \/ s[eq] # "=" THEN <<>>
        ELSE <<<<s[lp], HXparse_dequote_int(SubSeq(s, eq + 1, Len(s)), {}).text>>>>

(* The assignments in what is left of a line from lp on.  A comment, the   *)
(* end, and anything that is not a key with "=" end it.                    *)
Break(s, from) ==
    LET lp == Skip(s, from, LAMBDA c : IsSpace(c) \/ c = ";")
        eq == Skip(s, lp, IsAlnum)
        value == HXparse_dequote_int(SubSeq(s, eq + 1, Len(s)), {"\t", "\n", " ", ";"})
    IN  IF lp > Len(s) \/ s[lp] \notin AnyKey \/ eq > Len(s) \/ s[eq] # "=" THEN <<>>
        ELSE <<<<s[lp], value.text>>>>
               \o IF value.next = 0 THEN <<>> ELSE Break(s, eq + value.next)

HX_shconf_break(s) == Break(s, 1)

(* HX_shconf_assign for each assignment: a key that is not in the table is *)
(* passed over.                                                            *)
Assigned(v, asgs) ==
    FoldLeft(LAMBDA f, a : IF a[1] \in Keys THEN [f EXCEPT ![a[1]] = a[2]] ELSE f, v, asgs)

(* HX_shconfig_pv turns to the next directory, or ends. *)
NextDir ==
    /\ dir < Dirs
    /\ dir > 0 => line = Len(files[dir])
    /\ ~(one /\ count > 0)
    /\ dir' = dir + 1
    /\ line' = 0
    /\ count' = IF files[dir + 1] = <<>> THEN count ELSE count + 1
    /\ UNCHANGED <<files, one, val>>

(* HX_shconfig reads a line. *)
ReadLine ==
    /\ dir > 0
    /\ line < Len(files[dir])
    /\ line' = line + 1
    /\ val' = Assigned(val, HX_shconf_break(Render(files[dir][line + 1])))
    /\ UNCHANGED <<files, one, dir, count>>

Finished ==
    /\ dir > 0
    /\ line = Len(files[dir])
    /\ dir = Dirs \/ (one /\ count > 0)

-----------------------------------------------------------------------------
Next ==
    \/ \E d \in 1 .. Dirs, e \in Entries, new \in BOOLEAN : Write(d, e, new)
    \/ NextDir \/ ReadLine
    \/ Finished /\ UNCHANGED vars

Spec == Init /\ [][Next]_vars

-----------------------------------------------------------------------------
(* The assignments of a line by what was written: up to the first entry    *)
(* that is not one.                                                        *)
Meant(l) ==
    LET bad == SelectInSeq(l, LAMBDA e : e.key \notin AnyKey)
    IN  IF bad = 0 THEN l ELSE SubSeq(l, 1, bad - 1)

(* When the reading has finished every key holds the last value that the   *)
(* files gave it, character for character whatever way it was quoted, from *)
(* all the files in order or, with SHCONF_ONE, from the first there is,    *)
(* and the number of files read is returned.  A key that is not in the     *)
(* table does not keep the rest of its line from being read.               *)
ConfigOK ==
    Finished =>
      LET there == {d \in 1 .. Dirs : files[d] # <<>>}
          used == {d \in there : one => \A c \in there : d <= c}
          all == FlattenSeq([d \in 1 .. Dirs |->
                   IF d \in used THEN FlattenSeq([i \in DOMAIN files[d] |-> Meant(files[d][i])])
                   ELSE <<>>])
      IN  /\ count = Cardinality(used)
          /\ \A k \in Keys :
               LET mine == SelectSeq(all, LAMBDA e : e.key = k)
               IN  val[k] = IF mine = <<>> THEN Unset ELSE Last(mine).value

=============================================================================
