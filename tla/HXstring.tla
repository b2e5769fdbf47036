------------------------------ MODULE HXstring ------------------------------
(***************************************************************************)
(* String functions (string.c) and HX_addrport_split (socket.c) as         *)
(* functions of texts.  A text is a sequence of characters; a pointer into *)
(* it is an index, 0 being NULL, and the terminating NUL byte is what lies *)
(* behind the last index.  The only state is the text, which any program   *)
(* makes character by character.                                           *)
(***************************************************************************)
EXTENDS Integers, FiniteSetsExt, SequencesExt

CONSTANTS
    Chars,      \* the characters of texts
    MaxLen,     \* bound: length of a text
    MAXLNLEN,   \* size of HX_getl's buffer
    LONG_MAX    \* largest long; SIZE_MAX is 2 * LONG_MAX + 1

VARIABLE text

NULL == <<"NULL">>
LONG_MIN == -LONG_MAX - 1
SIZE_MAX == 2 * LONG_MAX + 1

(* Truncation to size_t. *)
Size(n) == n % (SIZE_MAX + 1)

(* The last and the first index of s in from .. to whose character is in   *)
(* the set; 0 and Len(s) + 1 if there is none.                             *)
LastIn(s, to, set) == Max({0} \cup {i \in 1 .. to : s[i] \in set})
FirstIn(s, from, set) == Min({Len(s) + 1} \cup {i \in from .. Len(s) : s[i] \in set})

Not(set) == Chars \ set
Upto(s, i) == SubSeq(s, 1, i)
From(s, i) == SubSeq(s, i, Len(s))

-----------------------------------------------------------------------------
(* Paths. *)

HX_strbchr(s, now, d) == LastIn(s, now, {d})

HX_basename(s) ==
    LET p == LastIn(s, Len(s), Not({"/"}))
    IN  IF p = 0 THEN From(s, Len(s)) ELSE From(s, HX_strbchr(s, p, "/") + 1)

HX_basename_exact(s) ==
    LET end == LastIn(s, Len(s), Not({"/"}))
    IN  IF s = <<>> THEN <<".">>
        ELSE IF end = 0 THEN <<"/">>
        ELSE SubSeq(s, HX_strbchr(s, end, "/") + 1, end)

Mut_HX_dirname(s) ==
    IF s = <<>> THEN <<".">>
    ELSE LET stop == HX_strbchr(s, Len(s), "/")
         IN  IF stop = 0 THEN <<".">> ELSE Upto(s, Max({1, LastIn(s, stop, Not({"/"}))}))

HX_dirname(s) ==
    IF s = <<>> THEN <<".">>
    ELSE LET last == Max({1, LastIn(s, Len(s), Not({"/"}))})
             stop == HX_strbchr(s, last, "/")
         IN  IF stop = 0 THEN <<".">> ELSE Upto(s, Max({1, LastIn(s, stop, Not({"/"}))}))

-----------------------------------------------------------------------------
(* Splitting at the characters of delim. *)

RECURSIVE HX_split_fixed(_, _, _)
HX_split_fixed(s, delim, max) ==
    LET p == FirstIn(s, 1, delim)
    IN  IF max <= 1 \/ p > Len(s) THEN <<s>>
        ELSE <<Upto(s, p - 1)>> \o HX_split_fixed(From(s, p + 1), delim, max - 1)

(* The number of fields, as HX_split and HX_split_inplace count it. *)
Count(s, delim, max) ==
    LET n == 1 + Cardinality({i \in DOMAIN s : s[i] \in delim})
    IN  IF max > 0 /\ n >= max THEN max ELSE n

HX_split_inplace(s, delim, max) == HX_split_fixed(s, delim, Count(s, delim, max))

(* strtok_r passes over delimiters before it takes characters up to the    *)
(* next one; without any it gives NULL.                                    *)
StrtokR(s, delim) ==
    LET a == FirstIn(s, 1, Not(delim))
        e == FirstIn(s, a, delim)
    IN  IF a > Len(s) THEN [tok |-> NULL, rest |-> <<>>]
        ELSE [tok |-> SubSeq(s, a, e - 1), rest |-> From(s, e + 1)]

RECURSIVE Tokens(_, _, _)
Tokens(s, delim, n) ==
    IF n = 1 THEN <<s>>
    ELSE <<StrtokR(s, delim).tok>> \o Tokens(StrtokR(s, delim).rest, delim, n - 1)

(* HX_split: the vector without the NULL at its end, whose length is *cp. *)
HX_split(s, delim, max) == Tokens(s, delim, Count(s, delim, max))

(* HX_strsep2 with a delimiter string, called until *wp is NULL. *)
RECURSIVE HX_strsep2(_, _)
HX_strsep2(s, str) ==
    LET at == {i \in 1 .. Len(s) - Len(str) + 1 : SubSeq(s, i, i + Len(str) - 1) = str}
    IN  IF at = {} THEN <<s>>
        ELSE <<Upto(s, Min(at) - 1)>> \o HX_strsep2(From(s, Min(at) + Len(str)), str)

-----------------------------------------------------------------------------
(* Trimming, searching, parts of texts, lines. *)

HX_chomp(s) == Upto(s, LastIn(s, Len(s), Not({"\n", "\r"})))

HX_strrtrim(s) == Upto(s, LastIn(s, Len(s), Not({" ", "\n", "\r"})))

HX_strltrim(s) == From(s, FirstIn(s, 1, Not({" ", "\n", "\r"})))

(* Candidates for the end of a match, from index tail on. *)
RECURSIVE MemScan(_, _, _)
MemScan(s, point, tail) ==
    LET t == FirstIn(s, tail, {Last(point)})
    IN  IF t > Len(s) THEN 0
        ELSE IF SubSeq(s, t - Len(point) + 1, t) = point THEN t - Len(point) + 1
        ELSE MemScan(s, point, t + 1)

HX_memmem(s, point) ==
    IF point = <<>> THEN 1
    ELSE IF Len(point) > Len(s) THEN 0
    ELSE MemScan(s, point, Len(point))

(* start counts from 0; with the length that is left to copy. *)
HX_substr_helper(z, offset, len) ==
    LET start == IF offset >= 0 THEN offset
                 ELSE IF offset = LONG_MIN THEN Size(z - LONG_MIN)
                 ELSE IF z >= -offset THEN z + offset ELSE z
        end == IF len >= 0 THEN (IF start < SIZE_MAX - len THEN start + len ELSE SIZE_MAX)
               ELSE IF len = LONG_MIN THEN Size(z - LONG_MIN)
               ELSE IF z >= -len THEN z + len ELSE 0
        stop == Min({end, z})
    IN  [start |-> start, len |-> IF stop > start THEN stop - start ELSE 0]

HX_strmid(s, offset, len) ==
    LET r == HX_substr_helper(Len(s), offset, len) IN SubSeq(s, r.start + 1, r.start + r.len)

(* fgets: up to a newline, or as much as goes into the buffer. *)
Fgets(f) == Upto(f, Min({FirstIn(f, 1, {"\n"}), Len(f), MAXLNLEN - 1}))

RECURSIVE HX_getl(_)
HX_getl(f) ==
    LET temp == Fgets(f)
    IN  IF f = <<>> \/ Contains(temp, "\n") THEN temp
        ELSE temp \o HX_getl(From(f, Len(temp) + 1))

-----------------------------------------------------------------------------
(* HX_addrport_split.  Digits are the characters "1" and "2"; a port has   *)
(* PortMax + 1 values.                                                     *)
PortMax == 15
Digit == [d \in {"1", "2"} |-> IF d = "1" THEN 1 ELSE 2]

RECURSIVE Strtoul(_)
Strtoul(s) == IF s = <<>> THEN 0 ELSE 10 * Strtoul(Front(s)) + Digit[Last(s)]

Host(rc, host, port) == [rc |-> rc, host |-> host, port |-> port]
NoHost == Host(-1, <<>>, -1)

(* The port is the number in the rest of the text, for which strtoul       *)
(* passes over white space, or nothing of the text is taken.               *)
WithPort(host, s) ==
    LET n == HX_strltrim(s)
    IN  IF ToSet(n) \subseteq DOMAIN Digit /\ (n = <<>> => s = <<>>)
        THEN Host(2, host, Strtoul(n) % (PortMax + 1)) ELSE NoHost

HX_addrport_split(s, hbufsz) ==
    LET end == FirstIn(s, 1, {"]"})
        c == FirstIn(s, 1, {":"})
        one == Cardinality({i \in DOMAIN s : s[i] = ":"}) = 1
    IN  CASE s # <<>> /\ s[1] = "[" ->
               IF end > Len(s) \/ end - 2 >= hbufsz THEN NoHost
               ELSE IF end = Len(s) THEN Host(1, SubSeq(s, 2, end - 1), -1)
               ELSE IF s[end + 1] # ":" THEN NoHost
               ELSE WithPort(SubSeq(s, 2, end - 1), From(s, end + 2))
          [] (s = <<>> \/ s[1] # "[") /\ one ->
               IF c - 1 >= hbufsz THEN NoHost ELSE WithPort(Upto(s, c - 1), From(s, c + 1))
          [] OTHER -> IF Len(s) + 1 >= hbufsz THEN NoHost ELSE Host(1, s, -1)

-----------------------------------------------------------------------------
Init == text = <<>>

Next == Len(text) < MaxLen /\ \E c \in Chars : text' = Append(text, c)

Spec == Init /\ [][Next]_text

-----------------------------------------------------------------------------
(* The names in a path, and whether it starts at the root. *)
Comps(s) == SelectSeq(HX_strsep2(s, <<"/">>), LAMBDA f : f \notin {<<>>, <<".">>})
Rooted(s) == s # <<>> /\ s[1] = "/"

(* HX_dirname and HX_basename_exact take a path apart: the first names the *)
(* directory, with the same root, and the second the last name in it,      *)
(* which HX_basename gives with the slashes behind it.                     *)
PathsOK ==
    LET c == Comps(text)  d == HX_dirname(text)  b == HX_basename_exact(text)
    IN  /\ Comps(d) = (IF c = <<>> THEN <<>> ELSE Front(c))
        /\ Rooted(d) = Rooted(text)
        /\ c # <<>> => /\ b = Last(c)
                       /\ IsPrefix(b, HX_basename(text)) /\ IsSuffix(HX_basename(text), text)
                       /\ ToSet(From(HX_basename(text), Len(b) + 1)) \subseteq {"/"}
        /\ (c = <<>> /\ text # <<>>) => b = <<"/">> /\ HX_basename(text) = <<"/">>

(* Splitting loses nothing, however few fields there may be: all but the   *)
(* last are free of delimiters, it is only when the fields run out that    *)
(* the last is not, and they give the text again.  HX_strsep2 agrees.      *)
SplitOK ==
    \A max \in 0 .. MaxLen :
      LET f == HX_split_inplace(text, {":"}, max)
          joined == FoldLeft(LAMBDA a, b : a \o <<":">> \o b, Head(f), Tail(f))
      IN  /\ joined = text
          /\ max > 0 => Len(f) <= max
          /\ \A i \in DOMAIN f : Contains(f[i], ":") => i = Len(f) /\ i = max
          /\ max = 0 => HX_strsep2(text, <<":">>) = f

(* HX_split counts the fields like HX_split_inplace but takes them with    *)
(* strtok_r.  The two agree wherever no field but the last is empty; and   *)
(* where one is, HX_split loses nothing but delimiters, has as many        *)
(* entries, and fills up with NULL only when all of the text is taken.     *)
TokensOK ==
    \A max \in 0 .. MaxLen :
      LET v == HX_split(text, {":"}, max)
          f == HX_split_inplace(text, {":"}, max)
          Bare(s) == SelectSeq(s, LAMBDA c : c # ":")
      IN  /\ Len(v) = Len(f)
          /\ (\A i \in 1 .. Len(f) - 1 : f[i] # <<>>) => v = f
          /\ Bare(FlattenSeq(SelectSeq(v, LAMBDA t : t # NULL))) = Bare(text)
          /\ \A i, j \in DOMAIN v : v[i] = NULL /\ i < j => v[j] \in {NULL, <<>>}

(* Parts: HX_strmid never copies from outside the text and gives what its  *)
(* documentation says for offsets and lengths of either sign (except the   *)
(* length LONG_MIN, which leaves nothing out at the end); HX_memmem        *)
(* finds the first occurrence; the trimming functions remove all white     *)
(* space of their side and nothing else.                                   *)
PartsOK ==
    LET z == Len(text)
    IN  /\ \A o \in LONG_MIN .. LONG_MAX, l \in LONG_MIN + 1 .. LONG_MAX :
             LET from == IF o >= 0 THEN o ELSE z + o
                 to == IF l >= 0 THEN from + l ELSE z + l
             IN  HX_strmid(text, o, l) = IF from < 0 THEN <<>> ELSE SubSeq(text, from + 1, Min({z, to}))
        /\ \A p \in {<<>>} \cup {<<a>> : a \in Chars} \cup {<<a, b>> : a, b \in Chars} :
             LET at == {i \in 1 .. z - Len(p) + 1 : SubSeq(text, i, i + Len(p) - 1) = p}
             IN  HX_memmem(text, p) = IF at = {} THEN 0 ELSE Min(at)
        /\ \E n \in 0 .. z : /\ text = HX_strrtrim(text) \o From(text, z - n + 1)
                             /\ ToSet(From(text, z - n + 1)) \subseteq {" ", "\n"}
        /\ text # <<>> => /\ IsPrefix(HX_chomp(text), text)
                          /\ HX_strltrim(HX_strrtrim(text)) = HX_strrtrim(HX_strltrim(text))

(* HX_getl reads a line through its newline, however much longer than its  *)
(* buffer it is.                                                           *)
LinesOK ==
    LET n == FirstIn(text, 1, {"\n"}) IN HX_getl(text) = Upto(text, Min({n, Len(text)}))

(* HX_addrport_split: what it takes as host fits into the buffer with its  *)
(* NUL byte; text in brackets or without colons is a host as it stands,    *)
(* and a port is given only with a colon behind the host.  No digits give  *)
(* port 0 and the result 2, also for "[]:", of which tc-socket.c:31 wants  *)
(* the result 1; this follows socket.c:103-114.                            *)
HostsOK ==
    \A hbufsz \in 0 .. MaxLen + 1 :
      LET r == HX_addrport_split(text, hbufsz)
      IN  r.rc >= 0 =>
            /\ Len(r.host) < hbufsz
            /\ \/ r.rc = 1 /\ text \in {r.host, <<"[">> \o r.host \o <<"]">>}
               \/ /\ r.rc = 2
                  /\ \E i \in DOMAIN text :
                       /\ text[i] = ":"
                       /\ Upto(text, i - 1) \in {r.host, <<"[">> \o r.host \o <<"]">>}
                       /\ Strtoul(HX_strltrim(From(text, i + 1))) % (PortMax + 1) = r.port

(* All of them. *)
TextsOK == PathsOK /\ SplitOK /\ TokensOK /\ PartsOK /\ LinesOK /\ HostsOK

=============================================================================
