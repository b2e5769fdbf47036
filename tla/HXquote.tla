------------------------------- MODULE HXquote ------------------------------
(***************************************************************************)
(* HX_strquote (string.c): the size of a quoted text is computed in one    *)
(* pass, memory of that size is allocated, and another pass writes.        *)
(* Texts are sequences of character codes, none of which is 0; the only    *)
(* state is the text, made character by character.                         *)
(***************************************************************************)
EXTENDS Integers, FiniteSetsExt, SequencesExt

CONSTANTS
    Codes,      \* the characters of texts
    MaxLen      \* bound: length of a text

VARIABLE text

Types == {"SQUOTE", "DQUOTE", "HTML", "LDAPFLT", "LDAPRDN", "URIENC", "BASE64"}

(* HX_quote_rules: the characters to quote.  Those of HXQUOTE_URIENC are   *)
(* all but - . 0-9 A-Z _ a-z ~                                             *)
Alnum == (48 .. 57) \cup (65 .. 90) \cup (97 .. 122)
HX_quote_rules ==
    [SQUOTE  |-> {39, 92},
     DQUOTE  |-> {34, 92},
     HTML    |-> {34, 38, 60, 62},
     LDAPFLT |-> {10, 40, 41, 42, 92},
     LDAPRDN |-> {10, 32, 34, 35, 43, 44, 59, 60, 61, 62, 92},
     URIENC  |-> (1 .. 255) \ (Alnum \cup {45, 46, 95, 126}),
     BASE64  |-> 1 .. 255]

Entity == [c \in {34, 38, 60, 62} |->
             CASE c = 34 -> <<38, 113, 117, 111, 116, 59>>
               [] c = 38 -> <<38, 97, 109, 112, 59>>
               [] c = 60 -> <<38, 108, 116, 59>>
               [] c = 62 -> <<38, 103, 116, 59>>]

HX_hexenc(n) == IF n < 10 THEN 48 + n ELSE 55 + n

(* The position in the alphabet of HX_quote_base64 is the code; = is 61 in *)
(* all three of them, which differ in the last two characters.             *)
Base64 == [n \in 0 .. 63 |->
             CASE n <= 25 -> 65 + n
               [] n >= 26 /\ n <= 51 -> 71 + n
               [] n >= 52 /\ n <= 61 -> n - 4
               [] n = 62 -> 43
               [] n = 63 -> 47]

-----------------------------------------------------------------------------
(* The first pass. *)

Hits(s, type) == Cardinality({i \in DOMAIN s : s[i] \in HX_quote_rules[type]})

HX_qsize_bsr(s, type, cost) == Len(s) + cost * Hits(s, type)

HX_qsize_bsa(s, type, cost) == Len(s) + cost * Hits(s, type)

HX_qsize_html(s) ==
    Len(s) + MapThenSumSet(LAMBDA i : CASE s[i] = 34 -> 5
                                        [] s[i] = 38 -> 4
                                        [] OTHER -> 3,
                           {i \in DOMAIN s : s[i] \in HX_quote_rules["HTML"]})

Mut_HX_quoted_size(s, type) ==
    CASE type \in {"SQUOTE", "DQUOTE"} -> HX_qsize_bsr(s, type, 1)
      [] type = "HTML" -> HX_qsize_html(s)
      [] type \in {"LDAPFLT", "LDAPRDN"} -> HX_qsize_bsr(s, type, 2)
      [] type = "BASE64" -> (4 * Len(s) + 2) \div 3
      [] type = "URIENC" -> HX_qsize_bsa(s, type, 2)

HX_quoted_size(s, type) ==
    CASE type \in {"SQUOTE", "DQUOTE"} -> HX_qsize_bsr(s, type, 1)
      [] type = "HTML" -> HX_qsize_html(s)
      [] type \in {"LDAPFLT", "LDAPRDN"} -> HX_qsize_bsr(s, type, 2)
      [] type = "BASE64" -> 4 * ((Len(s) + 2) \div 3)
      [] type = "URIENC" -> HX_qsize_bsa(s, type, 2)

-----------------------------------------------------------------------------
(* The second pass: runs of plain characters are copied, the others go     *)
(* through quote.                                                          *)
Copied(s, type, quote(_)) ==
    FlattenSeq([i \in DOMAIN s |-> IF s[i] \in HX_quote_rules[type] THEN quote(s[i]) ELSE <<s[i]>>])

Hex(mark, c) == <<mark, HX_hexenc(c \div 16), HX_hexenc(c % 16)>>

HX_quote_backslash(s, type) == Copied(s, type, LAMBDA c : <<92, c>>)

HX_quote_html(s) == Copied(s, "HTML", LAMBDA c : Entity[c])

HX_quote_ldap(s, type) == Copied(s, type, LAMBDA c : Hex(92, c))

HX_quote_urlenc(s) == Copied(s, "URIENC", LAMBDA c : Hex(37, c))

RECURSIVE HX_quote_base64(_)
HX_quote_base64(s) ==
    LET a == Base64[s[1] \div 4]
    IN  CASE s = <<>> -> <<>>
          [] Len(s) = 1 -> <<a, Base64[(s[1] % 4) * 16], 61, 61>>
          [] Len(s) = 2 -> <<a, Base64[(s[1] % 4) * 16 + s[2] \div 16],
                             Base64[(s[2] % 16) * 4], 61>>
          [] Len(s) >= 3 -> <<a, Base64[(s[1] % 4) * 16 + s[2] \div 16],
                              Base64[(s[2] % 16) * 4 + s[3] \div 64], Base64[s[3] % 64]>>
                            \o HX_quote_base64(SubSeq(s, 4, Len(s)))

Written(s, type) ==
    CASE type \in {"SQUOTE", "DQUOTE"} -> HX_quote_backslash(s, type)
      [] type = "HTML" -> HX_quote_html(s)
      [] type \in {"LDAPFLT", "LDAPRDN"} -> HX_quote_ldap(s, type)
      [] type = "BASE64" -> HX_quote_base64(s)
      [] type = "URIENC" -> HX_quote_urlenc(s)

(* size is the allocation without the NUL byte; a text with nothing to     *)
(* quote is given back, or copied by HX_strdup, as it is.                  *)
HX_strquote(s, type) ==
    IF type # "BASE64" /\ Hits(s, type) = 0
    THEN [size |-> Len(s), text |-> s]
    ELSE [size |-> HX_quoted_size(s, type), text |-> Written(s, type)]

-----------------------------------------------------------------------------
Init == text = <<>>

Next == Len(text) < MaxLen /\ \E c \in Codes : text' = Append(text, c)

Spec == Init /\ [][Next]_text

-----------------------------------------------------------------------------
(* The readers of quoted texts. *)
Nibble(h) == IF h < 58 THEN h - 48 ELSE h - 55

(* Between quotes a quote without a backslash ends the text. *)
RECURSIVE Unescape(_, _), Unhex(_, _), Unhtml(_), Unbase64(_)
Unescape(q, quote) ==
    IF q = <<>> \/ q[1] = quote THEN <<>>
    ELSE IF q[1] # 92 THEN <<q[1]>> \o Unescape(Tail(q), quote)
    ELSE <<q[2]>> \o Unescape(SubSeq(q, 3, Len(q)), quote)

Unhex(q, mark) ==
    IF q = <<>> THEN <<>>
    ELSE IF q[1] # mark THEN <<q[1]>> \o Unhex(Tail(q), mark)
    ELSE <<16 * Nibble(q[2]) + Nibble(q[3])>> \o Unhex(SubSeq(q, 4, Len(q)), mark)

Unhtml(q) ==
    IF q = <<>> THEN <<>>
    ELSE IF q[1] # 38 THEN <<q[1]>> \o Unhtml(Tail(q))
    ELSE LET c == CHOOSE c \in DOMAIN Entity : IsPrefix(Entity[c], q)
         IN  <<c>> \o Unhtml(SubSeq(q, Len(Entity[c]) + 1, Len(q)))

Unbase64(q) ==
    IF q = <<>> THEN <<>>
    ELSE LET v == [i \in 1 .. 4 |-> IF q[i] = 61 THEN 0 ELSE CHOOSE n \in 0 .. 63 : Base64[n] = q[i]]
             b == <<v[1] * 4 + v[2] \div 16, (v[2] % 16) * 16 + v[3] \div 4, (v[3] % 4) * 64 + v[4]>>
             pad == Cardinality({i \in 1 .. 4 : q[i] = 61})
         IN  SubSeq(b, 1, 3 - pad) \o Unbase64(SubSeq(q, 5, Len(q)))

Read(q, type) ==
    CASE type = "SQUOTE" -> Unescape(q, 39)
      [] type = "DQUOTE" -> Unescape(q, 34)
      [] type = "HTML" -> Unhtml(q)
      [] type \in {"LDAPFLT", "LDAPRDN"} -> Unhex(q, 92)
      [] type = "BASE64" -> Unbase64(q)
      [] type = "URIENC" -> Unhex(q, 37)

(* What the second pass of HX_strquote writes is exactly as long as the    *)
(* first pass computed, no quote, bracket or blank that the type guards    *)
(* against is left in it, and a reader of the type gets the text back.     *)
QuotedOK ==
    \A type \in Types :
      LET q == HX_strquote(text, type)
      IN  /\ Len(q.text) = q.size
          /\ Read(q.text, type) = text
          /\ type \notin {"SQUOTE", "DQUOTE", "BASE64"} =>
               ToSet(q.text) \cap HX_quote_rules[type] \subseteq {37, 38, 92}

=============================================================================
