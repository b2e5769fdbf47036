------------------------------ MODULE HXdequote ----------------------------
(***************************************************************************)
(* Quoting as the option parser's configuration files and the formatter    *)
(* know it: HXparse_dequote_int and HXparse_dequote_fmt (opt.c).  A text   *)
(* is a sequence of characters; index 0 stands for the null pointer.       *)
(***************************************************************************)
EXTENDS Integers, Sequences

Quotes == {"\"", "'"}

RECURSIVE Dequoting(_, _, _, _, _)

(* The loop of HXparse_dequote_int at index i, with what is written.  One  *)
(* of the characters in end terminates it outside quotes.                  *)
Dequoting(s, end, i, quot, out) ==
    IF i > Len(s) THEN [text |-> out, next |-> 0]
    ELSE LET c == s[i]
         IN  CASE c = "\\" -> IF i < Len(s)
                              THEN Dequoting(s, end, i + 2, quot, Append(out, s[i + 1]))
                              ELSE Dequoting(s, end, i + 1, quot, out)
               [] c # "\\" /\ quot = "" /\ c \in Quotes -> Dequoting(s, end, i + 1, c, out)
               [] quot = "" /\ c \in end -> [text |-> out, next |-> i + 1]
               [] quot # "" /\ c = quot -> Dequoting(s, end, i + 1, "", out)
               [] OTHER -> Dequoting(s, end, i + 1, quot, Append(out, c))

HXparse_dequote_int(s, end) == Dequoting(s, end, 1, "", <<>>)

(* One turn of the search of HXparse_dequote_fmt for the end of the        *)
(* argument, as it leaves i, quot and level, and whether it is the last.   *)
FmtTurn(s, end, t) ==
    LET c == s[t.i]
        two == IF t.i < Len(s) THEN 2 ELSE 0
    IN  CASE t.quot = "" /\ c \in Quotes -> [t EXCEPT !.i = @ + 1, !.quot = c]
          [] t.quot = "" /\ c = "\\" -> [t EXCEPT !.i = @ + two]
          [] t.quot = "" /\ c = "(" -> [t EXCEPT !.i = @ + 1, !.level = @ + 1]
          [] t.quot = "" /\ t.level = 0 /\ c \in end -> [t EXCEPT !.last = TRUE]
          [] t.quot = "" /\ t.level > 0 /\ c = ")" -> [t EXCEPT !.i = @ + 1, !.level = @ - 1]
          [] t.quot # "" /\ c = t.quot -> [t EXCEPT !.i = @ + 1, !.quot = ""]
          [] t.quot # "" /\ c = "\\" -> [t EXCEPT !.i = @ + (IF two = 2 THEN 2 ELSE 1)]
          [] OTHER -> [t EXCEPT !.i = @ + 1]

FmtStart(i) == [i |-> i, quot |-> "", level |-> 0, last |-> FALSE]
FmtEnded(s, t) == t.last \/ t.i > Len(s)

RECURSIVE FmtEnd(_, _, _)

(* Where the search ends; not defined where it does not. *)
FmtEnd(s, end, t) == IF FmtEnded(s, t) THEN t.i ELSE FmtEnd(s, end, FmtTurn(s, end, t))

(* The argument at index i, and the index of the character that ends it. *)
HXparse_dequote_fmt(s, end, i) ==
    LET at == FmtEnd(s, end, FmtStart(i))
    IN  [text |-> HXparse_dequote_int(SubSeq(s, i, at - 1), {}).text, at |-> at]

=============================================================================
