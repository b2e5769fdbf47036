------------------------------- MODULE HXformat ----------------------------
(***************************************************************************)
(* The template formatter (format.c): HXformat_add, HXformat_aprintf with  *)
(* HXformat2_xany, HXformat2_xcall and some of the functions, which call   *)
(* each other for nested expansions, on texts of characters.               *)
(*                                                                         *)
(* The state is a catalogue of variables and a template, kept as the tree  *)
(* that its author has in mind: literal characters, variables (whose names *)
(* may be templates) and calls.  Render writes it out; the code sees only  *)
(* that text.                                                              *)
(***************************************************************************)
EXTENDS HXdequote, SequencesExt, FiniteSets, TLC

CONSTANTS
    Letters,    \* the characters of literals and names
    Contents,   \* what variables may contain
    Upper,      \* the upper-case forms of Letters
    MaxSize,    \* bound: steps in the making of the template
    Scanned     \* texts for the search of HXparse_dequote_fmt

VARIABLES
    blk,        \* blk->vars: the variables and their contents
    tpl,        \* the template
    size,       \* the steps it took to make it
    scan        \* a search of HXparse_dequote_fmt, turn by turn

vars == <<blk, tpl, size, scan>>

Lit(c) == [kind |-> "lit", char |-> c]
Var(t) == [kind |-> "var", name |-> t]
Call(f, ts) == [kind |-> "call", fn |-> f, args |-> ts]

Fail == [ok |-> FALSE, text |-> <<>>]
Text(s) == [ok |-> TRUE, text |-> s]

-----------------------------------------------------------------------------
(* The functions.  Nothing and "expanded to nothing" are the same text.    *)

HXformat2_upper(argv) ==
    IF argv = <<>> THEN <<>>
    ELSE [i \in DOMAIN argv[1] |-> IF argv[1][i] \in Letters THEN Upper[argv[1][i]] ELSE argv[1][i]]

HXformat2_if(argv) ==
    CASE Len(argv) < 2 -> <<>>
      [] Len(argv) >= 2 /\ argv[1] # <<>> -> argv[2]
      [] OTHER -> IF Len(argv) >= 3 THEN argv[3] ELSE <<>>

HXformat2_echo(argv) ==
    <<"<">> \o FlattenSeq([i \in DOMAIN argv |-> <<"[">> \o argv[i] \o <<"]">>]) \o <<">">>

(* HXformat2_fmap: the characters that separate arguments. *)
Fmap == ("u" :> {")"}) @@ ("i" :> {")", ","}) @@ ("e" :> {")", ",", " "})

Apply(f, argv) ==
    CASE f = "u" -> HXformat2_upper(argv)
      [] f = "i" -> HXformat2_if(argv)
      [] f = "e" -> HXformat2_echo(argv)
      [] OTHER -> <<>>

-----------------------------------------------------------------------------
IsSpace(c) == c = " "

(* The first index from i on that does not hold a space. *)
SkipSpace(s, i) ==
    LET stop == {j \in i .. Len(s) : ~IsSpace(s[j])}
    IN  IF stop = {} THEN Len(s) + 1 ELSE CHOOSE j \in stop : \A k \in stop : j <= k

HasOpen(s) == \E i \in 1 .. Len(s) - 1 : s[i] = "%" /\ s[i + 1] = "("

RECURSIVE Expand(_, _, _), Args(_, _, _)

Mut_HXformat_aprintf(fmt) ==
    LET r == Expand(fmt, 1, <<>>) IN IF r.ok /\ HasOpen(r.text) THEN Expand(r.text, 1, <<>>) ELSE r

HXformat_aprintf(fmt) == Expand(fmt, 1, <<>>)

(* The arguments of a call from index i on, of which argv are known: each  *)
(* is unquoted first and expanded if there is something to expand.         *)
Args(s, i, r) ==
    IF i > Len(s) THEN [r EXCEPT !.next = i]
    ELSE LET d == HXparse_dequote_fmt(s, r.delim, SkipSpace(s, i))
             e == IF HasOpen(d.text) THEN HXformat_aprintf(d.text) ELSE Text(d.text)
             r2 == [r EXCEPT !.argv = Append(@, e.text), !.next = d.at]
         IN  CASE ~e.ok -> [r EXCEPT !.ok = FALSE]
               [] e.ok /\ d.at > Len(s) -> r2
               [] e.ok /\ d.at <= Len(s) /\ s[d.at] = ")" -> [r2 EXCEPT !.next = d.at + 1]
               [] OTHER -> Args(s, d.at + 1, r2)

(* HXformat2_xcall: i is the index of the first argument. *)
HXformat2_xcall(name, s, i) ==
    LET known == Len(name) = 1 /\ name[1] \in DOMAIN Fmap
        none == [ok |-> TRUE, argv |-> <<>>, next |-> i + 1,
                 delim |-> IF known THEN Fmap[name[1]] ELSE {")"}]
        r == IF i <= Len(s) /\ s[i] = ")" THEN none ELSE Args(s, i, none)
    IN  [ok |-> r.ok, next |-> r.next, text |-> IF known THEN Apply(name[1], r.argv) ELSE <<>>]

(* HXformat2_xany: i is the index behind the opening parenthesis. *)
HXformat2_xany(s, i) ==
    LET name == HXparse_dequote_fmt(s, {")", " "}, i)
        new == HXformat_aprintf(name.text)
    IN  CASE i <= Len(s) /\ s[i] = ")" -> [ok |-> TRUE, text |-> <<>>, next |-> i + 1]
          [] i <= Len(s) /\ IsSpace(s[i]) ->
               [ok |-> TRUE, text |-> <<>>,
                next |-> HXparse_dequote_fmt(s, {")"}, SkipSpace(s, i)).at + 1]
          [] i > Len(s) \/ name.at > Len(s) -> [ok |-> FALSE, text |-> <<>>, next |-> name.at]
          [] s[name.at] = ")" ->
               [ok |-> new.ok /\ new.text # <<>>, next |-> name.at + 1,
                text |-> IF new.text \in DOMAIN blk THEN blk[new.text] ELSE <<>>]
          [] OTHER -> HXformat2_xcall(name.text, s, SkipSpace(s, name.at))

(* The loop of HXformat_aprintf from index i on: text is copied up to the  *)
(* next percent sign, a character behind it that opens nothing is copied   *)
(* too, and what an expansion gives is appended as it is.                  *)
Expand(s, i, out) ==
    IF i > Len(s) THEN Text(out)
    ELSE CASE s[i] # "%" -> Expand(s, i + 1, Append(out, s[i]))
           [] s[i] = "%" /\ i < Len(s) /\ s[i + 1] = "(" ->
                LET x == HXformat2_xany(s, i + 2)
                IN  IF x.ok THEN Expand(s, x.next, out \o x.text) ELSE Fail
           [] OTHER -> Expand(s, i + 2, out \o SubSeq(s, i, i + 1))

-----------------------------------------------------------------------------
RECURSIVE Render(_), Value(_)

(* The text of a template. *)
Render(t) ==
    FlattenSeq([i \in DOMAIN t |->
      CASE t[i].kind = "lit" -> <<t[i].char>>
        [] t[i].kind = "var" -> <<"%", "(">> \o Render(t[i].name) \o <<")">>
        [] t[i].kind = "call" ->
             <<"%", "(", t[i].fn, " ">>
               \o FlattenSeq([j \in DOMAIN t[i].args |->
                    (IF j > 1 THEN <<",">> ELSE <<>>) \o Render(t[i].args[j])])
               \o <<")">>])

(* What a template means: the values of its parts one after the other, a   *)
(* name or an argument being the value of a template.  A variable whose    *)
(* name is empty fails and makes everything around it fail.                *)
ValueOf(p) ==
    CASE p.kind = "lit" -> Text(<<p.char>>)
      [] p.kind = "var" ->
           LET n == Value(p.name)
           IN  IF p.name = <<>> THEN Text(<<>>)
               ELSE IF ~n.ok \/ n.text = <<>> THEN Fail
               ELSE Text(IF n.text \in DOMAIN blk THEN blk[n.text] ELSE <<>>)
      [] p.kind = "call" ->
           LET as == [j \in DOMAIN p.args |-> Value(p.args[j])]
           IN  IF \E j \in DOMAIN as : ~as[j].ok THEN Fail
               ELSE Text(Apply(p.fn, [j \in DOMAIN as |-> as[j].text]))

Value(t) ==
    LET vs == [i \in DOMAIN t |-> ValueOf(t[i])]
    IN  IF \E i \in DOMAIN vs : ~vs[i].ok THEN Fail
        ELSE Text(FlattenSeq([i \in DOMAIN vs |-> vs[i].text]))

-----------------------------------------------------------------------------
Init ==
    /\ blk = <<>>
    /\ tpl = <<>>
    /\ size = 0
    /\ scan \in {[text |-> s] @@ FmtStart(1) : s \in Scanned}

(* HXformat_add: a key without spaces, whose old content is replaced. *)
HXformat_add(key, s) ==
    /\ key # <<>>
    /\ \A i \in DOMAIN key : ~IsSpace(key[i])
    /\ size = 0
    /\ blk' = (key :> s) @@ blk
    /\ UNCHANGED <<tpl, size, scan>>

(* The template grows on either side, or goes into another one. *)
Grow ==
    /\ size < MaxSize
    /\ size' = size + 1
    /\ \/ \E c \in Letters : tpl' \in {<<Lit(c)>> \o tpl, Append(tpl, Lit(c)),
                                       Append(tpl, Var(<<Lit(c)>>))}
       \/ tpl' = <<Var(tpl)>>
       \/ /\ Render(tpl) # <<>>
          /\ tpl' \in {<<Call("u", <<tpl>>)>>, <<Call("e", <<tpl>>)>>}
       \/ \E c \in Letters : tpl' \in {<<Call("i", <<tpl, <<Lit(c)>>, <<>>>>)>>,
                                       <<Call("i", <<<<>>, <<Lit(c)>>, tpl>>)>>,
                                       <<Call("e", <<<<Lit(c)>>, tpl>>)>>}
    /\ UNCHANGED <<blk, scan>>

(* The search of HXparse_dequote_fmt in a text. *)
Turn ==
    /\ ~FmtEnded(scan.text, scan)
    /\ scan' = FmtTurn(scan.text, {")", " "}, scan)
    /\ UNCHANGED <<blk, tpl, size>>

Next ==
    \/ \E c \in Letters \cup {" "}, s \in Contents : HXformat_add(<<c>>, s)
    \/ Grow
    \/ Turn

Spec == Init /\ [][Next]_vars /\ WF_vars(Turn)

-----------------------------------------------------------------------------
(* HXformat_aprintf gives a template its meaning, however expansions are   *)
(* nested in names and in arguments and whatever variables contain: a      *)
(* content with commas, parentheses or an opening of its own is neither    *)
(* split nor expanded again.                                               *)
ExpandsOK == HXformat_aprintf(Render(tpl)) = Value(tpl)

(* HXparse_dequote_fmt is said to "return an allocated string that will    *)
(* contain the result, or %NULL on error": its search of the end of the    *)
(* argument comes to an end.                                               *)
DequoteEnds == <>FmtEnded(scan.text, scan)

=============================================================================
