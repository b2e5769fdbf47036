------------------------------ MODULE HXamount ------------------------------
(***************************************************************************)
(* Amounts with units (string.c): HX_strtoull_unit ("1.5k") and the        *)
(* periods of HX_strtoull_sec and HX_strtoull_nsec, in words ("1 day 2 s") *)
(* and in the form of ISO 8601 ("P1DT2S").                                 *)
(*                                                                         *)
(* A text is a sequence of characters, with 0-9 for digits, and is written *)
(* from the amounts that are the only state; the code sees only the text.  *)
(* unsigned long long has the values 0 .. ULLONG_MAX.  A double is an      *)
(* exact fraction, and (double)ULLONG_MAX is ULLONG_MAX + 1, as on all     *)
(* platforms with 53 bits of precision: rounding is left out otherwise.    *)
(* stale says that errno is ERANGE when the call begins: reading a period  *)
(* does not reset it first.                                                *)
(***************************************************************************)
EXTENDS Integers, FiniteSetsExt, SequencesExt, TLC

CONSTANTS
    ULLONG_MAX,
    Utab,       \* txtperiod_utab: words and their multipliers
    Dtab, Ttab, \* iso8601p_dtab, iso8601p_ttab: letters and their multipliers
    Exponents,  \* the exponents of HX_strtoull_unit
    Numbers,    \* numbers in amounts, as sequences of digits
    MaxAmounts  \* bound: amounts in a period

VARIABLE input

Digits == <<"0", "1", "2", "3", "4", "5", "6", "7", "8", "9">>
IsDigit(c) == \E i \in 1 .. 10 : Digits[i] = c
DigitVal(c) == CHOOSE d \in 0 .. 9 : Digits[d + 1] = c
IsSpace(c) == c = " "
IsAlpha(c) == ~IsDigit(c) /\ c \notin {" ", ".", "-"}

NumVal(s) == FoldLeft(LAMBDA v, c : 10 * v + DigitVal(c), 0, s)

RECURSIVE Pow(_, _)
Pow(b, n) == IF n = 0 THEN 1 ELSE b * Pow(b, n - 1)

From(s, i) == SubSeq(s, i, Len(s))
At(s, i, c) == i <= Len(s) /\ s[i] = c

(* The first index from i on whose character is not of the kind. *)
SkipAll(s, i, Kind(_)) == Min({Len(s) + 1} \cup {j \in i .. Len(s) : ~Kind(s[j])})

(* A number with the digits of int before and of frac behind the point. *)
Fraction(int, frac, end) ==
    [end |-> end, dot |-> TRUE, int |-> NumVal(int), num |-> NumVal(int \o frac), den |-> Pow(10, Len(frac))]

(* The number at index i whose first digits end before e. *)
NumberTo(s, i, e) ==
    IF At(s, e, ".") /\ (e > i \/ (e < Len(s) /\ IsDigit(s[e + 1])))
    THEN LET f == SkipAll(s, e + 1, IsDigit)
         IN  Fraction(SubSeq(s, i, e - 1), SubSeq(s, e + 1, f - 1), f)
    ELSE [end |-> e, dot |-> FALSE, int |-> NumVal(SubSeq(s, i, e - 1)),
          num |-> NumVal(SubSeq(s, i, e - 1)), den |-> 1]

(* strtoull and strtod at index i: where the number ends, its value as     *)
(* num / den, and whether it has a decimal point.                          *)
Number(s, i) == NumberTo(s, i, SkipAll(s, i, IsDigit))

(* Results; an end of 0 means that *out_end is not set. *)
Value(q, end) == [err |-> "0", val |-> q, end |-> end]
ERange(end) == [err |-> "ERANGE", val |-> ULLONG_MAX, end |-> end]

-----------------------------------------------------------------------------
Letters == <<"k", "M">>
suffix_power(s, i) == IF i <= Len(s) /\ Contains(Letters, s[i]) THEN IndexFirstSubSeq(<<s[i]>>, Letters) ELSE 0

(* Behind a number: where its unit is, the power it stands for, its end.  *)
UnitOf(s, u) == [pwr |-> suffix_power(s, u), end |-> IF suffix_power(s, u) = 0 THEN u ELSE u + 1]
UnitBehind(s, i) == UnitOf(s, SkipAll(s, i, IsSpace))

(* HX_strtod_unit once n and its unit x are read: the value as num / den. *)
HX_strtod_unit(n, x, exponent) == [num |-> n.num * Pow(exponent, x.pwr), den |-> n.den, end |-> x.end]

(* The multiplications of HX_strtoull_unit, each after its check; -1 for a *)
(* value out of range.                                                     *)
RECURSIVE Scale(_, _, _)
Scale(ipart, exponent, pwr) ==
    IF pwr = 0 THEN ipart
    ELSE IF ipart >= ULLONG_MAX \div exponent THEN -1
    ELSE Scale((ipart * exponent) % (ULLONG_MAX + 1), exponent, pwr - 1)

Negated(neg, v) == IF neg THEN (-v) % (ULLONG_MAX + 1) ELSE v

(* The values of the two ways through HX_strtoull_unit: d is a double, and *)
(* ipart an integer or -1.                                                 *)
FromDouble(d, neg) ==
    IF d.num >= (ULLONG_MAX + 1) * d.den THEN ERange(d.end)
    ELSE Value(Negated(neg, d.num \div d.den), d.end)
FromInteger(ipart, neg, end) ==
    IF ipart = -1 THEN ERange(end) ELSE Value(Negated(neg, ipart), end)

(* HX_strtoull_unit behind the sign, n being the number and x its unit. *)
Converted(n, x, neg, exponent) ==
    IF n.int > ULLONG_MAX THEN ERange(0)
    ELSE IF n.dot THEN FromDouble(HX_strtod_unit(n, x, exponent), neg)
    ELSE FromInteger(Scale(n.int, exponent, x.pwr), neg, x.end)

HX_strtoull_unit(s, exponent) ==
    LET b == SkipAll(s, 1, IsSpace)
        neg == At(s, b, "-")
        n == Number(s, IF neg THEN b + 1 ELSE b)
    IN  Converted(n, UnitBehind(s, n.end), neg, exponent)

-----------------------------------------------------------------------------
(* The unit at index i: the first of the table, a whole word in a text. *)
UnitAt(s, i, tab, word) ==
    LET is(w) == IsPrefix(w, From(s, i)) /\ (word /\ i + Len(w) <= Len(s) => ~IsAlpha(s[i + Len(w)]))
    IN  {w \in DOMAIN tab : is(w)}

Mut_Add(quant, n, mult, numbegin) ==
    LET num == (n.num * mult) \div n.den
    IN  IF num > ULLONG_MAX THEN ERange(numbegin)
        ELSE Value((quant + num) % (ULLONG_MAX + 1), numbegin)

(* One amount with its unit, added to quant; numbegin is where it begins.  *)
Add(quant, n, mult, numbegin) ==
    LET num == (n.num * mult) \div n.den
    IN  IF num > ULLONG_MAX \/ num > ULLONG_MAX - quant THEN ERange(numbegin)
        ELSE Value(quant + num, numbegin)

(* The loop that HX_strtoull_period and HX_strtoull_iso8601p_2 share, from *)
(* index i on.  tabs has one table, or those before and after the T.  With *)
(* a stale errno the largest number passes for one that is too large.      *)
RECURSIVE Periods(_, _, _, _, _, _)
Periods(s, i, quant, tabs, word, stale) ==
    LET TooLarge(n) == n.int > ULLONG_MAX \/ (n.int = ULLONG_MAX /\ stale)
        Summed(r, end) == IF r.err # "0" THEN r ELSE Periods(s, end, r.val, tabs, word, stale)
        With(b, n, u) ==        \* the amount n at b, its unit at u
            LET units == UnitAt(s, u, Head(tabs), word)
                w == CHOOSE w \in units : TRUE
            IN  CASE At(s, b, "-") \/ n.end = b -> Value(quant, b)
                  [] ~At(s, b, "-") /\ n.end # b /\ TooLarge(n) -> ERange(0)
                  [] ~At(s, b, "-") /\ n.end # b /\ ~TooLarge(n) /\ units = {} ->
                       IF n.num = 0 THEN Periods(s, u, quant, tabs, word, stale) ELSE Value(quant, b)
                  [] ~At(s, b, "-") /\ n.end # b /\ ~TooLarge(n) /\ units # {} ->
                       Summed(Add(quant, n, Head(tabs)[w], b), u + Len(w))
        Numbered(b, n) == With(b, n, SkipAll(s, n.end, IsSpace))
        Turn(b) ==
            IF ~word /\ At(s, b, "T")
            THEN IF Len(tabs) = 1 THEN Value(quant, b) ELSE Periods(s, b + 1, quant, Tail(tabs), word, stale)
            ELSE Numbered(b, Number(s, b))
    IN  IF i > Len(s) THEN Value(quant, i) ELSE Turn(SkipAll(s, i, IsSpace))

HX_strtoull_period(s, stale) == Periods(s, 1, 0, <<Utab>>, TRUE, stale)

HX_strtoull_iso8601p_2(s, stale) == Periods(s, 1, 0, <<Dtab, Ttab>>, FALSE, stale)

looks_like_iso8601(s) ==
    /\ At(s, 1, "P")
    /\ Len(s) >= 2
    /\ IsDigit(s[2]) \/ (s[2] = "T" /\ Len(s) >= 3 /\ IsDigit(s[3]))

(* HX_strtoull_sec or HX_strtoull_nsec, after the multipliers.  An end is  *)
(* given as an index into s.                                               *)
HX_strtoull_sec(s, stale) ==
    IF ~looks_like_iso8601(s) THEN HX_strtoull_period(s, stale)
    ELSE LET r == HX_strtoull_iso8601p_2(Tail(s), stale)
         IN  [r EXCEPT !.end = IF @ = 0 THEN 0 ELSE @ + 1]

-----------------------------------------------------------------------------
(* An amount: int and frac are digits, frac being empty for a number       *)
(* without a point; unit is a key of a table, or a power of the exponent.  *)
Amount(u) == [int : Numbers, frac : {<<>>, <<"5">>}, unit : u, gap : BOOLEAN]

Init ==
    \/ \E a \in Amount(0 .. 2), neg \in BOOLEAN, e \in Exponents :
         input = [kind |-> "unit", amount |-> a, neg |-> neg, exponent |-> e]
    \/ \E tail \in {<<>>, <<"-">>, <<"1">>}, stale \in BOOLEAN, k \in {"words", "iso"} :
         input = [kind |-> k, day |-> <<>>, time |-> <<>>, tail |-> tail, stale |-> stale]

Size == Len(input.day) + Len(input.time)

(* One more amount; in the form of ISO 8601 days come before times. *)
Next ==
    /\ input.kind # "unit"
    /\ Size < MaxAmounts
    /\ \/ /\ input.kind = "words"
          /\ \E a \in Amount(DOMAIN Utab) : input' = [input EXCEPT !.day = Append(@, a)]
       \/ /\ input.kind = "iso"
          /\ input.time = <<>>
          /\ \E a \in Amount(DOMAIN Dtab) : input' = [input EXCEPT !.day = Append(@, a)]
       \/ /\ input.kind = "iso"
          /\ \E a \in Amount(DOMAIN Ttab) : input' = [input EXCEPT !.time = Append(@, a)]

Spec == Init /\ [][Next]_input

-----------------------------------------------------------------------------
(* The text of an amount and of a period. *)
Digs(a) == a.int \o (IF a.frac = <<>> THEN <<>> ELSE <<".">> \o a.frac)
Written(a, unit) == Digs(a) \o (IF a.gap THEN <<" ">> ELSE <<>>) \o unit
WrittenAll(as) == FlattenSeq([i \in DOMAIN as |-> Written(as[i], as[i].unit)])
PeriodText ==
    (IF input.kind = "iso" THEN <<"P">> ELSE <<>>) \o WrittenAll(input.day)
    \o (IF input.time = <<>> THEN <<>> ELSE <<"T">> \o WrittenAll(input.time)) \o input.tail
UnitText ==
    (IF input.neg THEN <<"-">> ELSE <<>>)
    \o Written(input.amount, IF input.amount.unit = 0 THEN <<>> ELSE <<Letters[input.amount.unit]>>)

(* What an amount is worth in the unit mult, without its fraction. *)
Worth(a, mult) ==
    IF a.frac = <<>> THEN NumVal(a.int) * mult
    ELSE (NumVal(a.int \o a.frac) * mult) \div Pow(10, Len(a.frac))
Worths(as, tab) == [i \in DOMAIN as |-> Worth(as[i], tab[as[i].unit])]
Sum(s) == FoldLeft(LAMBDA x, y : x + y, 0, s)

(* HX_strtoull_unit gives the amount, modulo the width for a negative one, *)
(* or says ERANGE: never for an amount to which one more unit could be     *)
(* added, and always for one that does not fit.  The negation is that of   *)
(* string.c:1004 and 1016; doc/string_ops.rst:416-417 says that negative   *)
(* numbers are rejected outright.                                          *)
UnitOK ==
    input.kind = "unit" =>
      LET scale == Pow(input.exponent, input.amount.unit)
          v == Worth(input.amount, scale)
          r == HX_strtoull_unit(UnitText, input.exponent)
      IN  /\ v > ULLONG_MAX => r.err = "ERANGE"
          /\ r.err = "ERANGE" => v + scale > ULLONG_MAX \/ NumVal(input.amount.int) > ULLONG_MAX
          /\ r.err = "0" => /\ r.val = Negated(input.neg, v)
                            /\ r.end = Len(UnitText) + 1

(* A period of any number of amounts, in words or in the form of ISO 8601, *)
(* is worth their sum, and parsing stops at what is no amount; when the    *)
(* sum or a number in it does not fit the result is ERANGE, and there is   *)
(* one other reason for it: the largest number while errno is still ERANGE *)
(* from before (string.c:1113-1115, 1199-1201).  A number without a unit   *)
(* is no amount (string.c:1131-1137), although it should mean seconds by   *)
(* doc/string_ops.rst:439-443.                                             *)
PeriodOK ==
    (input.kind # "unit" /\ Size > 0) =>
      LET as == input.day \o input.time
          w == Worths(input.day, IF input.kind = "iso" THEN Dtab ELSE Utab) \o Worths(input.time, Ttab)
          fits == /\ \A i \in DOMAIN as : NumVal(as[i].int) <= ULLONG_MAX
                  /\ Sum(w) <= ULLONG_MAX
          mistaken == input.stale /\ \E i \in DOMAIN as : NumVal(as[i].int) = ULLONG_MAX
          r == HX_strtoull_sec(PeriodText, input.stale)
      IN  IF fits /\ ~mistaken THEN r = Value(Sum(w), Len(PeriodText) - Len(input.tail) + 1)
          ELSE r.err = "ERANGE" /\ r.val = ULLONG_MAX

(* Both. *)
AmountsOK == UnitOK /\ PeriodOK

=============================================================================
