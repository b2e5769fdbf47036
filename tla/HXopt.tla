-------------------------------- MODULE HXopt ------------------------------
(***************************************************************************)
(* The option parser HX_getopt6 (opt.c), one step per turn of its loop.    *)
(*                                                                         *)
(* An argument is the sequence of its characters.  Numbers are sets of     *)
(* bits, of which a text names the ones whose digits it contains.  Any     *)
(* allocation may fail.                                                    *)
(***************************************************************************)
EXTENDS Integers, Sequences, SequencesExt, FiniteSets

CONSTANTS
    Table,      \* the option table: sequence of [sh, ln, arg, type, ptr] where arg is
                \* "void", "need" or "may" (HXOPT_OPTIONAL), sh or ln may be NoName
    NoName,
    Bits,       \* the digits
    Arguments,  \* the arguments given
    MaxArgs,    \* bound: how many of them
    Ptrs        \* the variables of the program that options point to

VARIABLES
    argv,       \* the arguments after the program's name
    rq_order,   \* HXOPT_RQ_ORDER, given or by POSIXLY_CORRECT
    opt,        \* index of the argument at hand; argc is what is left from it
    op0,        \* what is left of that argument
    state,
    desc, oarg, uarg,
    var,        \* the program's variables
    lost,       \* a "-" could not be recorded, which nobody looks at
    ret,        \* "SUCCESS", "none" while the call runs, or the error
    res         \* the result the caller gets

vars == <<argv, rq_order, opt, op0, state, desc, oarg, uarg, var, lost, ret, res>>

NULL == <<"NULL">>
NoResult == [desc |-> <<>>, oarg |-> <<>>, uarg |-> <<>>, dup_argv |-> <<>>]

ArgAt(i) == IF i <= Len(argv) THEN argv[i] ELSE NULL

Init ==
    /\ argv \in UNION {[1 .. n -> Arguments] : n \in 0 .. MaxArgs}
    /\ rq_order \in BOOLEAN
    /\ opt = 1
    /\ op0 = ArgAt(1)
    /\ state = "NORMAL"
    /\ desc = <<>> /\ oarg = <<>> /\ uarg = <<>>
    /\ var = [p \in Ptrs |-> IF p = "mask" THEN {} ELSE IF p = "text" THEN NULL ELSE 0]
    /\ lost = FALSE
    /\ ret = "none"
    /\ res = NoResult

(* The first character, of an empty argument the final NUL. *)
First(a) == IF a = <<>> THEN "NUL" ELSE a[1]

Running == ret = "none" /\ opt <= Len(argv)

-----------------------------------------------------------------------------
(* Looking up options.  0 stands for the null pointer, -1 for              *)
(* HXopt_ambig_prefix.                                                     *)

Options == 1 .. Len(Table)

Lowest(S) == IF S = {} THEN 0 ELSE CHOOSE i \in S : \A j \in S : i <= j

lookup_short(c) == Lowest({i \in Options : Table[i].sh = c})

(* The scan ends at the first exact match, or at the second longer one. *)
lookup_long_pfx(key) ==
    LET longer == {i \in Options : Table[i].ln # NoName /\ IsStrictPrefix(key, Table[i].ln)}
        exact == Lowest({i \in Options : Table[i].ln = key})
        second == Lowest(longer \ {Lowest(longer)})
    IN  IF second # 0 /\ (exact = 0 \/ second < exact) THEN -1
        ELSE IF exact # 0 THEN exact ELSE Lowest(longer)

takes_void(i) == Table[i].arg = "void"

-----------------------------------------------------------------------------
(* do_assign: what the option does to the variable it points to.           *)

(* The bits that a text names. *)
Number(data) == Range(data) \cap Bits

NTYPE(old, v, op) ==
    CASE op = "set" -> v
      [] op = "or" -> old \cup v
      [] op = "and" -> old \cap v
      [] op = "xor" -> (old \cup v) \ (old \cap v)
      [] op = "not" -> Bits \ v

do_assign(i, data) ==
    LET o == Table[i]
    IN  [var EXCEPT ![o.ptr] = CASE o.type = "inc" -> @ + 1
                                 [] o.type = "dec" -> @ - 1
                                 [] o.type = "string" -> data
                                 [] OTHER -> NTYPE(@, Number(data), o.type)]

(* do_assign_front: the option and its argument are recorded first. *)
Assign(i, data) ==
    /\ desc' = Append(desc, i)
    /\ oarg' = Append(oarg, data)
    /\ var' = do_assign(i, data)

-----------------------------------------------------------------------------
(* Advancing: HXOPT_I_ADVARG, HXOPT_I_ADVARG2 and HXOPT_I_ADVCHAR.         *)

AdvArg(n, s) ==
    /\ opt' = opt + n
    /\ op0' = ArgAt(opt + n)
    /\ state' = s

AdvChar(s) ==
    /\ op0' = Tail(op0)
    /\ state' = s
    /\ UNCHANGED opt

Stay(s) == state' = s /\ UNCHANGED <<opt, op0>>

Unassigned == UNCHANGED <<desc, oarg, var>>

(* What was allocated of the result is freed again. *)
Error(e) ==
    /\ ret' = e
    /\ res' = NoResult
    /\ UNCHANGED <<argv, rq_order, opt, op0, state, desc, oarg, uarg, var, lost>>

Ongoing == UNCHANGED <<argv, rq_order, ret, res>>
Going == Ongoing /\ UNCHANGED lost

(* The option takes the next argument, if that is one to be taken. *)
TakeNext(i) ==
    LET value == ArgAt(opt + 1)
        plain == value = NULL \/ First(value) # "-" \/ value = <<"-">>
    IN  CASE Table[i].arg = "need" /\ value = NULL -> Error("MIS")
          [] Table[i].arg = "need" \/ plain ->
               Assign(i, value) /\ AdvArg(2, "NORMAL") /\ UNCHANGED uarg /\ Going
          [] OTHER -> Assign(i, NULL) /\ AdvArg(1, "NORMAL") /\ UNCHANGED uarg /\ Going

HX_getopt_normal ==
    /\ Running
    /\ state = "NORMAL"
    /\ Ongoing
    /\ Unassigned
    /\ IF op0 = <<"-">> THEN lost' \in {lost, TRUE} ELSE UNCHANGED lost
    /\ CASE op0 = <<"-">> -> /\ uarg' = IF lost' = lost THEN Append(uarg, op0) ELSE uarg
                             /\ AdvArg(1, "NORMAL")
         [] op0 = <<"-", "-">> -> AdvArg(1, "TERMINATED") /\ UNCHANGED uarg
         [] IsStrictPrefix(<<"-", "-">>, op0) ->
              Stay(IF "=" \in Range(op0) THEN "LONG" ELSE "TWOLONG") /\ UNCHANGED uarg
         [] First(op0) = "-" /\ Len(op0) > 1 /\ op0[2] # "-" -> AdvChar("SHORT") /\ UNCHANGED uarg
         [] First(op0) # "-" /\ rq_order -> Stay("TERMINATED") /\ UNCHANGED uarg
         [] OTHER -> uarg' = Append(uarg, op0) /\ AdvArg(1, "NORMAL")

HX_getopt_term ==
    /\ Running
    /\ state = "TERMINATED"
    /\ uarg' = Append(uarg, op0)
    /\ AdvArg(1, "TERMINATED")
    /\ Unassigned
    /\ Going

(* --long and --long value *)
HX_getopt_twolong ==
    /\ Running
    /\ state = "TWOLONG"
    /\ LET i == lookup_long_pfx(SubSeq(op0, 3, Len(op0)))
       IN  CASE i = -1 -> Error("AMBIG")
             [] i = 0 -> Error("UNKN")
             [] i > 0 /\ takes_void(i) ->
                  Assign(i, NULL) /\ AdvArg(1, "NORMAL") /\ UNCHANGED uarg /\ Going
             [] OTHER -> TakeNext(i)

(* --long=value *)
HX_getopt_long ==
    /\ Running
    /\ state = "LONG"
    /\ LET eq == CHOOSE k \in DOMAIN op0 : op0[k] = "=" /\ \A j \in 1 .. k - 1 : op0[j] # "="
           i == lookup_long_pfx(SubSeq(op0, 3, eq - 1))
       IN  CASE i = -1 -> Error("AMBIG")
             [] i = 0 -> Error("UNKN")
             [] i > 0 /\ takes_void(i) -> Error("VOID")
             [] OTHER -> /\ Assign(i, SubSeq(op0, eq + 1, Len(op0)))
                         /\ AdvArg(1, "NORMAL")
                         /\ UNCHANGED uarg
                         /\ Going

Mut_HX_getopt_short ==
    /\ Running
    /\ state = "SHORT"
    /\ IF op0 = <<>> THEN AdvArg(1, "NORMAL") /\ Unassigned /\ UNCHANGED uarg /\ Going
       ELSE LET i == lookup_short(op0[1])
            IN  CASE i = 0 -> Error("UNKN")
                  [] i > 0 /\ takes_void(i) ->
                       Assign(i, NULL) /\ AdvChar("SHORT") /\ UNCHANGED uarg /\ Going
                  [] OTHER -> TakeNext(i)

(* One character of -abc: an option without argument, or one whose         *)
(* argument is the rest of the characters or the next argument.            *)
HX_getopt_short ==
    /\ Running
    /\ state = "SHORT"
    /\ IF op0 = <<>> THEN AdvArg(1, "NORMAL") /\ Unassigned /\ UNCHANGED uarg /\ Going
       ELSE LET i == lookup_short(op0[1])
            IN  CASE i = 0 -> Error("UNKN")
                  [] i > 0 /\ takes_void(i) ->
                       Assign(i, NULL) /\ AdvChar("SHORT") /\ UNCHANGED uarg /\ Going
                  [] i > 0 /\ ~takes_void(i) /\ Len(op0) > 1 ->
                       Assign(i, Tail(op0)) /\ AdvArg(1, "NORMAL") /\ UNCHANGED uarg /\ Going
                  [] OTHER -> TakeNext(i)

(* A deque or a vector cannot be allocated. *)
NoMem ==
    /\ ret = "none"
    /\ Error("ENOMEM")

(* At the end the deques become the vectors of the result, one after the   *)
(* other; dup_argv has the program's name in front.                        *)
ToVec(s, from, to) ==
    /\ ret = "none"
    /\ opt > Len(argv)
    /\ state \in from
    /\ state' = to
    /\ res' = s
    /\ UNCHANGED <<argv, rq_order, opt, op0, desc, oarg, uarg, var, lost>>

IterOpts ==
    /\ ToVec([res EXCEPT !.desc = desc, !.oarg = oarg], {"NORMAL", "TERMINATED"}, "OPTS")
    /\ UNCHANGED ret

IterArgs ==
    /\ ToVec([res EXCEPT !.uarg = uarg], {"OPTS"}, "ARGS")
    /\ UNCHANGED ret

DupArgs ==
    /\ ToVec([res EXCEPT !.dup_argv = <<<<"arg0">>>> \o uarg], {"ARGS"}, "END")
    /\ ret' = "SUCCESS"

Done == ret # "none" /\ UNCHANGED vars

Next ==
    \/ HX_getopt_normal \/ HX_getopt_term \/ HX_getopt_twolong
    \/ HX_getopt_long \/ HX_getopt_short
    \/ NoMem \/ IterOpts \/ IterArgs \/ DupArgs \/ Done

Spec == Init /\ [][Next]_vars

-----------------------------------------------------------------------------
(* The reference: what a command line means, read from left to right       *)
(* without states.  A meaning is the options with their arguments, the     *)
(* other arguments, and the first error.                                   *)

Nothing == [opts |-> <<>>, rest |-> <<>>, err |-> "SUCCESS"]
Wrong(e) == [Nothing EXCEPT !.err = e]
WithOpt(i, v, m) == [m EXCEPT !.opts = <<<<i, v>>>> \o @]
WithArg(a, m) == [m EXCEPT !.rest = <<a>> \o @]

RECURSIVE Meaning(_), Cluster(_, _)

(* Option i with its value in the same argument, or one still to be found  *)
(* in args.                                                                *)
Valued(i, value, args) ==
    CASE takes_void(i) -> IF value = NULL THEN WithOpt(i, NULL, Meaning(args)) ELSE Wrong("VOID")
      [] value # NULL -> WithOpt(i, value, Meaning(args))
      [] Table[i].arg = "need" ->
           IF args = <<>> THEN Wrong("MIS") ELSE WithOpt(i, args[1], Meaning(Tail(args)))
      [] OTHER -> IF args # <<>> /\ (First(args[1]) # "-" \/ args[1] = <<"-">>)
                  THEN WithOpt(i, args[1], Meaning(Tail(args)))
                  ELSE WithOpt(i, NULL, Meaning(args))

Cluster(cs, args) ==
    IF cs = <<>> THEN Meaning(args)
    ELSE LET i == lookup_short(cs[1])
         IN  CASE i = 0 -> Wrong("UNKN")
               [] i # 0 /\ takes_void(i) -> WithOpt(i, NULL, Cluster(Tail(cs), args))
               [] OTHER -> Valued(i, IF Tail(cs) = <<>> THEN NULL ELSE Tail(cs), args)

(* An abbreviation stands for the one option it begins, an exact name for  *)
(* itself unless two longer ones come before it in the table.              *)
LongName(key) ==
    LET all == SelectSeq(Table, LAMBDA o : o.ln # NoName /\ IsPrefix(key, o.ln))
        scanned == SubSeq(all, 1, IF Len(all) < 2 THEN Len(all) ELSE 2)
        hits == {o \in Range(scanned) : o.ln = key}
        whose == IF hits # {} THEN hits ELSE Range(all)
    IN  CASE all = <<>> -> 0
          [] all # <<>> /\ Cardinality(whose) > 1 -> -1
          [] OTHER -> CHOOSE i \in Options : Table[i] \in whose

Meaning(args) ==
    IF args = <<>> THEN Nothing
    ELSE LET a == args[1]
             more == Tail(args)
             body == SubSeq(a, 3, Len(a))
             key == SelectInSeq(body, LAMBDA c : c = "=")
             i == LongName(IF key = 0 THEN body ELSE SubSeq(body, 1, key - 1))
         IN  CASE a = <<"-", "-">> -> [Nothing EXCEPT !.rest = more]
               [] First(a) # "-" /\ rq_order -> [Nothing EXCEPT !.rest = args]
               [] First(a) # "-" /\ ~rq_order -> WithArg(a, Meaning(more))
               [] a = <<"-">> -> WithArg(a, Meaning(more))
               [] IsStrictPrefix(<<"-", "-">>, a) ->
                    CASE i = -1 -> Wrong("AMBIG")
                      [] i = 0 -> Wrong("UNKN")
                      [] OTHER -> Valued(i, IF key = 0 THEN NULL
                                            ELSE SubSeq(body, key + 1, Len(body)), more)
               [] OTHER -> Cluster(Tail(a), more)

(* The state machine of HX_getopt6 gives a command line the meaning the    *)
(* conventions give it: clusters of short options, values in the same or   *)
(* in the next argument, optional values, abbreviations, "-" and "--", the *)
(* first non-option under HXOPT_RQ_ORDER; and after any error, be it in    *)
(* the last allocation, the caller has no result to free.  (The "-" that   *)
(* could not be recorded is missing from a result that says success.)      *)
ParsedOK ==
    ret # "none" =>
      LET m == Meaning(argv)
      IN  IF ret = "SUCCESS"
          THEN ~lost =>
                 /\ m.err = "SUCCESS"
                 /\ res.desc = [k \in DOMAIN m.opts |-> m.opts[k][1]]
                 /\ res.oarg = [k \in DOMAIN m.opts |-> m.opts[k][2]]
                 /\ res.uarg = m.rest
                 /\ Tail(res.dup_argv) = m.rest
          ELSE res = NoResult /\ ret \in {m.err, "ENOMEM"}

(* What the options have done to the program's variables is what they say  *)
(* together: a counter is the difference between the options that raise    *)
(* and that lower it, a mask built by HXOPT_XOR has the bits named an odd  *)
(* number of times, and a string is the last one given.                    *)
AssignedOK ==
    /\ var["count"] = Cardinality({k \in DOMAIN desc : Table[desc[k]].type = "inc"})
                        - Cardinality({k \in DOMAIN desc : Table[desc[k]].type = "dec"})
    /\ var["mask"] = {b \in Bits :
         Cardinality({k \in DOMAIN desc : Table[desc[k]].type = "xor" /\ b \in Range(oarg[k])}) % 2 = 1}
    /\ LET given == SelectSeq([k \in DOMAIN desc |-> k], LAMBDA k : Table[desc[k]].type = "string")
       IN  var["text"] = IF given = <<>> THEN NULL ELSE oarg[Last(given)]

(* Options are understood and acted on as given. *)
OptionsOK == ParsedOK /\ AssignedOK

=============================================================================
