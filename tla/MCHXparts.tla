----------------------------- MODULE MCHXparts ------------------------------
(***************************************************************************)
(* Small instances for TLC of the components that share no state with each *)
(* other and have safety properties only.  part says which of them this    *)
(* behaviour is about.  Containers, lists, library init, sockets, times, *)
(* files have variables of their own, which otherwise stay in one initial  *)
(* state.  The state of the other components is in the first of the        *)
(* registers r1, r2, ...; registers that are not needed stay 0.            *)
(***************************************************************************)
EXTENDS HXmc, HXlist, HXinit, HXsocket, HXtime, HXfs, HXrealpath, TLC

CONSTANT
    NoName      \* an option without a short or a long name

VARIABLES part, r1, r2, r3, r4, r5, r6, r7, r8, r9, r10, r11, r12

regs == <<part, r1, r2, r3, r4, r5, r6, r7, r8, r9, r10, r11, r12>>

vars == <<regs, mcvars, listvars, usevars, socketvars, timevars, fsvars, rpvars>>

(* The registers behind the first n hold nothing, and keep it. *)
Unused(n) ==
    /\ n < 1 => r1 = 0
    /\ n < 2 => r2 = 0
    /\ n < 3 => r3 = 0
    /\ n < 4 => r4 = 0
    /\ n < 5 => r5 = 0
    /\ n < 6 => r6 = 0
    /\ n < 7 => r7 = 0
    /\ n < 8 => r8 = 0
    /\ n < 9 => r9 = 0
    /\ n < 10 => r10 = 0
    /\ n < 11 => r11 = 0
    /\ n < 12 => r12 = 0

Rest(n) ==
    /\ UNCHANGED part
    /\ n < 1 => UNCHANGED r1
    /\ n < 2 => UNCHANGED r2
    /\ n < 3 => UNCHANGED r3
    /\ n < 4 => UNCHANGED r4
    /\ n < 5 => UNCHANGED r5
    /\ n < 6 => UNCHANGED r6
    /\ n < 7 => UNCHANGED r7
    /\ n < 8 => UNCHANGED r8
    /\ n < 9 => UNCHANGED r9
    /\ n < 10 => UNCHANGED r10
    /\ n < 11 => UNCHANGED r11
    /\ n < 12 => UNCHANGED r12

-----------------------------------------------------------------------------
(* Links to an absolute place, to a neighbour, upwards and to themselves. *)
MCLocs == {<<"a">>, <<"b">>, <<"a", "b">>}

MCTargets ==
    {[abs |-> TRUE, comps |-> <<"a", "b">>], [abs |-> FALSE, comps |-> <<"b">>],
     [abs |-> FALSE, comps |-> <<"..", "a">>], [abs |-> FALSE, comps |-> <<".">>]}

MCFlags == {{}, {"SELF", "PARENT"}, {"SELF", "PARENT", "ABSOLUTE"}}

(* Options without, with and with an optional value, one name that is the  *)
(* beginning of another, and arguments that use them in every way.         *)
OptTable ==
    << [sh |-> "v", ln |-> <<"f", "o">>, arg |-> "void", type |-> "inc", ptr |-> "count"],
       [sh |-> "q", ln |-> NoName, arg |-> "void", type |-> "dec", ptr |-> "count"],
       [sh |-> "m", ln |-> <<"f", "o", "o">>, arg |-> "need", type |-> "xor", ptr |-> "mask"],
       [sh |-> NoName, ln |-> <<"f", "a">>, arg |-> "may", type |-> "string", ptr |-> "text"],
       [sh |-> "o", ln |-> NoName, arg |-> "may", type |-> "string", ptr |-> "text"] >>

OptArguments ==
    { <<>>, <<"1">>, <<"-">>, <<"-", "-">>, <<"-", "v">>, <<"-", "v", "m", "1">>,
      <<"-", "q", "m">>, <<"-", "o">>, <<"-", "x">>, <<"-", "-", "f">>, <<"-", "-", "f", "o">>,
      <<"-", "-", "f", "o", "o">>, <<"-", "-", "f", "o", "o", "=", "1", "2">>,
      <<"-", "-", "f", "o", "=", "1">>, <<"-", "-", "f", "a">>, <<"-", "-", "z">> }

Opt == INSTANCE HXopt WITH
           Table <- OptTable, Arguments <- OptArguments, Bits <- {"1", "2"}, MaxArgs <- 3,
           Ptrs <- {"count", "mask", "text"},
           argv <- r1, rq_order <- r2, opt <- r3, op0 <- r4, state <- r5, desc <- r6,
           oarg <- r7, uarg <- r8, var <- r9, lost <- r10, ret <- r11, res <- r12

(* Values with every character that means something to the reader. *)
Conf == INSTANCE HXshconf WITH
            Keys <- {"k", "l"}, Foreign <- {"x"}, Dirs <- 2, MaxEntries <- 2,
            Values <- {<<>>, <<" ", "a">>, <<"\"">>, <<"'">>, <<"\\">>, <<";">>},
            files <- r1, one <- r2, dir <- r3, line <- r4, val <- r5, count <- r6

(* Contents that look like the syntax of templates. *)
Format == INSTANCE HXformat WITH
              Letters <- {"a", "b"}, Upper <- "a" :> "A" @@ "b" :> "B", MaxSize <- 3,
              Contents <- {<<",", ")">>, <<"%", "(", "a", ")">>},
              Scanned <- {<<"\\", "a">>},
              blk <- r1, tpl <- r2, size <- r3, scan <- r4

String == INSTANCE HXstring WITH
              Chars <- {"1", "/", ":", " ", "\n", "[", "]"}, MaxLen <- 5,
              MAXLNLEN <- 3, LONG_MAX <- 4, text <- r1

(* A newline, the characters that some rule quotes, one that none does and *)
(* the last one.                                                           *)
Quote == INSTANCE HXquote WITH
             Codes <- {10, 32, 34, 37, 38, 39, 59, 60, 92, 97, 255}, MaxLen <- 4, text <- r1

(* Multipliers and amounts around a largest number of 63. *)
Amount == INSTANCE HXamount WITH
              ULLONG_MAX <- 63, Exponents <- {3, 10}, MaxAmounts <- 2,
              Utab <- <<"s">> :> 1 @@ <<"m", "i", "n">> :> 4 @@ <<"m", "s">> :> 0 @@ <<"d">> :> 9,
              Dtab <- <<"D">> :> 9 @@ <<"M">> :> 20, Ttab <- <<"S">> :> 1 @@ <<"M">> :> 4,
              Numbers <- {<<"0">>, <<"2">>, <<"7">>, <<"6", "3">>, <<"6", "4">>},
              input <- r1

-----------------------------------------------------------------------------
(* Nothing inherited, or one socket that does not listen, one of another   *)
(* address, and the one that is asked for.                                 *)
MCEnvs ==
    {[fds |-> <<>>, top |-> 0],
     [fds |-> <<[accepting |-> FALSE, addr |-> "asked"], [accepting |-> TRUE, addr |-> "other"],
                [accepting |-> TRUE, addr |-> "asked"]>>, top |-> 4]}

(* A directory, one in it with another and a link in it. *)
MCParent == "a" :> "r" @@ "b" :> "a" @@ "l" :> "a"

(* The instances satisfy what the theorems about their modules assume. *)
ASSUME PartsAssumption ==
    /\ McAssumption /\ ListAssumption /\ ThreadsAssumption /\ SocketAssumption
    /\ TimeAssumption /\ FsAssumption /\ RealpathAssumption

-----------------------------------------------------------------------------
RegsInit ==
    \/ part \in {"mc", "list", "init", "socket", "time", "fs", "realpath"} /\ Unused(0)
    \/ part = "opt" /\ Opt!Init /\ Unused(12)
    \/ part = "shconf" /\ Conf!Init /\ Unused(6)
    \/ part = "format" /\ Format!Init /\ Unused(4)
    \/ part = "string" /\ String!Init /\ Unused(1)
    \/ part = "quote" /\ Quote!Init /\ Unused(1)
    \/ part = "amount" /\ Amount!Init /\ Unused(1)

(* One initial state of the file system and of the sockets. *)
FsParked ==
    /\ fs = [n \in Places |-> CASE n = Out -> "dir" [] n = Kept -> "file" [] OTHER -> "none"]
    /\ stuck = {} /\ others = "nothing"
    /\ stack = <<>> /\ todo = <<>> /\ at = "idle" /\ errno = "stale" /\ ret = 0
    /\ was = "none"

RealpathParked ==
    /\ tree = [loc \in Locs |-> Missing] /\ cwd = <<>> /\ flags = {}
    /\ orig = [abs |-> TRUE, comps |-> <<>>]

SocketParked ==
    path = "none" /\ signals = FALSE /\ env = [p \in Procs |-> [fds |-> <<>>, top |-> 0]]

(* The two processes are alike, so which one inherits sockets is no matter. *)
(* Nothing is refused where others put links in the place of directories.  *)
PartInit ==
    /\ RegsInit /\ McInit /\ ListInit /\ UseInit /\ TimeInit
    /\ IF part = "fs" THEN FsInit /\ (others = "links" => stuck = {}) ELSE FsParked
    /\ part = "realpath" \/ (part # "realpath" /\ RealpathParked)
    /\ RealpathInit
    /\ part = "socket" \/ (part # "socket" /\ SocketParked)
    /\ SocketInit
    /\ env["p1"].top >= env["p2"].top

(* The texts that the last parts make need not grow. *)
Enough == part \in {"format", "string", "quote", "amount"} /\ UNCHANGED regs

RegsNext ==
    \/ part = "opt" /\ Opt!Next /\ Rest(12)
    \/ part = "shconf" /\ Conf!Next /\ Rest(6)
    \/ part = "format" /\ Format!Next /\ Rest(4)
    \/ part = "string" /\ String!Next /\ Rest(1)
    \/ part = "quote" /\ Quote!Next /\ Rest(1)
    \/ part = "amount" /\ Amount!Next /\ Rest(1)
    \/ Enough

PartNext ==
    \/ part = "mc" /\ McNext
       /\ UNCHANGED <<regs, listvars, usevars, socketvars, timevars, fsvars, rpvars>>
    \/ part = "list" /\ ListNext
       /\ UNCHANGED <<regs, mcvars, usevars, socketvars, timevars, fsvars, rpvars>>
    \/ part = "init" /\ UseNext
       /\ UNCHANGED <<regs, mcvars, listvars, socketvars, timevars, fsvars, rpvars>>
    \/ part = "socket" /\ SocketNext
       /\ UNCHANGED <<regs, mcvars, listvars, usevars, timevars, fsvars, rpvars>>
    \/ part = "time" /\ TimeNext
       /\ UNCHANGED <<regs, mcvars, listvars, usevars, socketvars, fsvars, rpvars>>
    \/ part = "fs" /\ FsNext
       /\ UNCHANGED <<regs, mcvars, listvars, usevars, socketvars, timevars, rpvars>>
    \/ part = "realpath" /\ RealpathNext
       /\ UNCHANGED <<regs, mcvars, listvars, usevars, socketvars, timevars, fsvars>>
    \/ RegsNext
       /\ UNCHANGED <<mcvars, listvars, usevars, socketvars, timevars, fsvars, rpvars>>

PartSpec == PartInit /\ [][PartNext]_vars

-----------------------------------------------------------------------------
(* What the modules say of their components; part selects the instance.    *)

(* HX_getopt6 gives a command line its meaning and acts on it. *)
OptionsOK == part = "opt" => Opt!OptionsOK

(* Configuration files are read as the entries they were written from. *)
ConfigOK == part = "shconf" => Conf!ConfigOK

(* HXformat_aprintf expands a template to the value of its tree. *)
ExpandsOK == part = "format" => Format!ExpandsOK

(* Splitting, trimming, paths, lines and addresses agree with their        *)
(* definitions.                                                            *)
TextsOK == part = "string" => String!TextsOK

(* Quoted text can be read back and has the size computed for it. *)
QuotedOK == part = "quote" => Quote!QuotedOK

(* Numbers with units are exact, or reported as too large. *)
AmountsOK == part = "amount" => Amount!AmountsOK

=============================================================================
