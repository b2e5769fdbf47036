------------------------------- MODULE HXtime ------------------------------
(***************************************************************************)
(* Time arithmetic (time.c).  A negative time is written with a negative   *)
(* tv_sec and a tv_nsec that counts away from zero, or, when tv_sec is 0,  *)
(* with a negative tv_nsec.  The model is an accumulator on which a user   *)
(* performs one operation after the other.                                 *)
(***************************************************************************)
EXTENDS Integers

CONSTANTS
    NANOSECOND, \* units of tv_nsec in a second
    MICRO,      \* 1000, units of tv_nsec in one of tv_usec
    MaxTime     \* bound: the largest time in units of tv_nsec, where long ends

(* In time.c they are 1000000000 and 1000. *)
TimeAssumption ==
    /\ NANOSECOND \in Nat \ {0} /\ MICRO \in Nat \ {0} /\ MaxTime \in Nat
    /\ NANOSECOND % MICRO = 0

VARIABLES
    r,          \* the accumulator, a struct timespec
    time,       \* history: the time it stands for, in units of tv_nsec
    last        \* history: the last time added to or subtracted from it

timevars == <<r, time, last>>

Times == -MaxTime .. MaxTime

(* Division and remainder of C, which round towards zero. *)
Quo(a, b) == IF a >= 0 THEN a \div b ELSE -((-a) \div b)

Rem(a, b) == a - b * Quo(a, b)

(* The time a struct timespec stands for. *)
Units(t) == t.tv_sec * NANOSECOND + (IF t.tv_sec >= 0 THEN t.tv_nsec ELSE -t.tv_nsec)

HX_timespec_neg(a) ==
    IF a.tv_sec # 0 THEN [tv_sec |-> -a.tv_sec, tv_nsec |-> a.tv_nsec]
    ELSE [tv_sec |-> 0, tv_nsec |-> -a.tv_nsec]

Mut_HX_timespec_add(a, b) ==
    LET rr == Units(a) + Units(b)
    IN  [tv_sec |-> Quo(rr, NANOSECOND), tv_nsec |-> Rem(rr, NANOSECOND)]

HX_timespec_add(a, b) ==
    LET rr == Units(a) + Units(b)
        sec == Quo(rr, NANOSECOND)
    IN  [tv_sec |-> sec, tv_nsec |-> Rem(IF sec < 0 THEN -rr ELSE rr, NANOSECOND)]

HX_timespec_sub(a, b) == HX_timespec_add(a, HX_timespec_neg(b))

HX_timespec_mul(a, f) ==
    LET t == Units(a) * f
        sec == Quo(t, NANOSECOND)
        nsec == Rem(t, NANOSECOND)
    IN  [tv_sec |-> sec, tv_nsec |-> IF sec < 0 /\ nsec < 0 THEN -nsec ELSE nsec]

(* The difference in a struct timeval, written as a timespec again. *)
HX_timeval_sub(future, past) ==
    LET spec(tv) == [tv_sec |-> tv.tv_sec, tv_nsec |-> tv.tv_usec * MICRO]
        d == HX_timespec_sub(spec(future), spec(past))
    IN  [tv_sec |-> d.tv_sec, tv_usec |-> Quo(d.tv_nsec, MICRO)]

(* st_mtim and its like count tv_nsec forward also before 1970. *)
HX_time_compare(a, b) ==
    IF a.tv_sec # b.tv_sec THEN a.tv_sec - b.tv_sec ELSE a.tv_nsec - b.tv_nsec

-----------------------------------------------------------------------------
(* The two ways to write a time. *)
Spec_of(t) == [tv_sec |-> Quo(t, NANOSECOND),
               tv_nsec |-> IF t <= -NANOSECOND THEN Rem(-t, NANOSECOND) ELSE Rem(t, NANOSECOND)]

Stamp_of(t) == [tv_sec |-> t \div NANOSECOND, tv_nsec |-> t % NANOSECOND]

TimeInit == r = Spec_of(0) /\ time = 0 /\ last = 0

AddStep(t) ==
    /\ time + t \in Times
    /\ r' = HX_timespec_add(r, Spec_of(t))
    /\ time' = time + t
    /\ last' = t

SubStep(t) ==
    /\ time - t \in Times
    /\ r' = HX_timespec_sub(r, Spec_of(t))
    /\ time' = time - t
    /\ last' = t

NegStep ==
    /\ r' = HX_timespec_neg(r)
    /\ time' = -time
    /\ UNCHANGED last

MulStep(f) ==
    /\ time * f \in Times
    /\ r' = HX_timespec_mul(r, f)
    /\ time' = time * f
    /\ UNCHANGED last

TimeNext ==
    \/ \E t \in Times : AddStep(t) \/ SubStep(t)
    \/ NegStep
    \/ \E f \in -3 .. 3 : MulStep(f)

TimeSpec == TimeInit /\ [][TimeNext]_timevars

(* The accumulator is the exact time after any sequence of operations, in  *)
(* the one way to write it.  Of it and the last operand HX_time_compare    *)
(* gives the order in which they are as file times, and HX_timeval_sub the *)
(* exact difference when both are whole microseconds.                      *)
TimeOK ==
    LET c == HX_time_compare(Stamp_of(time), Stamp_of(last))
        usec(x) == [tv_sec |-> x.tv_sec, tv_usec |-> Quo(x.tv_nsec, MICRO)]
        d == HX_timeval_sub(usec(r), usec(Spec_of(last)))
    IN  /\ r = Spec_of(time)
        /\ Units(r) = time
        /\ (c < 0) = (time < last)
        /\ (c > 0) = (time > last)
        /\ time % MICRO = 0 /\ last % MICRO = 0 => d = usec(Spec_of(time - last))

=============================================================================
