-------------------------------- MODULE Clock --------------------------------
(***************************************************************************)
(* malloclab/clock.c: reading the cycle counter and subtracting two        *)
(* readings in halves of a word each.  W is the number of values of an     *)
(* unsigned, 2^32 in the source.                                           *)
(***************************************************************************)
EXTENDS Integers

CONSTANTS
    W,              \* values of an unsigned
    NEVENT,         \* 100 in the source
    THRESHOLD,      \* 1000 in the source
    RECORDTHRESH    \* 3000 in the source

ASSUME ClockAssumption ==
    /\ W \in Nat \ {0, 1} /\ NEVENT \in Nat \ {0}
    /\ THRESHOLD \in Nat \ {0} /\ RECORDTHRESH \in Nat

Platforms == {"i386", "alpha", "other"}

(* rdtsc fills both halves; the Alpha's counter has the low half only; on  *)
(* other machines start_counter and get_counter exit.                      *)
access_counter(platform, t) ==
    [hi |-> IF platform = "i386" THEN (t \div W) % W ELSE 0, lo |-> t % W]

(* Mutant of get_counter: the borrow is not taken from the high half.      *)
get_counterNoBorrow(cyc, ncyc) ==
    ((ncyc.hi - cyc.hi) % W) * W + ((ncyc.lo - cyc.lo) % W)

get_counter(cyc, ncyc) ==
    LET lo     == (ncyc.lo - cyc.lo) % W
        borrow == IF lo > ncyc.lo THEN 1 ELSE 0
        hi     == (ncyc.hi - cyc.hi - borrow) % W
    IN  hi * W + lo

(* One turn of the loop of callibrate: gap is newt - oldt, lag the ticks    *)
(* since oldc.  Cycles that are not whole are kept in UNIT-ths: a quotient *)
(* by one, two or three ticks is exact.                                    *)
UNIT == 6
IsEvent(gap, lag) == gap >= THRESHOLD /\ lag > 0
CyclesPerTick(gap, lag) == (UNIT * gap) \div lag
Record(cyc_per_tick, cpt) ==
    IF /\ cyc_per_tick = 0 \/ cyc_per_tick > cpt
       /\ cpt > UNIT * RECORDTHRESH
    THEN cpt ELSE cyc_per_tick
=============================================================================
