----------------------------- MODULE PrimeSearch -----------------------------
(***************************************************************************)
(* The loops of get_prime and is_prime (threadlab/htable.c 43-70) run one  *)
(* turn at a time: n is tried from min upwards, i runs over the odd        *)
(* candidates for a divisor of n.                                          *)
(***************************************************************************)
EXTENDS Primes

CONSTANT MaxMin        \* bound: the largest argument tried
ASSUME MaxMinAssumption == MaxMin \in Nat

VARIABLES min, n, i, pc

vars == <<min, n, i, pc>>

Init ==
    /\ min \in 1..MaxMin
    /\ n = min
    /\ i = 3
    /\ pc = "test"

TryNext == n' = n + 1 /\ i' = i /\ pc' = "test"
Accept  == n' = n /\ i' = i /\ pc' = "done"

(* Mutant of StartLoop: the loop starts at 5.                              *)
StartLoopLate ==
    /\ pc = "test" /\ n > 3 /\ n % 2 # 0
    /\ i' = 5 /\ pc' = "loop"
    /\ UNCHANGED <<min, n>>

(* The two early returns of is_prime, and the start of its loop.           *)
TestSmall == pc = "test" /\ n <= 3 /\ Accept /\ UNCHANGED min
TestEven  == pc = "test" /\ n > 3 /\ n % 2 = 0 /\ TryNext /\ UNCHANGED min
StartLoop ==
    /\ pc = "test" /\ n > 3 /\ n % 2 # 0
    /\ i' = 3 /\ pc' = "loop"
    /\ UNCHANGED <<min, n>>

Divisible == pc = "loop" /\ i < n /\ n % i = 0 /\ TryNext /\ UNCHANGED min
NextOdd ==
    /\ pc = "loop" /\ i < n /\ n % i # 0
    /\ i' = i + 2
    /\ UNCHANGED <<min, n, pc>>
LoopEnd == pc = "loop" /\ i >= n /\ Accept /\ UNCHANGED min

Turn == TestSmall \/ TestEven \/ StartLoop \/ Divisible \/ NextOdd \/ LoopEnd

-----------------------------------------------------------------------------

(* get_prime stops at the least prime that is not below min, for the       *)
(* arguments htable_init and htable_resize can give it (sz >= 1: min >= 2),*)
(* and at what the operator says that HTable uses for the table's size.    *)
LeastPrime ==
    pc = "done" =>
      /\ n = get_prime(min)
      /\ min > 1 => /\ Prime(n) /\ n >= min
                    /\ \A m \in min..(n - 1) : ~Prime(m)

=============================================================================
