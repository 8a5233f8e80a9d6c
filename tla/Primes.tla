-------------------------------- MODULE Primes --------------------------------
(***************************************************************************)
(* threadlab/htable.c lines 43-70, as functions: what is_prime and         *)
(* get_prime return.  PrimeSearch has the loops that compute it.           *)
(***************************************************************************)
EXTENDS Integers

(* Everything up to 3 passes; above, no even number and no odd multiple.   *)
is_prime(n) ==
    \/ n <= 3
    \/ n % 2 # 0 /\ \A i \in 3..(n - 1) : i % 2 = 1 => n % i # 0

get_prime(min) ==
    LET search[n \in Nat] == IF is_prime(n) THEN n ELSE search[n + 1]
    IN  search[min]

(* The mathematical notion, to judge the code by.                          *)
Divides(d, n) == \E q \in 1..n : n = d * q
Prime(n) == n > 1 /\ \A d \in 2..(n - 1) : ~Divides(d, n)
=============================================================================
