------------------------------ MODULE ArithProofs ------------------------------
(***************************************************************************)
(* The integers of htable.c, for every argument of get_prime, every prime  *)
(* and radix of hashcode and keys of any length: the prime search finds    *)
(* the least prime, and a hash stays congruent to the exact polynomial.    *)
(***************************************************************************)
EXTENDS TableArith, NaturalsInduction, WellFoundedInduction, TLAPS

LEMMA DivMod ==
    ASSUME NEW D \in Nat \ {0}, NEW a \in Int
    PROVE  /\ a \div D \in Int /\ a % D \in 0..(D - 1)
           /\ a = D * (a \div D) + (a % D)
  OBVIOUS

(* A remainder is determined by the number up to multiples of D.           *)
LEMMA ModUnique ==
    ASSUME NEW D \in Nat \ {0}, NEW x \in 0..(D - 1), NEW k \in Int
    PROVE  (x + D * k) % D = x
<1> DEFINE a == x + D * k
           d == a \div D
           r == a % D
<1>1. D * k \in Int /\ a \in Int
  OBVIOUS
<1>2. d \in Int /\ r \in 0..(D - 1) /\ a = D * d + r
  BY <1>1
<1> HIDE DEF d, r
<1>3. D * (d - k) = x - r
  BY <1>1, <1>2
<1>4. d - k < 1
  <2> SUFFICES ASSUME d - k >= 1 PROVE FALSE
    BY <1>2
  <2>1. PICK e \in Nat : d - k = 1 + e
    BY <1>2
  <2>2. D * (d - k) = D + D * e /\ D * e >= 0
    BY <2>1
  <2> QED BY <2>2, <1>2, <1>3
<1>5. d - k > -1
  <2> SUFFICES ASSUME d - k <= -1 PROVE FALSE
    BY <1>2
  <2>1. PICK e \in Nat : d - k = -1 - e
    BY <1>2
  <2>2. D * (d - k) = -D - D * e /\ D * e >= 0
    BY <2>1
  <2> QED BY <2>2, <1>2, <1>3
<1>6. d = k
  BY <1>2, <1>4, <1>5
<1> QED BY <1>1, <1>2, <1>6 DEF r

-------------------------------------------------------------------------------
(* htable.c:43-58: the test of odd candidates is a test for primes.        *)
LEMMA IsPrimeIsPrime ==
    ASSUME NEW a \in Nat, a > 1
    PROVE  is_prime(a) <=> Prime(a)
<1>1. ASSUME is_prime(a), NEW d \in 2..(a - 1), NEW b \in 1..a, a = d * b PROVE FALSE
  <2>1. CASE a <= 3
    <3>1. a = 3 /\ d = 2
      BY <2>1
    <3> QED BY <3>1, <1>1
  <2>2. CASE a > 3
    <3>1. a % 2 # 0 /\ \A c \in 3..(a - 1) : c % 2 = 1 => a % c # 0
      <4>1. ~(a <= 3)
        BY <2>2
      <4> QED BY <1>1, <4>1, Zenon DEF is_prime
    <3>2. CASE d % 2 = 0
      <4>1. d = 2 * (d \div 2) /\ d \div 2 \in Int
        BY <3>2
      <4> DEFINE e == d \div 2
      <4> HIDE DEF e
      <4>2. e * b \in Int /\ a = 0 + 2 * (e * b)
        BY <4>1, <1>1 DEF e
      <4>3. a % 2 = 0
        BY <4>2, ModUnique
      <4> QED BY <3>1, <4>3
    <3>3. CASE d % 2 # 0
      <4>1. d % 2 = 1 /\ d # 2
        BY <3>3
      <4>2. d \in 3..(a - 1) /\ d \in Nat \ {0}
        BY <4>1
      <4>3. a = 0 + d * b /\ 0 \in 0..(d - 1) /\ b \in Int
        BY <1>1, <4>2
      <4>4. a % d = 0
        BY <4>2, <4>3, ModUnique
      <4> QED BY <3>1, <4>1, <4>2, <4>4
    <3> QED BY <3>2, <3>3
  <2> QED BY <2>1, <2>2
<1>2. ASSUME NEW d \in 2..(a - 1), a % d = 0 PROVE Divides(d, a)
  <2> DEFINE b == a \div d
  <2>1. d \in Nat \ {0}
    OBVIOUS
  <2>2. b \in Int /\ a = d * b
    BY <2>1, <1>2, DivMod
  <2> HIDE DEF b
  <2>3. b >= 1
    <3> SUFFICES ASSUME b <= 0 PROVE FALSE
      BY <2>2
    <3>1. PICK e \in Nat : b = 0 - e
      <4>1. 0 - b \in Nat /\ b = 0 - (0 - b)
        BY <2>2
      <4> QED BY <4>1
    <3>2. d * b = 0 - d * e /\ d * e >= 0 /\ d * e \in Int
      BY <3>1, <2>1
    <3> QED BY <3>2, <2>2
  <2>4. b <= a
    <3>1. d * b = b + (d - 1) * b /\ (d - 1) * b >= 0 /\ (d - 1) * b \in Int
      BY <2>1, <2>2, <2>3
    <3> QED BY <3>1, <2>2
  <2> QED BY <2>2, <2>3, <2>4 DEF Divides
<1>3. ASSUME ~is_prime(a) PROVE \E d \in 2..(a - 1) : Divides(d, a)
  <2>1. a > 3 /\ (a % 2 = 0 \/ \E c \in 3..(a - 1) : a % c = 0)
    BY <1>3 DEF is_prime
  <2>2. PICK d \in 2..(a - 1) : a % d = 0
    <3>1. 2 \in 2..(a - 1) /\ \A c \in 3..(a - 1) : c \in 2..(a - 1)
      BY <2>1
    <3> QED BY <2>1, <3>1, Zenon
  <2> QED BY <2>2, <1>2
<1> QED BY <1>1, <1>3 DEF Prime, Divides

(* get_prime as a function of where it starts, without recursion.          *)
AtOrAfter(a) == {m \in Nat : m >= a /\ is_prime(m)}
SearchOf(a) == CHOOSE l \in AtOrAfter(a) : \A x \in AtOrAfter(a) : l <= x

LEMMA SearchStep ==
    ASSUME NEW a \in Nat
    PROVE  SearchOf(a) = IF is_prime(a) THEN a ELSE SearchOf(a + 1)
<1>1. CASE is_prime(a)
  <2>1. a \in AtOrAfter(a) /\ \A x \in AtOrAfter(a) : a <= x
    BY <1>1 DEF AtOrAfter
  <2>2. \A l \in AtOrAfter(a) : (\A x \in AtOrAfter(a) : l <= x) => l = a
    BY <2>1 DEF AtOrAfter
  <2>3. SearchOf(a) = a
    BY <2>1, <2>2 DEF SearchOf
  <2> QED BY <1>1, <2>3
<1>2. CASE ~is_prime(a)
  <2>1. \A m \in Nat : m >= a /\ is_prime(m) <=> m >= a + 1 /\ is_prime(m)
    <3> SUFFICES ASSUME NEW m \in Nat
                 PROVE  m >= a /\ is_prime(m) <=> m >= a + 1 /\ is_prime(m)
      OBVIOUS
    <3>1. CASE m = a
      BY <3>1, <1>2
    <3>2. CASE m # a
      <4>1. m >= a <=> m >= a + 1
        BY <3>2
      <4> QED BY <4>1
    <3> QED BY <3>1, <3>2
  <2>2. AtOrAfter(a) = AtOrAfter(a + 1)
    BY <2>1 DEF AtOrAfter
  <2> QED BY <1>2, <2>2 DEF SearchOf
<1> QED BY <1>1, <1>2

(* htable.c:60-70: one turn of the loop of get_prime.                      *)
LEMMA GetPrimeStep ==
    ASSUME NEW a \in Nat
    PROVE  get_prime(a) = IF is_prime(a) THEN a ELSE get_prime(a + 1)
<1> DEFINE Solves(f) == f = [x \in Nat |-> IF is_prime(x) THEN x ELSE f[x + 1]]
           search == CHOOSE f : Solves(f)
<1>1. Solves([x \in Nat |-> SearchOf(x)])
  <2> DEFINE g == [x \in Nat |-> SearchOf(x)]
  <2>1. ASSUME NEW x \in Nat PROVE g[x] = IF is_prime(x) THEN x ELSE g[x + 1]
    <3>1. x + 1 \in Nat
      OBVIOUS
    <3>2. g[x] = SearchOf(x) /\ g[x + 1] = SearchOf(x + 1)
      BY <3>1
    <3> HIDE DEF g
    <3> QED BY <3>2, SearchStep
  <2> QED BY <2>1
<1>2. Solves(search)
  BY <1>1
<1>3. \A b \in Nat : get_prime(b) = search[b]
  BY DEF get_prime
<1> HIDE DEF search
<1>4. search[a] = IF is_prime(a) THEN a ELSE search[a + 1]
  BY <1>2
<1>5. a + 1 \in Nat
  OBVIOUS
<1> QED BY <1>3, <1>4, <1>5

(* Where the loops are: every number from min up to n has been refused,    *)
(* and n has no odd divisor below i.                                       *)
SearchInv ==
    /\ min \in Nat \ {0} /\ n \in Nat /\ i \in Nat /\ n >= min
    /\ get_prime(n) = get_prime(min)
    /\ \A m \in min..(n - 1) : ~is_prime(m)
    /\ pc = "loop" =>
          /\ n > 3 /\ n % 2 # 0 /\ i >= 3 /\ i % 2 = 1
          /\ \A j \in 3..(i - 1) : j % 2 = 1 => n % j # 0
    /\ pc = "done" => is_prime(n)

LEMMA SearchStepInv == SearchInv /\ (Turn \/ UNCHANGED vars) => SearchInv'
<1> SUFFICES ASSUME SearchInv, Turn \/ UNCHANGED vars PROVE SearchInv'
  OBVIOUS
<1>1. /\ min \in Nat \ {0} /\ n \in Nat /\ i \in Nat /\ n >= min
      /\ get_prime(n) = get_prime(min)
      /\ \A m \in min..(n - 1) : ~is_prime(m)
      /\ pc = "done" => is_prime(n)
  BY DEF SearchInv
<1>2. pc = "loop" =>
        /\ n > 3 /\ n % 2 # 0 /\ i >= 3 /\ i % 2 = 1
        /\ \A j \in 3..(i - 1) : j % 2 = 1 => n % j # 0
  BY DEF SearchInv
(* n is refused, and the next one is tried.                                *)
<1>3. ASSUME ~is_prime(n), TryNext, min' = min PROVE SearchInv'
  <2>1. n' = n + 1 /\ i' = i /\ pc' = "test" /\ n' \in Nat /\ n' >= min
    BY <1>1, <1>3 DEF TryNext
  <2>2. get_prime(n + 1) = get_prime(min)
    BY <1>1, <1>3, GetPrimeStep
  <2>3. ASSUME NEW m \in min..((n + 1) - 1) PROVE ~is_prime(m)
    <3>1. m = n \/ m \in min..(n - 1)
      BY <1>1
    <3> QED BY <3>1, <1>1, <1>3
  <2> QED BY <2>1, <2>2, <2>3, <1>1, <1>3 DEF SearchInv
(* n is taken.                                                             *)
<1>4. ASSUME is_prime(n), Accept, min' = min PROVE SearchInv'
  <2>1. n' = n /\ i' = i /\ pc' = "done"
    BY <1>4 DEF Accept
  <2> QED BY <2>1, <1>1, <1>4 DEF SearchInv
<1>5. CASE TestSmall
  <2>1. is_prime(n)
    BY <1>5 DEF TestSmall, is_prime
  <2> QED BY <2>1, <1>4, <1>5 DEF TestSmall
<1>6. CASE TestEven
  <2>1. n > 3 /\ n % 2 = 0
    BY <1>6 DEF TestEven
  <2>2. ~(n <= 3)
    BY <2>1, <1>1
  <2>3. ~is_prime(n)
    BY <2>1, <2>2, Zenon DEF is_prime
  <2> QED BY <2>3, <1>3, <1>6 DEF TestEven
<1>7. CASE StartLoop
  <2>1. n > 3 /\ n % 2 # 0 /\ i' = 3 /\ pc' = "loop" /\ n' = n /\ min' = min
    BY <1>7 DEF StartLoop
  <2>2. 3 >= 3 /\ 3 % 2 = 1 /\ \A j \in 3..(3 - 1) : j % 2 = 1 => n % j # 0
    OBVIOUS
  <2> QED BY <2>1, <2>2, <1>1 DEF SearchInv
<1>8. CASE Divisible
  <2>1. pc = "loop" /\ i < n /\ n % i = 0
    BY <1>8 DEF Divisible
  <2>2. i \in 3..(n - 1) /\ i % 2 = 1 /\ ~(n <= 3)
    BY <2>1, <1>1, <1>2
  <2>3. ~is_prime(n)
    BY <2>1, <2>2, Zenon DEF is_prime
  <2> QED BY <2>3, <1>3, <1>8 DEF Divisible
<1>9. CASE NextOdd
  <2>1. pc = "loop" /\ n % i # 0 /\ i' = i + 2 /\ n' = n /\ min' = min /\ pc' = pc
    BY <1>9 DEF NextOdd
  <2>2. (i + 2) % 2 = 1 /\ (i + 1) % 2 # 1 /\ i + 2 \in Nat /\ i + 2 >= 3
    BY <2>1, <1>1, <1>2
  <2>3. ASSUME NEW j \in 3..((i + 2) - 1), j % 2 = 1 PROVE n % j # 0
    <3>1. j \in 3..(i - 1) \/ j = i \/ j = i + 1
      BY <1>1
    <3>2. j # i + 1
      BY <2>2, <2>3
    <3>3. CASE j = i
      BY <3>3, <2>1
    <3>4. CASE j \in 3..(i - 1)
      BY <3>4, <2>1, <2>3, <1>2, Zenon
    <3> QED BY <3>1, <3>2, <3>3, <3>4
  <2> QED BY <2>1, <2>2, <2>3, <1>1, <1>2 DEF SearchInv
<1>10. CASE LoopEnd
  <2>1. pc = "loop" /\ i >= n
    BY <1>10 DEF LoopEnd
  <2>2. ASSUME NEW j \in 3..(n - 1), j % 2 = 1 PROVE n % j # 0
    <3>1. j \in 3..(i - 1)
      BY <2>1, <1>1
    <3> QED BY <3>1, <2>1, <2>2, <1>2, Zenon
  <2>3. n % 2 # 0
    BY <2>1, <1>2, Zenon
  <2>4. is_prime(n)
    BY <2>2, <2>3, Zenon DEF is_prime
  <2> QED BY <2>4, <1>4, <1>10 DEF LoopEnd
<1>11. CASE UNCHANGED vars
  BY <1>1, <1>2, <1>11, Zenon DEF vars, SearchInv
<1> QED BY <1>5, <1>6, <1>7, <1>8, <1>9, <1>10, <1>11 DEF Turn

LEMMA SearchInvInit == Init => SearchInv
<1> SUFFICES ASSUME Init PROVE SearchInv
  OBVIOUS
<1>1. min \in Nat \ {0} /\ n = min /\ i = 3 /\ pc = "test"
  BY MaxMinAssumption DEF Init
<1> QED BY <1>1 DEF SearchInv

LEMMA FoundIsLeast == SearchInv => LeastPrime
<1> SUFFICES ASSUME SearchInv, pc = "done"
             PROVE  /\ n = get_prime(min)
                    /\ min > 1 => /\ Prime(n) /\ n >= min
                                  /\ \A m \in min..(n - 1) : ~Prime(m)
  BY DEF LeastPrime
<1>1. /\ min \in Nat \ {0} /\ n \in Nat /\ n >= min /\ get_prime(n) = get_prime(min)
      /\ \A m \in min..(n - 1) : ~is_prime(m)
      /\ is_prime(n)
  BY DEF SearchInv
<1>2. n = get_prime(min)
  BY <1>1, GetPrimeStep
<1>3. ASSUME min > 1 PROVE Prime(n) /\ \A m \in min..(n - 1) : ~Prime(m)
  <2>1. n > 1
    BY <1>1, <1>3
  <2>2. Prime(n)
    BY <1>1, <2>1, IsPrimeIsPrime
  <2>3. ASSUME NEW m \in min..(n - 1) PROVE ~Prime(m)
    <3>1. m \in Nat /\ m > 1
      BY <1>1, <1>3
    <3> QED BY <3>1, <1>1, IsPrimeIsPrime
  <2> QED BY <2>2, <2>3
<1> QED BY <1>1, <1>2, <1>3

(* get_prime ends at the least prime from its argument on, and there it is *)
(* the function by which HTable sizes its tables.                          *)
THEOREM LeastPrimeFound == ArithSpec => []LeastPrime
<1>1. ArithInit => SearchInv
  BY SearchInvInit DEF ArithInit
<1>2. SearchInv /\ [ArithNext]_allVars => SearchInv'
  <2>1. [ArithNext]_allVars => Turn \/ UNCHANGED vars
    BY DEF ArithNext, Search, Read, allVars
  <2> QED BY <2>1, SearchStepInv
<1> QED BY <1>1, <1>2, FoundIsLeast, PTL DEF ArithSpec

-------------------------------------------------------------------------------
(* Two numbers leave the same remainder when they differ by a multiple.    *)
LEMMA SameRemainder ==
    ASSUME NEW D \in Nat \ {0}, NEW a \in Int, NEW b \in Int, NEW k \in Int, b = a + D * k
    PROVE  b % D = a % D
<1> DEFINE d == a \div D
           r == a % D
<1>1. d \in Int /\ r \in 0..(D - 1) /\ a = D * d + r
  BY DivMod
<1> HIDE DEF d, r
<1>2. D * d + D * k = D * (d + k) /\ D * d \in Int /\ D * k \in Int /\ d + k \in Int
  BY <1>1
<1>3. b = r + D * (d + k)
  BY <1>1, <1>2
<1>4. (r + D * (d + k)) % D = r
  BY <1>1, <1>2, ModUnique
<1> QED BY <1>3, <1>4 DEF r

(* C's remainder: congruent, of the sign of the number divided, smaller    *)
(* than the divisor.                                                       *)
LEMMA RemCongruent ==
    ASSUME NEW D \in Nat \ {0}, NEW a \in Int
    PROVE  /\ Rem(a, D) \in Int /\ Rem(a, D) < D /\ -D < Rem(a, D)
           /\ a >= 0 => Rem(a, D) >= 0
           /\ \E e \in Int : a = D * e + Rem(a, D)
<1>1. CASE a >= 0
  <2> DEFINE d == a \div D
             r == a % D
  <2>1. d \in Int /\ r \in 0..(D - 1) /\ a = D * d + r
    BY DivMod
  <2>2. Rem(a, D) = r
    BY <1>1 DEF Rem
  <2> HIDE DEF d, r
  <2>3. \E e \in Int : a = D * e + r
    BY <2>1
  <2>4. r \in Int /\ r < D /\ -D < r /\ r >= 0
    BY <2>1
  <2> QED BY <2>2, <2>3, <2>4
<1>2. CASE a < 0
  <2> DEFINE b == -a
             d == b \div D
             r == b % D
  <2>1. b \in Int
    OBVIOUS
  <2> HIDE DEF b
  <2>2. d \in Int /\ r \in 0..(D - 1) /\ b = D * d + r
    BY <2>1, DivMod
  <2>3. Rem(a, D) = -r
    BY <1>2 DEF Rem, b
  <2> HIDE DEF d, r
  <2>4. D * (-d) = -(D * d) /\ D * d \in Int /\ -d \in Int
    BY <2>2
  <2>5. a = D * (-d) + (-r)
    BY <2>2, <2>4 DEF b
  <2> QED BY <1>2, <2>2, <2>3, <2>4, <2>5
<1> QED BY <1>1, <1>2

(* The invariant: congruence, with its types, and the search's result.     *)
HashInv ==
    /\ p \in Int /\ q \in Int /\ plain \in BOOLEAN
    /\ n \in Nat \ {0}
    /\ Congruent

(* A turn of hashcode's loop follows the polynomial.                       *)
LEMMA ReadStep ==
    ASSUME HashInv, NEW byte \in Bytes, Read(byte)
    PROVE  HashInv'
<1> DEFINE D == BIG_PRIME
           R == RADIX
           c == ToChar(byte)
           x == mmul(p, R)
           kp == p \div D
           kq == q \div D
<1>1. D \in Nat \ {0} /\ R \in Nat /\ CHARS \in Nat /\ c \in Int /\ c < CHARS /\ -CHARS <= c
      /\ CHARS <= D
  <2>1. byte \in 1..(CHARS - 1) /\ CHARS \in Nat
    BY ArithAssumption
  <2> QED BY <2>1, ArithAssumption DEF ToChar
<1>2. /\ p \in Int /\ q \in Int /\ plain \in BOOLEAN /\ n \in Nat \ {0} /\ p % D = q % D
      /\ -(D + CHARS) < p /\ p <= D /\ (plain => p >= 0)
  BY DEF HashInv, Congruent
<1> HIDE DEF c
<1>3. p * R \in Int /\ q * R \in Int /\ (plain => p * R >= 0)
  BY <1>1, <1>2
<1>4. PICK e \in Int : p * R = D * e + x
  <2>1. \E e \in Int : p * R = D * e + Rem(p * R, D)
    <3> DEFINE y == p * R
    <3>1. y \in Int
      BY <1>3
    <3> HIDE DEF y
    <3>2. \E e \in Int : y = D * e + Rem(y, D)
      BY <3>1, <1>1, RemCongruent
    <3> QED BY <3>2 DEF y
  <2>2. x = Rem(p * R, D)
    BY DEF mmul
  <2> HIDE DEF x
  <2> QED BY <2>1, <2>2
<1>5. x \in Int /\ x < D /\ -D < x /\ (plain => x >= 0)
  <2> DEFINE y == p * R
  <2>1. y \in Int /\ (plain => y >= 0)
    BY <1>3
  <2>2. x = Rem(y, D)
    BY DEF mmul
  <2> HIDE DEF y, x
  <2> QED BY <2>1, <2>2, <1>1, RemCongruent
<1>6. /\ kp \in Int /\ p = D * kp + (p % D)
      /\ kq \in Int /\ q = D * kq + (q % D) /\ q % D \in Int
  BY <1>1, <1>2, DivMod
<1>7. p' = madd(x, c) /\ q' = q * R + c /\ plain' = (plain /\ c >= 0) /\ n' = n
  BY DEF Read, c, vars
<1> HIDE DEF x
<1>8. p' \in {x + c, x + c - D} /\ -(D + CHARS) < p' /\ p' <= D
      /\ (plain /\ c >= 0 => p' >= 0)
  BY <1>1, <1>5, <1>7 DEF madd
<1>9. q' \in Int /\ p' \in Int /\ plain' \in BOOLEAN /\ n' \in Nat \ {0}
  BY <1>1, <1>2, <1>3, <1>5, <1>7, <1>8
<1> HIDE DEF D, R, kp, kq
<1>10. q = p + D * (kq - kp)
  <2>1. D * (kq - kp) = D * kq - D * kp /\ D * kq \in Int /\ D * kp \in Int
    BY <1>1, <1>6
  <2> QED BY <2>1, <1>2, <1>6
<1>11. q * R = p * R + D * ((kq - kp) * R)
  <2> DEFINE k == kq - kp
  <2>1. k \in Int
    BY <1>6
  <2> HIDE DEF k
  <2>2. (p + D * k) * R = p * R + D * (k * R)
    BY <2>1, <1>1, <1>2
  <2> QED BY <2>2, <1>10 DEF k
<1>12. \E k \in Int : q' = p' + D * k
  <2> DEFINE k == (kq - kp) * R
  <2>1. k \in Int
    BY <1>1, <1>6
  <2> HIDE DEF k
  <2>2. D * k \in Int /\ D * e \in Int /\ D * (e + k) = D * e + D * k
        /\ D * (e + k + 1) = D * e + D * k + D
    BY <2>1, <1>1, <1>4
  <2>3. q' = x + c + (D * e + D * k)
    BY <2>1, <2>2, <1>1, <1>3, <1>4, <1>5, <1>7, <1>11 DEF k
  <2>4. CASE p' = x + c
    <3>1. q' = p' + D * (e + k) /\ e + k \in Int
      BY <2>1, <2>2, <2>3, <2>4, <1>1, <1>4, <1>5
    <3> QED BY <3>1
  <2>5. CASE p' = x + c - D
    <3>1. q' = p' + D * (e + k + 1) /\ e + k + 1 \in Int
      BY <2>1, <2>2, <2>3, <2>5, <1>1, <1>4, <1>5
    <3> QED BY <3>1
  <2> QED BY <2>4, <2>5, <1>8
<1>13. q' % D = p' % D
  <2>1. PICK k \in Int : q' = p' + D * k
    BY <1>12
  <2> DEFINE a == p'
             b == q'
  <2>2. a \in Int /\ b \in Int /\ b = a + D * k
    BY <2>1, <1>9
  <2> HIDE DEF a, b
  <2>3. b % D = a % D
    BY <1>1, <2>1, <2>2, SameRemainder
  <2> QED BY <2>3 DEF a, b
<1>14. plain' => p' >= 0
  BY <1>2, <1>7, <1>8
<1>15. plain' => slot' \in 0..(n' - 1)
  <2> SUFFICES ASSUME plain' PROVE slot' \in 0..(n' - 1)
    OBVIOUS
  <2> DEFINE a == p'
             b == n'
  <2>1. slot' = Rem(a, b)
    BY DEF slot, Rem
  <2>2. a \in Int /\ a >= 0 /\ b \in Nat \ {0}
    BY <1>9, <1>14
  <2> HIDE DEF a, b
  <2>3. Rem(a, b) \in 0..(b - 1)
    BY <2>2, RemCongruent
  <2> QED BY <2>1, <2>3 DEF b
<1> QED BY <1>8, <1>9, <1>13, <1>14, <1>15 DEF HashInv, Congruent, D

(* For every modulus and radix and keys of any bytes, hashcode returns a   *)
(* number congruent to the key's exact polynomial, and for a key without a *)
(* negative character the slot is one of the table's.                      *)
THEOREM HashCongruent == ArithSpec => []Congruent
<1>1. ArithInit => HashInv /\ SearchInv
  <2> SUFFICES ASSUME ArithInit PROVE HashInv /\ SearchInv
    OBVIOUS
  <2>1. SearchInv /\ n \in Nat \ {0}
    BY SearchInvInit DEF ArithInit, SearchInv
  <2>2. p = 0 /\ q = 0 /\ plain = TRUE
    BY DEF ArithInit
  <2>3. slot \in 0..(n - 1)
    BY <2>1, <2>2 DEF slot, Rem
  <2> QED BY <2>1, <2>2, <2>3, ArithAssumption DEF HashInv, Congruent
<1>2. HashInv /\ SearchInv /\ [ArithNext]_allVars => HashInv' /\ SearchInv'
  <2> SUFFICES ASSUME HashInv, SearchInv, [ArithNext]_allVars PROVE HashInv' /\ SearchInv'
    OBVIOUS
  <2>1. Turn \/ UNCHANGED vars
    BY DEF ArithNext, Search, Read, allVars
  <2>2. SearchInv' /\ n' \in Nat \ {0}
    <3>1. SearchInv'
      BY <2>1, SearchStepInv
    <3>2. min' \in Nat \ {0} /\ n' \in Nat /\ n' >= min'
      BY <3>1, Zenon DEF SearchInv
    <3> QED BY <3>1, <3>2
  <2>3. CASE UNCHANGED hashVars
    <3>1. p' = p /\ q' = q /\ plain' = plain
      BY <2>3 DEF hashVars
    <3>2. plain => slot' \in 0..(n' - 1)
      <4> SUFFICES ASSUME plain PROVE slot' \in 0..(n' - 1)
        OBVIOUS
      <4> DEFINE b == n'
      <4>1. p \in Int /\ p >= 0 /\ b \in Nat \ {0}
        BY <2>2 DEF HashInv, Congruent
      <4>2. slot' = Rem(p, b)
        BY <3>1 DEF slot, Rem
      <4> HIDE DEF b
      <4>3. Rem(p, b) \in 0..(b - 1)
        BY <4>1, RemCongruent
      <4> QED BY <4>2, <4>3 DEF b
    <3> QED BY <2>2, <3>1, <3>2 DEF HashInv, Congruent
  <2>4. ASSUME NEW byte \in Bytes, Read(byte) PROVE HashInv'
    BY <2>4, ReadStep
  <2> QED BY <2>2, <2>3, <2>4 DEF ArithNext, Search, allVars
<1>3. HashInv => Congruent
  BY DEF HashInv
<1> QED BY <1>1, <1>2, <1>3, PTL DEF ArithSpec
-------------------------------------------------------------------------------
(* A set of natural numbers has a least one.                               *)
LEMMA LeastOf ==
    ASSUME NEW T \in SUBSET Nat, T # {}
    PROVE  \E x \in T : \A y \in T : x <= y
<1>1. PICK x \in T : \A y \in T : ~(<<y, x>> \in OpToRel(<, Nat))
  BY NatLessThanWellFounded, WFMin
<1>2. \A y \in T : ~(y < x)
  BY <1>1 DEF OpToRel
<1> QED BY <1>2

IsMultiple(M, d) == \E k \in Nat : M = d * k

LEMMA MultipleOfMultiple ==
    ASSUME NEW M \in Nat, NEW d \in Nat, IsMultiple(M, d), NEW z \in Nat
    PROVE  IsMultiple(M * z, d)
<1>1. PICK k \in Nat : M = d * k
  BY DEF IsMultiple
<1>2. k * z \in Nat /\ (d * k) * z = d * (k * z)
  OBVIOUS
<1>3. M * z = d * (k * z)
  BY <1>1, <1>2
<1> QED BY <1>2, <1>3 DEF IsMultiple

(* The numbers from 2 to a have a common multiple.                         *)
Common(a, M) == M \in Nat /\ M > 0 /\ \A d \in 2..a : IsMultiple(M, d)

LEMMA CommonMultiple == ASSUME NEW a \in Nat PROVE \E M : Common(a, M)
<1> DEFINE T == {x \in Nat : ~\E M : Common(x, M)}
<1> SUFFICES ASSUME a \in T PROVE FALSE
  OBVIOUS
<1>1. PICK x \in T : \A y \in T : x <= y
  <2>1. T \in SUBSET Nat /\ T # {}
    OBVIOUS
  <2> HIDE DEF T
  <2> QED BY <2>1, LeastOf
<1>2. x \in Nat /\ ~\E M : Common(x, M)
  OBVIOUS
<1>3. x > 1
  <2> SUFFICES ASSUME x <= 1 PROVE FALSE
    BY <1>2
  <2>1. \A d \in 2..x : FALSE
    BY <1>2
  <2>2. Common(x, 1)
    BY <2>1 DEF Common
  <2> QED BY <1>2, <2>2
<1>4. x - 1 \in Nat /\ x - 1 \notin T
  BY <1>1, <1>2, <1>3
<1>5. PICK M : Common(x - 1, M)
  BY <1>4
<1>6. M \in Nat /\ M > 0 /\ \A d \in 2..(x - 1) : IsMultiple(M, d)
  BY <1>5 DEF Common
<1>7. M * x \in Nat /\ M * x > 0
  BY <1>2, <1>3, <1>6
<1>8. ASSUME NEW d \in 2..x PROVE IsMultiple(M * x, d)
  <2>1. CASE d = x
    <3>1. M * x = x * M
      BY <1>2, <1>6
    <3> QED BY <2>1, <3>1, <1>6 DEF IsMultiple
  <2>2. CASE d # x
    <3>1. d \in 2..(x - 1) /\ d \in Nat
      BY <2>2, <1>2
    <3> QED BY <3>1, <1>2, <1>6, MultipleOfMultiple
  <2> QED BY <2>1, <2>2
<1> DEFINE W == M * x
<1>9. W \in Nat /\ W > 0 /\ \A d \in 2..x : IsMultiple(W, d)
  BY <1>7, <1>8
<1> HIDE DEF W
<1>10. Common(x, W)
  BY <1>9 DEF Common
<1> QED BY <1>2, <1>10

(* One more than a common multiple is divided by none of them.             *)
LEMMA NoFactor ==
    ASSUME NEW M \in Nat, NEW d \in Nat, d > 1, IsMultiple(M, d)
    PROVE  ~IsMultiple(M + 1, d)
<1> SUFFICES ASSUME IsMultiple(M + 1, d) PROVE FALSE
  OBVIOUS
<1>1. PICK k \in Nat : M = d * k
  BY DEF IsMultiple
<1>2. PICK z \in Nat : M + 1 = d * z
  BY DEF IsMultiple
<1>3. d * (z - k) = 1
  <2>1. d * (z - k) = d * z - d * k /\ d * z \in Int /\ d * k \in Int
    OBVIOUS
  <2> QED BY <2>1, <1>1, <1>2
<1> DEFINE e == z - k
<1>4. e \in Int
  OBVIOUS
<1> HIDE DEF e
<1>5. CASE e >= 1
  <2>1. d * e = d + d * (e - 1) /\ d * (e - 1) >= 0 /\ d * (e - 1) \in Int
    BY <1>4, <1>5
  <2> QED BY <2>1, <1>3 DEF e
<1>6. CASE e <= 0
  <2>1. PICK b \in Nat : e = 0 - b
    <3>1. 0 - e \in Nat /\ e = 0 - (0 - e)
      BY <1>4, <1>6
    <3> QED BY <3>1
  <2>2. d * e = 0 - d * b /\ d * b >= 0 /\ d * b \in Int
    BY <2>1
  <2> QED BY <2>2, <1>3 DEF e
<1> QED BY <1>4, <1>5, <1>6

(* There are primes without end.                                           *)
LEMMA PrimeAbove ==
    ASSUME NEW a \in Nat
    PROVE  \E b \in Nat : b >= a /\ is_prime(b)
<1>1. PICK M : Common(a, M)
  BY CommonMultiple
<1>2. M \in Nat /\ M > 0 /\ \A d \in 2..a : IsMultiple(M, d)
  BY <1>1 DEF Common
<1> DEFINE N == M + 1
           T == {d \in Nat : d > 1 /\ IsMultiple(N, d)}
<1>3. N \in Nat /\ N > 1
  BY <1>2
<1>4. T \in SUBSET Nat /\ N \in T
  <2> HIDE DEF N
  <2>1. N = N * 1
    BY <1>3
  <2>2. IsMultiple(N, N)
    BY <2>1, <1>3 DEF IsMultiple
  <2> QED BY <2>2, <1>3
<1>5. PICK b \in T : \A y \in T : b <= y
  <2> HIDE DEF T
  <2> QED BY <1>4, LeastOf
<1>6. b \in Nat /\ b > 1 /\ IsMultiple(N, b)
  OBVIOUS
<1>7. b > a
  <2> SUFFICES ASSUME b <= a PROVE FALSE
    BY <1>6
  <2>1. b \in 2..a
    BY <1>6
  <2> QED BY <2>1, <1>2, <1>6, NoFactor
<1>8. Prime(b)
  <2> SUFFICES ASSUME NEW d \in 2..(b - 1), Divides(d, b) PROVE FALSE
    BY <1>6 DEF Prime
  <2>1. PICK c \in 1..b : b = d * c
    BY DEF Divides
  <2>2. d \in Nat /\ d > 1 /\ c \in Nat /\ d < b
    BY <1>6
  <2>3. PICK k \in Nat : N = b * k
    BY <1>6 DEF IsMultiple
  <2>4. IsMultiple(N, d)
    <3>1. (d * c) * k = d * (c * k) /\ c * k \in Nat
      BY <2>2
    <3> QED BY <2>1, <2>3, <3>1 DEF IsMultiple
  <2>5. d \in T
    BY <2>2, <2>4
  <2> QED BY <2>2, <2>5, <1>5
<1>9. is_prime(b)
  BY <1>6, <1>8, IsPrimeIsPrime
<1> QED BY <1>6, <1>7, <1>9

(* get_prime comes to a number, whatever it is asked for, and never to one *)
(* below its argument (htable.c:60-70).                                    *)
THEOREM GetPrimeEnds == \A a \in Nat : get_prime(a) \in Nat /\ get_prime(a) >= a
<1> SUFFICES ASSUME NEW a \in Nat PROVE get_prime(a) \in Nat /\ get_prime(a) >= a
  OBVIOUS
<1> DEFINE T == {b \in Nat : b >= a /\ is_prime(b)}
<1>1. PICK b \in T : \A y \in T : b <= y
  <2>1. T \in SUBSET Nat /\ T # {}
    BY PrimeAbove
  <2> HIDE DEF T
  <2> QED BY <2>1, LeastOf
<1>2. b \in Nat /\ b >= a /\ is_prime(b)
  OBVIOUS
<1>3. \A m \in Nat : m >= a /\ m < b => ~is_prime(m)
  BY <1>1, <1>2
<1> HIDE DEF T
<1> DEFINE S == {d \in Nat : d <= b - a /\ get_prime(b - d) # b}
<1>4. S = {}
  <2> SUFFICES ASSUME S # {} PROVE FALSE
    OBVIOUS
  <2>1. PICK d \in S : \A y \in S : d <= y
    <3>1. S \in SUBSET Nat
      OBVIOUS
    <3> HIDE DEF S
    <3> QED BY <3>1, LeastOf
  <2>2. d \in Nat /\ d <= b - a /\ get_prime(b - d) # b
    OBVIOUS
  <2>3. d # 0
    <3> SUFFICES ASSUME d = 0 PROVE FALSE
      OBVIOUS
    <3>1. b - d = b /\ get_prime(b) = b
      BY <1>2, GetPrimeStep
    <3> QED BY <2>2, <3>1
  <2>4. d - 1 \in Nat /\ d - 1 <= b - a /\ ~(d <= d - 1)
    BY <1>2, <2>2, <2>3
  <2>5. get_prime(b - (d - 1)) = b
    BY <2>1, <2>4
  <2> DEFINE m == b - d
  <2>6. m \in Nat /\ m >= a /\ m < b /\ m + 1 = b - (d - 1)
    BY <1>2, <2>2, <2>3
  <2> HIDE DEF m
  <2>7. get_prime(m) = get_prime(m + 1)
    BY <2>6, <1>3, GetPrimeStep
  <2>8. get_prime(m) = b
    BY <2>5, <2>6, <2>7
  <2> QED BY <2>2, <2>8 DEF m
<1>5. get_prime(a) = b
  <2>1. b - a \in Nat /\ b - a <= b - a /\ b - (b - a) = a
    BY <1>2
  <2>2. b - a \notin S
    BY <1>4
  <2>3. get_prime(b - (b - a)) = b
    BY <2>1, <2>2
  <2> QED BY <2>1, <2>3
<1> QED BY <1>2, <1>5
=============================================================================
