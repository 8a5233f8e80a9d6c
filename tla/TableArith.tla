------------------------------ MODULE TableArith ------------------------------
(***************************************************************************)
(* The integers of threadlab/htable.c: htable_init finds the table's size  *)
(* with get_prime (PrimeSearch), and then hashcode reads keys, one         *)
(* character per turn of its loop, keeping p modulo BIG_PRIME with madd    *)
(* and mmul.  A char is signed where the labs are built, and a remainder   *)
(* in C has the sign of the number divided.                                *)
(*                                                                         *)
(* q and plain are history variables: the exact value of the polynomial    *)
(* that p stands for, and whether no character so far was negative.        *)
(***************************************************************************)
EXTENDS PrimeSearch

CONSTANTS
    BIG_PRIME,   \* 1560007 in htable.h
    RADIX,       \* 256 in hashcode
    CHARS,       \* values of a char, 256
    Bytes,       \* the bytes keys are made of
    MaxLen       \* bound: length of the keys

ASSUME ArithAssumption ==
    /\ BIG_PRIME \in Nat \ {0} /\ RADIX \in Nat /\ CHARS \in Nat /\ MaxLen \in Nat
    /\ CHARS <= BIG_PRIME
    /\ Bytes \subseteq 1..(CHARS - 1)
    /\ (BIG_PRIME + CHARS) * RADIX + CHARS <= 2147483647   \* no int overflows

VARIABLES len,   \* characters read, hashcode's i
          p, q, plain
hashVars == <<len, p, q, plain>>
allVars  == <<vars, hashVars>>

(* s[i], as the int it is converted to.                                    *)
ToChar(byte) == IF 2 * byte >= CHARS THEN byte - CHARS ELSE byte

(* a % b in C, for b > 0.                                                  *)
Rem(a, b) == IF a >= 0 THEN a % b ELSE -((-a) % b)

(* Mutant of madd: the reduction is forgotten.                             *)
maddUnreduced(a, b) == a + b

madd(a, b) == IF a + b > BIG_PRIME THEN a + b - BIG_PRIME ELSE a + b
mmul(a, b) == Rem(a * b, BIG_PRIME)

(* The slot of the key read so far, in a table of the size found.          *)
slot == Rem(p, n)

ArithInit == Init /\ len = 0 /\ p = 0 /\ q = 0 /\ plain = TRUE

Search == Turn /\ UNCHANGED hashVars

Read(byte) ==
    /\ pc = "done" /\ len < MaxLen
    /\ p' = madd(mmul(p, RADIX), ToChar(byte))
    /\ q' = q * RADIX + ToChar(byte)
    /\ plain' = (plain /\ ToChar(byte) >= 0)
    /\ len' = len + 1
    /\ UNCHANGED vars

ArithNext ==
    \/ Search
    \/ \E byte \in Bytes : Read(byte)
    \/ pc = "done" /\ len = MaxLen /\ UNCHANGED allVars

ArithSpec == ArithInit /\ [][ArithNext]_allVars
-----------------------------------------------------------------------------
(* htable.c:16-41 and 146: whatever its bytes, a key's hash is congruent   *)
(* to its exact polynomial.  madd reduces no sum that is negative or       *)
(* exactly BIG_PRIME, but neither leads the hash away: it is at most       *)
(* BIG_PRIME, and falls below 0 only with a negative character, by less    *)
(* than one reduction and one character.  Without one, the slot is an      *)
(* index of the table; with one it may be negative.                        *)
Congruent ==
    /\ p % BIG_PRIME = q % BIG_PRIME
    /\ -(BIG_PRIME + CHARS) < p /\ p <= BIG_PRIME
    /\ plain => p >= 0 /\ (pc = "done" => slot \in 0..(n - 1))
=============================================================================
