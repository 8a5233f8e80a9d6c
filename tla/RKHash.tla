------------------------------- MODULE RKHash -------------------------------
(***************************************************************************)
(* rklab: the arithmetic modulo BIG_PRIME of rkmatch.c, the hash functions *)
(* it leaves to be written, as their comments and rkmatch_test.c give      *)
(* them, and the bloom filter of bloom.c.  A failed assertion is the value *)
(* ABORT, which no operation accepts as an operand.                        *)
(***************************************************************************)
EXTENDS Integers, Sequences, FiniteSets, SequencesExt

CONSTANTS
    RADIX,              \* 256 in the source: the values of a character
    H1PRIME, H2PRIME, BLOOM_HASH_NUM   \* 4189793, 3296731 and 10

ASSUME RKAssumption ==
    /\ RADIX \in Nat \ {0} /\ BLOOM_HASH_NUM \in Nat \ {0}
    /\ H1PRIME \in Nat \ {0} /\ H2PRIME \in Nat \ {0}

ABORT == 0 - 1
InRange(P, a) == 0 <= a /\ a < P

(* Mutant of madd: a sum is never reduced.                                 *)
maddUnreduced(P, a, b) ==
    IF InRange(P, a) /\ InRange(P, b) THEN a + b ELSE ABORT

madd(P, a, b) ==
    IF ~InRange(P, a) \/ ~InRange(P, b) THEN ABORT
    ELSE IF a + b > P THEN a + b - P ELSE a + b

(* Mutant of mdel: the operands are swapped when the difference is less    *)
(* than zero.                                                              *)
mdelSwapped(P, a, b) ==
    IF ~InRange(P, a) \/ ~InRange(P, b) THEN ABORT
    ELSE IF a > b THEN a - b ELSE IF a = b THEN P ELSE b - a

mdel(P, a, b) ==
    IF ~InRange(P, a) \/ ~InRange(P, b) THEN ABORT
    ELSE IF a > b THEN a - b ELSE a + P - b

mmul(P, a, b) ==
    IF \/ ~InRange(P, a) \/ ~InRange(P, b)
       \/ a > RADIX /\ b > RADIX
    THEN ABORT ELSE (a * b) % P

(* rkhash_init: 256^(k-1)*charbuf[0] + ... + charbuf[k-1], and 256^k.      *)
rkhash_init(P, charbuf) ==
    FoldLeft(LAMBDA hash, c : madd(P, mmul(P, hash, RADIX), c), 0, charbuf)
Power(P, k) == FoldLeft(LAMBDA h, c : mmul(P, h, RADIX), 1, [n \in 1..k |-> 0])

(* rkhash_next: curr_hash * 256 - prev * h + next.                         *)
rkhash_next(P, curr_hash, h, prev, next) ==
    madd(P, mdel(P, mmul(P, curr_hash, RADIX), mmul(P, prev, h)), next)

(* bloom.c.  The filter is the set of the bits that are set.               *)
hash_i(i, x) == (x % H1PRIME) + i * (x % H2PRIME) + 1 + i * i
BitsOf(bsz, elm) == {hash_i(i, elm) % bsz : i \in 0..(BLOOM_HASH_NUM - 1)}
bloom_query(bits, bsz, elm) == BitsOf(bsz, elm) \subseteq bits
=============================================================================
