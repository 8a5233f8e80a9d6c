------------------------------- MODULE RKProofs -------------------------------
(***************************************************************************)
(* rkmatch.c and rkmatch_main.c for documents, chunks and moduli of any    *)
(* size: what the folds that hash a string compute, that the rolling hash  *)
(* keeps to the characters in the window, when an assertion may fail, and  *)
(* what the three ways of counting have in common.                         *)
(***************************************************************************)
EXTENDS RKMatch, FiniteSetTheorems, SequenceTheorems, NaturalsInduction, WellFoundedInduction, TLAPS

LEMMA LeastOf ==
    ASSUME NEW T \in SUBSET Nat, T # {}
    PROVE  \E x \in T : \A y \in T : x <= y
<1>1. PICK x \in T : \A y \in T : ~(<<y, x>> \in OpToRel(<, Nat))
  BY NatLessThanWellFounded, WFMin
<1>2. \A y \in T : ~(y < x)
  BY <1>1 DEF OpToRel
<1> QED BY <1>2

(* Induction over a set of numbers.                                        *)
LEMMA Induction ==
    ASSUME NEW T, 0 \in T, \A n \in Nat : n \in T => n + 1 \in T
    PROVE  Nat \subseteq T
<1> SUFFICES ASSUME Nat \ T # {} PROVE FALSE
  OBVIOUS
<1>1. PICK x \in Nat \ T : \A y \in Nat \ T : x <= y
  BY LeastOf
<1>2. x - 1 \in Nat /\ x - 1 \in T
  <2>1. x # 0
    BY <1>1
  <2>2. x - 1 \in Nat /\ ~(x <= x - 1)
    BY <1>1, <2>1
  <2> QED BY <2>2, <1>1
<1> QED BY <1>1, <1>2
-----------------------------------------------------------------------------
(* The steps of the folds of RKHash and RKMatch: a hash, a power of the    *)
(* radix modulo P, and the exact value.                                    *)
HASH == 0
POWER == 1
VALUE == 2
Op(m, P, v, c) ==
    IF m = HASH THEN madd(P, mmul(P, v, RADIX), c)
    ELSE IF m = POWER THEN mmul(P, v, RADIX)
    ELSE v * RADIX + c
Fold(m, P, base, s) == FoldLeft(LAMBDA v, c : Op(m, P, v, c), base, s)

(* The greatest element of an interval from 1.                             *)
LEMMA MaxIs ==
    ASSUME NEW n \in Nat, NEW t \in SUBSET (1..n), n \in t
    PROVE  Max(t) = n
<1>1. \A y \in t : n >= y
  OBVIOUS
<1>2. \A x \in t : (\A y \in t : x >= y) => x = n
  OBVIOUS
<1> QED BY <1>1, <1>2, Zenon DEF Max

LEMMA MaxIn ==
    ASSUME NEW n \in Nat, NEW t \in SUBSET (1..n), t # {}
    PROVE  Max(t) \in t
<1> DEFINE T == {x \in Nat : \A y \in t : y <= x}
<1>1. n \in T /\ T \subseteq Nat
  OBVIOUS
<1>2. PICK u \in T : \A y \in T : u <= y
  BY <1>1, LeastOf
<1>3. u \in t
  <2> SUFFICES ASSUME u \notin t PROVE FALSE
    OBVIOUS
  <2>1. \A y \in t : y <= u /\ y # u /\ y \in Nat
    BY <1>2
  <2>2. PICK z \in t : TRUE
    OBVIOUS
  <2>3. u - 1 \in Nat /\ \A y \in t : y <= u - 1
    BY <2>1, <2>2, <1>2
  <2> QED BY <2>3, <1>2
<1>4. u \in t /\ \A y \in t : u >= y
  BY <1>2, <1>3
<1> QED BY <1>4, Zenon DEF Max

(* FoldLeft's function of sets of indices.                                 *)
Iter(m, P, base, s, n) ==
    CHOOSE iter : iter = [t \in SUBSET (1..n) |->
        IF t = {} THEN base ELSE Op(m, P, iter[t \ {Max(t)}], s[Max(t)])]

IsIter(m, P, base, s, n, f) ==
    f = [t \in SUBSET (1..n) |->
            IF t = {} THEN base ELSE Op(m, P, f[t \ {Max(t)}], s[Max(t)])]

LEMMA FoldIsIter ==
    ASSUME NEW m, NEW P, NEW base, NEW s, NEW n \in Nat, DOMAIN s = 1..n
    PROVE  Fold(m, P, base, s) = Iter(m, P, base, s, n)[1..n]
  BY DEF Fold, FoldLeft, MapThenFoldSet, Iter

LEMMA IterExists ==
    ASSUME NEW m, NEW P, NEW base, NEW s, NEW n \in Nat
    PROVE  IsIter(m, P, base, s, n, Iter(m, P, base, s, n))
<1> DEFINE T == {a \in Nat : \E f : IsIter(m, P, base, s, a, f)}
<1>1. 0 \in T
  <2> DEFINE g == [t \in SUBSET (1..0) |-> base]
  <2>1. SUBSET (1..0) = {{}}
    OBVIOUS
  <2>2. IsIter(m, P, base, s, 0, g)
    BY <2>1, Zenon DEF IsIter
  <2> QED BY <2>2
<1>2. ASSUME NEW a \in Nat, a \in T PROVE a + 1 \in T
  <2>1. PICK f : IsIter(m, P, base, s, a, f)
    BY <1>2
  <2> DEFINE g == [t \in SUBSET (1..(a + 1)) |->
                     IF a + 1 \in t THEN Op(m, P, f[t \ {a + 1}], s[a + 1]) ELSE f[t]]
             G(t) == IF t = {} THEN base ELSE Op(m, P, g[t \ {Max(t)}], s[Max(t)])
  <2>2. ASSUME NEW t \in SUBSET (1..(a + 1)) PROVE g[t] = G(t)
    <3>1. CASE a + 1 \in t
      <4>1. Max(t) = a + 1
        BY <3>1, MaxIs
      <4>2. t \ {a + 1} \in SUBSET (1..a) /\ t \ {a + 1} \in SUBSET (1..(a + 1))
        OBVIOUS
      <4>3. g[t \ {a + 1}] = f[t \ {a + 1}]
        BY <4>2
      <4> QED BY <3>1, <4>1, <4>3
    <3>2. CASE a + 1 \notin t
      <4>1. t \in SUBSET (1..a) /\ g[t] = f[t]
        BY <3>2
      <4>2. f[t] = IF t = {} THEN base ELSE Op(m, P, f[t \ {Max(t)}], s[Max(t)])
        BY <4>1, <2>1, Zenon DEF IsIter
      <4>3. t \ {Max(t)} \in SUBSET (1..(a + 1)) /\ a + 1 \notin t \ {Max(t)}
        BY <3>2
      <4>4. g[t \ {Max(t)}] = f[t \ {Max(t)}]
        BY <4>3
      <4> QED BY <4>1, <4>2, <4>4
    <3> QED BY <3>1, <3>2
  <2>3. g = [t \in SUBSET (1..(a + 1)) |-> G(t)]
    <3> HIDE DEF G
    <3> QED BY <2>2
  <2>4. IsIter(m, P, base, s, a + 1, g)
    <3> HIDE DEF g
    <3> QED BY <2>3, Zenon DEF IsIter
  <2> QED BY <2>4
<1>3. n \in T
  <2> HIDE DEF T
  <2> QED BY <1>1, <1>2, Induction
<1>4. PICK f : IsIter(m, P, base, s, n, f)
  BY <1>3
<1> QED BY <1>4, Zenon DEF IsIter, Iter

(* A fold goes through the values of the prefixes.                         *)
Goes(m, P, base, s, n, v) ==
    v[0] = base /\ \A a \in 1..n : v[a] = Op(m, P, v[a - 1], s[a])

LEMMA FoldGoes ==
    ASSUME NEW m, NEW P, NEW base, NEW s, NEW n \in Nat, DOMAIN s = 1..n
    PROVE  \E v : Goes(m, P, base, s, n, v) /\ v[n] = Fold(m, P, base, s)
<1> DEFINE f == Iter(m, P, base, s, n)
           v == [a \in 0..n |-> f[1..a]]
<1>1. f = [t \in SUBSET (1..n) |->
             IF t = {} THEN base ELSE Op(m, P, f[t \ {Max(t)}], s[Max(t)])]
  <2>1. IsIter(m, P, base, s, n, f)
    BY IterExists
  <2> HIDE DEF f
  <2> QED BY <2>1, Zenon DEF IsIter
<1> HIDE DEF f
<1>2. v[0] = base
  <2>1. 1..0 = {} /\ {} \in SUBSET (1..n) /\ v[0] = f[1..0]
    OBVIOUS
  <2>2. f[{}] = base
    BY <1>1, <2>1, Zenon
  <2> QED BY <2>1, <2>2
<1>3. ASSUME NEW a \in 1..n PROVE v[a] = Op(m, P, v[a - 1], s[a])
  <2>1. 1..a \in SUBSET (1..n) /\ 1..a # {} /\ a \in Nat /\ a \in 1..a
    OBVIOUS
  <2>2. Max(1..a) = a
    BY <2>1, MaxIs
  <2>3. (1..a) \ {a} = 1..(a - 1)
    OBVIOUS
  <2>4. f[1..a] = Op(m, P, f[(1..a) \ {a}], s[a])
    BY <1>1, <2>1, <2>2, Zenon
  <2>5. v[a] = f[1..a] /\ v[a - 1] = f[1..(a - 1)]
    OBVIOUS
  <2> QED BY <2>3, <2>4, <2>5
<1>4. v[n] = Fold(m, P, base, s)
  BY FoldIsIter DEF f
<1> HIDE DEF v
<1> QED BY <1>2, <1>3, <1>4 DEF Goes

LEMMA FoldNone ==
    ASSUME NEW m, NEW P, NEW base, NEW s, DOMAIN s = {}
    PROVE  Fold(m, P, base, s) = base
<1>1. DOMAIN s = 1..0 /\ 0 \in Nat
  OBVIOUS
<1> QED BY <1>1, FoldGoes DEF Goes

LEMMA FoldSome ==
    ASSUME NEW m, NEW P, NEW base, NEW n \in Nat,
           NEW s, DOMAIN s = 1..(n + 1),
           NEW r, DOMAIN r = 1..n, \A a \in 1..n : r[a] = s[a]
    PROVE  Fold(m, P, base, s) = Op(m, P, Fold(m, P, base, r), s[n + 1])
<1>1. PICK v : Goes(m, P, base, s, n + 1, v) /\ v[n + 1] = Fold(m, P, base, s)
  BY FoldGoes
<1>2. PICK w : Goes(m, P, base, r, n, w) /\ w[n] = Fold(m, P, base, r)
  BY FoldGoes
<1> DEFINE T == {a \in Nat : a <= n => v[a] = w[a]}
<1>3. 0 \in T
  BY <1>1, <1>2 DEF Goes
<1>4. ASSUME NEW a \in Nat, a \in T PROVE a + 1 \in T
  <2> SUFFICES ASSUME a + 1 <= n PROVE v[a + 1] = w[a + 1]
    OBVIOUS
  <2>1. a + 1 \in 1..n /\ a + 1 \in 1..(n + 1) /\ (a + 1) - 1 = a /\ v[a] = w[a]
    BY <1>4
  <2> QED BY <2>1, <1>1, <1>2 DEF Goes
<1>5. v[n] = w[n]
  <2> HIDE DEF T
  <2>1. n \in T
    BY <1>3, <1>4, Induction
  <2> QED BY <2>1 DEF T
<1>6. v[n + 1] = Op(m, P, v[n], s[n + 1])
  <2>1. n + 1 \in 1..(n + 1) /\ (n + 1) - 1 = n
    OBVIOUS
  <2> QED BY <2>1, <1>1 DEF Goes
<1> QED BY <1>1, <1>2, <1>5, <1>6

LEMMA ValueIsFold == ASSUME NEW s PROVE Value(s) = Fold(VALUE, 0, 0, s)
<1>1. Fold(VALUE, 0, 0, s) = FoldLeft(LAMBDA v, c : v * RADIX + c, 0, s)
  BY DEF Fold, Op, HASH, POWER, VALUE, FoldLeft, MapThenFoldSet
<1> QED BY <1>1 DEF Value

LEMMA InitIsFold == ASSUME NEW P, NEW s PROVE rkhash_init(P, s) = Fold(HASH, P, 0, s)
  BY DEF rkhash_init, Fold, Op, HASH, FoldLeft, MapThenFoldSet
-----------------------------------------------------------------------------
(* Congruence modulo P.                                                    *)
Cong(P, a, b) == (a - b) % P = 0

LEMMA DivMod ==
    ASSUME NEW D \in Nat \ {0}, NEW a \in Int
    PROVE  /\ a \div D \in Int /\ a % D \in 0..(D - 1)
           /\ a = D * (a \div D) + (a % D)
  OBVIOUS

(* A multiple of D that lies within D of 0 is 0.                           *)
LEMMA SmallMultiple ==
    ASSUME NEW D \in Nat \ {0}, NEW q \in Int, -D < D * q, D * q < D
    PROVE  q = 0
<1>1. q < 1
  <2> SUFFICES ASSUME q >= 1 PROVE FALSE
    OBVIOUS
  <2>1. PICK e \in Nat : q = 1 + e
    <3>1. q - 1 \in Nat /\ q = 1 + (q - 1)
      OBVIOUS
    <3> QED BY <3>1
  <2>2. D * q = D + D * e /\ D * e >= 0
    BY <2>1
  <2> QED BY <2>2
<1>2. q > -1
  <2> SUFFICES ASSUME q <= -1 PROVE FALSE
    OBVIOUS
  <2>1. PICK e \in Nat : q = -1 - e
    <3>1. -1 - q \in Nat /\ q = -1 - (-1 - q)
      OBVIOUS
    <3> QED BY <3>1
  <2>2. D * q = -D - D * e /\ D * e >= 0
    BY <2>1
  <2> QED BY <2>2
<1> QED BY <1>1, <1>2

LEMMA Divided ==
    ASSUME NEW D \in Nat \ {0}, NEW a \in Int
    PROVE  a % D = 0 <=> \E q \in Int : a = D * q
<1>1. a % D = 0 => \E q \in Int : a = D * q
  BY DivMod
<1>2. ASSUME NEW q \in Int, a = D * q PROVE a % D = 0
  <2> DEFINE d == a \div D
             r == a % D
  <2>1. d \in Int /\ r \in 0..(D - 1) /\ a = D * d + r
    BY DivMod
  <2> HIDE DEF d, r
  <2>2. D * (q - d) = r
    BY <2>1, <1>2
  <2>3. q - d = 0
    BY <2>1, <2>2, SmallMultiple
  <2>4. r = 0
    BY <2>2, <2>3, <2>1
  <2> QED BY <2>4 DEF r
<1> QED BY <1>1, <1>2

LEMMA CongIff ==
    ASSUME NEW P \in Nat \ {0}, NEW a \in Int, NEW b \in Int
    PROVE  Cong(P, a, b) <=> \E q \in Int : a = b + P * q
<1>1. a - b \in Int
  OBVIOUS
<1>2. Cong(P, a, b) <=> \E q \in Int : a - b = P * q
  BY <1>1, Divided DEF Cong
<1>3. \A q \in Int : P * q \in Int
  OBVIOUS
<1>4. \A q \in Int : a - b = P * q <=> a = b + P * q
  BY <1>3
<1> QED BY <1>2, <1>4

LEMMA CongSame == ASSUME NEW P \in Nat \ {0}, NEW a \in Int PROVE Cong(P, a, a)
<1>1. a = a + P * 0 /\ 0 \in Int
  OBVIOUS
<1> QED BY <1>1, CongIff, Zenon

LEMMA CongTurn ==
    ASSUME NEW P \in Nat \ {0}, NEW a \in Int, NEW b \in Int, Cong(P, a, b)
    PROVE  Cong(P, b, a)
<1>1. PICK q \in Int : a = b + P * q
  BY CongIff
<1>2. b = a + P * (-q) /\ -q \in Int
  BY <1>1
<1> QED BY <1>2, CongIff

LEMMA CongLink ==
    ASSUME NEW P \in Nat \ {0}, NEW a \in Int, NEW b \in Int, NEW c \in Int,
           Cong(P, a, b), Cong(P, b, c)
    PROVE  Cong(P, a, c)
<1>1. PICK q \in Int : a = b + P * q
  BY CongIff
<1>2. PICK r \in Int : b = c + P * r
  BY CongIff
<1>3. a = c + P * (q + r) /\ q + r \in Int
  BY <1>1, <1>2
<1> QED BY <1>3, CongIff

(* Congruence is kept by sums, differences and products.                   *)
LEMMA CongPlus ==
    ASSUME NEW P \in Nat \ {0}, NEW a \in Int, NEW b \in Int, NEW c \in Int, NEW d \in Int,
           Cong(P, a, b), Cong(P, c, d)
    PROVE  Cong(P, a + c, b + d) /\ Cong(P, a - c, b - d)
<1>1. PICK q \in Int : a = b + P * q
  BY CongIff
<1>2. PICK r \in Int : c = d + P * r
  BY CongIff
<1>3. a + c = (b + d) + P * (q + r) /\ q + r \in Int
  BY <1>1, <1>2
<1>4. a - c = (b - d) + P * (q - r) /\ q - r \in Int
  BY <1>1, <1>2
<1>5. a + c \in Int /\ b + d \in Int /\ a - c \in Int /\ b - d \in Int
  OBVIOUS
<1> QED BY <1>3, <1>4, <1>5, CongIff

LEMMA CongTimes ==
    ASSUME NEW P \in Nat \ {0}, NEW a \in Int, NEW b \in Int, NEW c \in Int, Cong(P, a, b)
    PROVE  Cong(P, a * c, b * c)
<1>1. PICK q \in Int : a = b + P * q
  BY CongIff
<1>2. a * c = b * c + P * (q * c) /\ q * c \in Int /\ a * c \in Int /\ b * c \in Int
  BY <1>1
<1> QED BY <1>2, CongIff

LEMMA CongMod ==
    ASSUME NEW P \in Nat \ {0}, NEW a \in Int
    PROVE  Cong(P, a % P, a)
<1>1. a = (a % P) + P * (a \div P) /\ a \div P \in Int /\ a % P \in Int
  BY DivMod
<1>2. Cong(P, a, a % P)
  BY <1>1, CongIff
<1> QED BY <1>1, <1>2, CongTurn

LEMMA CongWhole ==
    ASSUME NEW P \in Nat \ {0}, NEW y \in Int, Cong(P, P, y)
    PROVE  y % P = 0
<1>1. P \in Int
  OBVIOUS
<1>2. Cong(P, y, P)
  BY <1>1, CongTurn
<1>3. PICK q \in Int : y = P + P * q
  BY <1>1, <1>2, CongIff
<1>4. y = P * (1 + q) /\ 1 + q \in Int
  BY <1>3
<1> QED BY <1>4, Divided

(* Hashes of the same value differ only when it is 0.                      *)
LEMMA CongEqual ==
    ASSUME NEW P \in Nat \ {0}, NEW a \in 0..P, NEW b \in 0..P, Cong(P, a, b),
           ~Cong(P, a, 0)
    PROVE  a = b
<1>1. a \in Int /\ b \in Int /\ P \in Int /\ 0 \in Int
  OBVIOUS
<1>0. PICK q \in Int : a = b + P * q
  BY <1>1, CongIff
<1>2. Cong(P, 0, 0) /\ Cong(P, P, 0)
  <2>1. P = 0 + P * 1 /\ 1 \in Int
    OBVIOUS
  <2>2. Cong(P, P, 0)
    BY <1>1, <2>1, CongIff, Zenon
  <2> QED BY <1>1, <2>2, CongSame
<1>3. a # 0 /\ a # P
  BY <1>2
<1>4. b # 0 /\ b # P
  <2>1. ~Cong(P, b, 0)
    BY <1>1, CongLink
  <2> QED BY <2>1, <1>2
<1>5. P * q \in Int /\ P * q = a - b
  BY <1>0
<1>6. -P < P * q /\ P * q < P
  BY <1>3, <1>4, <1>5
<1>7. q = 0
  BY <1>6, SmallMultiple
<1> QED BY <1>0, <1>7
-----------------------------------------------------------------------------
(* madd, mdel and mmul: what they return, and when they abort.             *)
LEMMA MaddFacts ==
    ASSUME NEW P \in Nat \ {0}, NEW a \in Int, NEW b \in Int
    PROVE  /\ madd(P, a, b) # ABORT =>
                madd(P, a, b) \in 0..P /\ Cong(P, madd(P, a, b), a + b)
           /\ madd(P, a, b) # ABORT <=> InRange(P, a) /\ InRange(P, b)
<1>1. CASE InRange(P, a) /\ InRange(P, b)
  <2>1. madd(P, a, b) = IF a + b > P THEN a + b - P ELSE a + b
    BY <1>1 DEF madd
  <2>2. madd(P, a, b) \in 0..P
    BY <1>1, <2>1 DEF InRange
  <2>3. Cong(P, madd(P, a, b), a + b)
    <3>1. CASE a + b > P
      <4>1. madd(P, a, b) = (a + b) + P * (-1) /\ -1 \in Int
        BY <3>1, <2>1
      <4>2. a + b \in Int /\ madd(P, a, b) \in Int
        BY <2>2
      <4> HIDE DEF madd
      <4> QED BY <4>1, <4>2, CongIff, Zenon
    <3>2. CASE ~(a + b > P)
      <4>1. madd(P, a, b) = a + b /\ a + b \in Int
        BY <3>2, <2>1
      <4> QED BY <4>1, CongSame
    <3> QED BY <3>1, <3>2
  <2>4. madd(P, a, b) # ABORT
    BY <2>2 DEF ABORT
  <2> QED BY <1>1, <2>2, <2>3, <2>4
<1>2. CASE ~(InRange(P, a) /\ InRange(P, b))
  BY <1>2 DEF madd
<1> QED BY <1>1, <1>2

LEMMA MdelFacts ==
    ASSUME NEW P \in Nat \ {0}, NEW a \in Int, NEW b \in Int
    PROVE  /\ mdel(P, a, b) # ABORT =>
                /\ mdel(P, a, b) \in 0..P /\ Cong(P, mdel(P, a, b), a - b)
                /\ mdel(P, a, b) = P <=> a = b
           /\ mdel(P, a, b) # ABORT <=> InRange(P, a) /\ InRange(P, b)
<1>1. CASE InRange(P, a) /\ InRange(P, b)
  <2>1. mdel(P, a, b) = IF a > b THEN a - b ELSE a + P - b
    BY <1>1 DEF mdel
  <2>2. mdel(P, a, b) \in 0..P /\ (mdel(P, a, b) = P <=> a = b)
    BY <1>1, <2>1 DEF InRange
  <2>3. Cong(P, mdel(P, a, b), a - b)
    <3>1. CASE ~(a > b)
      <4>1. mdel(P, a, b) = (a - b) + P * 1 /\ 1 \in Int
        BY <3>1, <2>1
      <4>2. a - b \in Int /\ mdel(P, a, b) \in Int
        BY <2>2
      <4> QED BY <4>1, <4>2, CongIff, Zenon
    <3>2. CASE a > b
      <4>1. mdel(P, a, b) = a - b /\ a - b \in Int
        BY <3>2, <2>1
      <4> QED BY <4>1, CongSame
    <3> QED BY <3>1, <3>2
  <2>4. mdel(P, a, b) # ABORT
    BY <2>2 DEF ABORT
  <2> QED BY <1>1, <2>2, <2>3, <2>4
<1>2. CASE ~(InRange(P, a) /\ InRange(P, b))
  BY <1>2 DEF mdel
<1> QED BY <1>1, <1>2

LEMMA MmulFacts ==
    ASSUME NEW P \in Nat \ {0}, NEW a \in Int, NEW b \in Int
    PROVE  /\ mmul(P, a, b) # ABORT =>
                mmul(P, a, b) \in 0..(P - 1) /\ Cong(P, mmul(P, a, b), a * b)
           /\ mmul(P, a, b) # ABORT <=>
                InRange(P, a) /\ InRange(P, b) /\ ~(a > RADIX /\ b > RADIX)
<1>1. CASE InRange(P, a) /\ InRange(P, b) /\ ~(a > RADIX /\ b > RADIX)
  <2>1. mmul(P, a, b) = (a * b) % P
    BY <1>1 DEF mmul
  <2>2. a * b \in Int
    OBVIOUS
  <2>3. (a * b) % P \in 0..(P - 1)
    BY <2>2, DivMod
  <2>4. Cong(P, (a * b) % P, a * b)
    BY <2>2, CongMod
  <2>5. mmul(P, a, b) # ABORT
    BY <2>1, <2>3 DEF ABORT
  <2> QED BY <1>1, <2>1, <2>3, <2>4, <2>5
<1>2. CASE ~(InRange(P, a) /\ InRange(P, b) /\ ~(a > RADIX /\ b > RADIX))
  BY <1>2 DEF mmul
<1> QED BY <1>1, <1>2
-----------------------------------------------------------------------------
(* The exact polynomial and its powers.                                    *)
Zeros(n) == [a \in 1..n |-> 0]
Pow(n) == Fold(VALUE, 0, 1, Zeros(n))
Cut(s, n) == [a \in 1..n |-> s[a]]
Rest(s, n) == [a \in 1..n |-> s[a + 1]]

LEMMA ValueEmpty == ASSUME NEW s, DOMAIN s = {} PROVE Value(s) = 0
  BY ValueIsFold, FoldNone

LEMMA ValueLast ==
    ASSUME NEW n \in Nat, NEW s \in [1..(n + 1) -> Int]
    PROVE  Value(s) = Value(Cut(s, n)) * RADIX + s[n + 1]
<1>1. DOMAIN Cut(s, n) = 1..n /\ \A a \in 1..n : Cut(s, n)[a] = s[a]
  BY DEF Cut
<1>2. Fold(VALUE, 0, 0, s) = Op(VALUE, 0, Fold(VALUE, 0, 0, Cut(s, n)), s[n + 1])
  BY <1>1, FoldSome
<1> QED BY <1>2, ValueIsFold DEF Op, VALUE, HASH, POWER

LEMMA CutType ==
    ASSUME NEW n \in Nat, NEW T, NEW s \in [1..(n + 1) -> T]
    PROVE  /\ Cut(s, n) \in [1..n -> T] /\ Rest(s, n) \in [1..n -> T]
           /\ s[n + 1] \in T /\ s[1] \in T
  BY DEF Cut, Rest

LEMMA ValueType ==
    ASSUME NEW n \in Nat, NEW s \in [1..n -> Int]
    PROVE  Value(s) \in Int
<1> DEFINE T == {a \in Nat : \A r \in [1..a -> Int] : Value(r) \in Int}
<1>1. 0 \in T
  <2> SUFFICES ASSUME NEW r \in [1..0 -> Int] PROVE Value(r) \in Int
    OBVIOUS
  <2>1. DOMAIN r = {}
    OBVIOUS
  <2> QED BY <2>1, ValueEmpty
<1>2. ASSUME NEW a \in Nat, a \in T PROVE a + 1 \in T
  <2> SUFFICES ASSUME NEW r \in [1..(a + 1) -> Int] PROVE Value(r) \in Int
    OBVIOUS
  <2>1. Value(Cut(r, a)) \in Int
    BY <1>2, CutType
  <2>2. Value(r) = Value(Cut(r, a)) * RADIX + r[a + 1]
    BY ValueLast
  <2>3. r[a + 1] \in Int /\ RADIX \in Int
    BY RKAssumption
  <2> QED BY <2>1, <2>2, <2>3
<1>3. n \in T
  <2> HIDE DEF T
  <2> QED BY <1>1, <1>2, Induction
<1> QED BY <1>3

LEMMA PowNext ==
    /\ Pow(0) = 1
    /\ \A n \in Nat : Pow(n + 1) = Pow(n) * RADIX + 0
<1>1. Pow(0) = 1
  <2>1. DOMAIN Zeros(0) = {}
    BY DEF Zeros
  <2> QED BY <2>1, FoldNone DEF Pow
<1>2. ASSUME NEW n \in Nat PROVE Pow(n + 1) = Pow(n) * RADIX + 0
  <2>1. /\ DOMAIN Zeros(n + 1) = 1..(n + 1) /\ DOMAIN Zeros(n) = 1..n
        /\ \A a \in 1..n : Zeros(n)[a] = Zeros(n + 1)[a]
        /\ Zeros(n + 1)[n + 1] = 0
    BY DEF Zeros
  <2>2. Pow(n + 1) = Op(VALUE, 0, Pow(n), 0)
    BY <2>1, FoldSome DEF Pow
  <2> QED BY <2>2 DEF Op, VALUE, HASH, POWER
<1> QED BY <1>1, <1>2

LEMMA PowType == \A n \in Nat : Pow(n) \in Int
<1> DEFINE T == {a \in Nat : Pow(a) \in Int}
<1>1. 0 \in T
  BY PowNext
<1>2. ASSUME NEW a \in Nat, a \in T PROVE a + 1 \in T
  BY <1>2, PowNext, RKAssumption
<1> HIDE DEF T
<1>3. Nat \subseteq T
  BY <1>1, <1>2, Induction
<1> QED BY <1>3 DEF T

(* The first character counts as much as the power of the rest's length.   *)
LEMMA ValueFirst ==
    ASSUME NEW n \in Nat, NEW s \in [1..(n + 1) -> Int]
    PROVE  Value(s) = s[1] * Pow(n) + Value(Rest(s, n))
<1> DEFINE T == {a \in Nat : \A r \in [1..(a + 1) -> Int] :
                                Value(r) = r[1] * Pow(a) + Value(Rest(r, a))}
<1>1. 0 \in T
  <2> SUFFICES ASSUME NEW r \in [1..(0 + 1) -> Int]
               PROVE  Value(r) = r[1] * Pow(0) + Value(Rest(r, 0))
    OBVIOUS
  <2>1. DOMAIN Cut(r, 0) = {} /\ DOMAIN Rest(r, 0) = {}
    BY DEF Cut, Rest
  <2>2. Value(Cut(r, 0)) = 0 /\ Value(Rest(r, 0)) = 0 /\ Pow(0) = 1
    BY <2>1, ValueEmpty, PowNext
  <2>3. Value(r) = Value(Cut(r, 0)) * RADIX + r[0 + 1]
    BY ValueLast
  <2>4. r[1] \in Int /\ 0 + 1 = 1 /\ 0 * RADIX = 0
    BY RKAssumption
  <2> QED BY <2>2, <2>3, <2>4
<1>2. ASSUME NEW a \in Nat, a \in T PROVE a + 1 \in T
  <2> SUFFICES ASSUME NEW r \in [1..((a + 1) + 1) -> Int]
               PROVE  Value(r) = r[1] * Pow(a + 1) + Value(Rest(r, a + 1))
    OBVIOUS
  <2> DEFINE u == Cut(r, a + 1)
             w == Rest(r, a + 1)
  <2>1. u \in [1..(a + 1) -> Int] /\ w \in [1..(a + 1) -> Int] /\ u[1] = r[1] /\ r[1] \in Int
    BY CutType DEF Cut
  <2>2. Value(u) = r[1] * Pow(a) + Value(Rest(u, a))
    BY <1>2, <2>1
  <2>3. Cut(w, a) = Rest(u, a) /\ w[a + 1] = r[(a + 1) + 1] /\ w[a + 1] \in Int
    <3>1. \A d \in 1..(a + 1) : w[d] = r[d + 1] /\ u[d] = r[d]
      BY DEF Cut, Rest
    <3>2. a + 1 \in 1..(a + 1) /\ \A d \in 1..a : d \in 1..(a + 1) /\ d + 1 \in 1..(a + 1)
      OBVIOUS
    <3>3. \A d \in 1..a : w[d] = u[d + 1]
      BY <3>1, <3>2
    <3>4. w[a + 1] = r[(a + 1) + 1] /\ w[a + 1] \in Int
      BY <2>1, <3>1, <3>2
    <3> HIDE DEF u, w
    <3>5. Cut(w, a) = Rest(u, a)
      BY <3>3, Zenon DEF Cut, Rest
    <3> QED BY <3>4, <3>5
  <2>4. Value(r) = Value(u) * RADIX + r[(a + 1) + 1]
    <3>1. a + 1 \in Nat
      OBVIOUS
    <3> QED BY <3>1, ValueLast, Zenon
  <2>5. Value(w) = Value(Rest(u, a)) * RADIX + r[(a + 1) + 1]
    <3>1. Value(w) = Value(Cut(w, a)) * RADIX + w[a + 1]
      BY <2>1, ValueLast
    <3> HIDE DEF u, w
    <3> QED BY <2>3, <3>1, Zenon
  <2>6. Value(Rest(u, a)) \in Int /\ Pow(a) \in Int /\ RADIX \in Int
    <3>1. Rest(u, a) \in [1..a -> Int]
      BY <2>1, CutType
    <3> HIDE DEF u
    <3>2. Value(Rest(u, a)) \in Int
      BY <3>1, ValueType
    <3> QED BY <3>2, PowType, RKAssumption
  <2>7. Pow(a + 1) = Pow(a) * RADIX
    BY <2>6, PowNext
  <2> HIDE DEF u, w
  <2>8. PICK f \in Int : f = r[1]
    BY <2>1
  <2>9. PICK x \in Int : x = Pow(a)
    BY <2>6
  <2>10. PICK y \in Int : y = Value(Rest(u, a))
    BY <2>6
  <2>11. (f * x + y) * RADIX = f * (x * RADIX) + y * RADIX
    BY <2>6
  <2>12. PICK e \in Int : e = r[(a + 1) + 1]
    BY <2>3
  <2>13. Value(r) = (f * x + y) * RADIX + e
    BY <2>1, <2>2, <2>4, <2>8, <2>9, <2>10, <2>12
  <2>14. Value(w) = y * RADIX + e /\ Pow(a + 1) = x * RADIX
    BY <2>5, <2>7, <2>9, <2>10, <2>12
  <2>15. f * (x * RADIX) \in Int /\ y * RADIX \in Int
    BY <2>6
  <2>16. Value(r) = f * (x * RADIX) + Value(w)
    BY <2>11, <2>13, <2>14, <2>15
  <2> QED BY <2>16, <2>14, <2>8 DEF w
<1>3. n \in T
  <2> HIDE DEF T
  <2> QED BY <1>1, <1>2, Induction
<1> QED BY <1>3
-----------------------------------------------------------------------------
(* rkhash_init and 256^k: congruent to the exact values unless an          *)
(* assertion fails.                                                        *)
LEMMA InitNext ==
    ASSUME NEW P, NEW n \in Nat, NEW s \in [1..(n + 1) -> Int]
    PROVE  rkhash_init(P, s) = madd(P, mmul(P, rkhash_init(P, Cut(s, n)), RADIX), s[n + 1])
<1>1. DOMAIN Cut(s, n) = 1..n /\ \A a \in 1..n : Cut(s, n)[a] = s[a]
  BY DEF Cut
<1>2. Fold(HASH, P, 0, s) = Op(HASH, P, Fold(HASH, P, 0, Cut(s, n)), s[n + 1])
  BY <1>1, FoldSome
<1> QED BY <1>2, InitIsFold DEF Op, HASH

LEMMA InitEmpty == ASSUME NEW P, NEW s, DOMAIN s = {} PROVE rkhash_init(P, s) = 0
  BY InitIsFold, FoldNone

LEMMA AbortIs == ABORT = -1
  BY DEF ABORT

HashOf(P, hash, s) == hash \in 0..P /\ Cong(P, hash, Value(s))

LEMMA InitHashes ==
    ASSUME NEW P \in Nat \ {0}, NEW n \in Nat, NEW s \in [1..n -> Int]
    PROVE  rkhash_init(P, s) = ABORT \/ HashOf(P, rkhash_init(P, s), s)
<1> DEFINE T == {a \in Nat : \A r \in [1..a -> Int] :
                    rkhash_init(P, r) = ABORT \/ HashOf(P, rkhash_init(P, r), r)}
<1>1. 0 \in T
  <2> SUFFICES ASSUME NEW r \in [1..0 -> Int] PROVE HashOf(P, rkhash_init(P, r), r)
    OBVIOUS
  <2>1. DOMAIN r = {}
    OBVIOUS
  <2>2. rkhash_init(P, r) = 0 /\ Value(r) = 0
    BY <2>1, InitEmpty, ValueEmpty
  <2>3. Cong(P, 0, 0) /\ 0 \in 0..P
    BY CongSame
  <2> QED BY <2>2, <2>3 DEF HashOf
<1>2. ASSUME NEW a \in Nat, a \in T PROVE a + 1 \in T
  <2> SUFFICES ASSUME NEW r \in [1..(a + 1) -> Int], rkhash_init(P, r) # ABORT
               PROVE  HashOf(P, rkhash_init(P, r), r)
    OBVIOUS
  <2> DEFINE u == Cut(r, a)
  <2>1. u \in [1..a -> Int] /\ r[a + 1] \in Int
    BY CutType
  <2> HIDE DEF u
  <2>2. PICK g : g = rkhash_init(P, u)
    OBVIOUS
  <2>3. PICK c \in Int : c = r[a + 1]
    BY <2>1
  <2>4. RADIX \in Int /\ Value(u) \in Int
    BY <2>1, ValueType, RKAssumption
  <2>5. g = ABORT \/ HashOf(P, g, u)
    BY <1>2, <2>1, <2>2
  <2>6. g \in Int /\ (g # ABORT => Cong(P, g, Value(u)))
    BY <2>5, AbortIs DEF HashOf
  <2>7. PICK t : t = mmul(P, g, RADIX)
    OBVIOUS
  <2>8. rkhash_init(P, r) = madd(P, t, c)
    BY <2>2, <2>3, <2>7, InitNext DEF u
  <2>9. t \in Int /\ (t # ABORT => Cong(P, t, g * RADIX) /\ InRange(P, g))
    <3>1. t = ABORT => t \in Int
      BY AbortIs
    <3>2. t # ABORT => t \in 0..(P - 1) /\ Cong(P, t, g * RADIX) /\ InRange(P, g)
      BY <2>4, <2>6, <2>7, MmulFacts
    <3> QED BY <3>1, <3>2
  <2>10. /\ madd(P, t, c) \in 0..P /\ Cong(P, madd(P, t, c), t + c)
         /\ InRange(P, t)
    BY <2>8, <2>9, MaddFacts
  <2>11. t # ABORT /\ g # ABORT
    BY <2>9, <2>10, AbortIs DEF InRange
  <2>12. Cong(P, g * RADIX, Value(u) * RADIX)
    BY <2>4, <2>6, <2>11, CongTimes
  <2>13. g * RADIX \in Int /\ Value(u) * RADIX \in Int /\ t + c \in Int
         /\ Value(u) * RADIX + c \in Int /\ madd(P, t, c) \in Int
    BY <2>4, <2>6, <2>9, <2>10
  <2>14. Cong(P, t, Value(u) * RADIX)
    BY <2>9, <2>11, <2>12, <2>13, CongLink
  <2>15. Cong(P, t + c, Value(u) * RADIX + c)
    BY <2>9, <2>13, <2>14, CongSame, CongPlus
  <2>16. Cong(P, madd(P, t, c), Value(u) * RADIX + c)
    BY <2>10, <2>13, <2>15, CongLink
  <2>17. Value(r) = Value(u) * RADIX + c
    BY <2>3, ValueLast DEF u
  <2> QED BY <2>8, <2>10, <2>16, <2>17 DEF HashOf
<1>3. n \in T
  <2> HIDE DEF T
  <2> QED BY <1>1, <1>2, Induction
<1> QED BY <1>3

(* Above the radix, only a prefix that hashes to P makes it abort.         *)
LEMMA InitAborts ==
    ASSUME NEW P \in Nat, P > RADIX, NEW n \in Nat, NEW s \in [1..n -> 0..(RADIX - 1)],
           rkhash_init(P, s) = ABORT
    PROVE  \E a \in 1..n : Value(Cut(s, a)) % P = 0
<1> DEFINE T == {a \in Nat : \A r \in [1..a -> 0..(RADIX - 1)] :
                    rkhash_init(P, r) = ABORT =>
                        \E b \in 1..a : Value(Cut(r, b)) % P = 0}
<1>0. P \in Nat \ {0} /\ RADIX \in Nat /\ RADIX \in Int /\ RADIX > 0
  BY RKAssumption
<1>1. 0 \in T
  <2> SUFFICES ASSUME NEW r \in [1..0 -> 0..(RADIX - 1)] PROVE rkhash_init(P, r) # ABORT
    OBVIOUS
  <2>1. DOMAIN r = {}
    OBVIOUS
  <2> QED BY <2>1, InitEmpty, AbortIs
<1>2. ASSUME NEW a \in Nat, a \in T PROVE a + 1 \in T
  <2> SUFFICES ASSUME NEW r \in [1..(a + 1) -> 0..(RADIX - 1)], rkhash_init(P, r) = ABORT
               PROVE  \E b \in 1..(a + 1) : Value(Cut(r, b)) % P = 0
    OBVIOUS
  <2>1. Cut(r, a) \in [1..a -> 0..(RADIX - 1)] /\ r[a + 1] \in 0..(RADIX - 1)
    BY CutType
  <2>2. Cut(r, a) \in [1..a -> Int] /\ r \in [1..(a + 1) -> Int]
    BY <1>0, <2>1
  <2>3. CASE rkhash_init(P, Cut(r, a)) = ABORT
    <3>1. PICK b \in 1..a : Value(Cut(Cut(r, a), b)) % P = 0
      BY <1>2, <2>1, <2>3
    <3>2. Cut(Cut(r, a), b) = Cut(r, b) /\ b \in 1..(a + 1)
      BY DEF Cut
    <3> QED BY <3>1, <3>2
  <2>4. CASE rkhash_init(P, Cut(r, a)) # ABORT
    <3>1. PICK g : g = rkhash_init(P, Cut(r, a))
      OBVIOUS
    <3>2. HashOf(P, g, Cut(r, a))
      BY <1>0, <2>2, <2>4, <3>1, InitHashes
    <3>3. g \in 0..P
      BY <3>2 DEF HashOf
    <3>4. g = P
      <4> SUFFICES ASSUME g # P PROVE FALSE
        OBVIOUS
      <4>1. InRange(P, g) /\ InRange(P, RADIX) /\ InRange(P, r[a + 1]) /\ g \in Int
        BY <3>3, <1>0, <2>1 DEF InRange
      <4>0. ~(RADIX > RADIX)
        BY <1>0
      <4>2. mmul(P, g, RADIX) # ABORT /\ mmul(P, g, RADIX) \in 0..(P - 1)
        BY <4>0, <4>1, <1>0, MmulFacts, Zenon
      <4>3. PICK t \in 0..(P - 1) : t = mmul(P, g, RADIX)
        BY <4>2
      <4>4. InRange(P, t) /\ t \in Int /\ r[a + 1] \in Int
        BY <1>0, <2>1 DEF InRange
      <4>5. madd(P, t, r[a + 1]) # ABORT
        BY <1>0, <4>1, <4>4, MaddFacts
      <4>6. rkhash_init(P, r) = madd(P, t, r[a + 1])
        BY <2>2, <3>1, <4>3, InitNext
      <4> QED BY <4>5, <4>6
    <3>5. a # 0
      <4> SUFFICES ASSUME a = 0 PROVE FALSE
        OBVIOUS
      <4>1. DOMAIN Cut(r, a) = {}
        BY DEF Cut
      <4> QED BY <4>1, <3>1, <3>4, <1>0, InitEmpty
    <3>6. Cong(P, P, Value(Cut(r, a)))
      BY <3>2, <3>4 DEF HashOf
    <3>7. Value(Cut(r, a)) % P = 0
      <4>1. PICK y \in Int : y = Value(Cut(r, a))
        BY <2>2, ValueType
      <4>2. Cong(P, P, y)
        BY <4>1, <3>6
      <4>3. y % P = 0
        BY <4>2, <1>0, CongWhole
      <4> QED BY <4>1, <4>3
    <3>8. a \in 1..(a + 1)
      BY <3>5
    <3> QED BY <3>7, <3>8
  <2> QED BY <2>3, <2>4
<1>3. n \in T
  <2> HIDE DEF T
  <2> QED BY <1>1, <1>2, Induction
<1> QED BY <1>3

LEMMA PowerHashes ==
    ASSUME NEW P \in Nat \ {0, 1}, NEW n \in Nat
    PROVE  /\ Power(P, n) = ABORT \/ (Power(P, n) \in 0..(P - 1) /\ Cong(P, Power(P, n), Pow(n)))
           /\ P > RADIX => Power(P, n) # ABORT
<1> DEFINE Good(a, g) == /\ g = ABORT \/ (g \in 0..(P - 1) /\ Cong(P, g, Pow(a)))
                         /\ P > RADIX => g # ABORT
           T == {a \in Nat : Good(a, Power(P, a))}
<1>0. P \in Nat \ {0} /\ RADIX \in Nat /\ RADIX \in Int /\ RADIX > 0
  BY RKAssumption
<1>1. \A a : Power(P, a) = Fold(POWER, P, 1, Zeros(a))
  <2> SUFFICES ASSUME NEW a PROVE Power(P, a) = Fold(POWER, P, 1, Zeros(a))
    OBVIOUS
  <2> QED BY DEF Power, Zeros, Fold, Op, HASH, POWER, FoldLeft, MapThenFoldSet
<1>2. 0 \in T
  <2>1. DOMAIN Zeros(0) = {}
    BY DEF Zeros
  <2>2. Power(P, 0) = 1 /\ Pow(0) = 1
    BY <1>1, <2>1, FoldNone, PowNext
  <2>3. Cong(P, 1, 1) /\ 1 \in 0..(P - 1) /\ 1 # ABORT
    BY <1>0, CongSame, AbortIs
  <2> QED BY <2>2, <2>3
<1>3. ASSUME NEW a \in Nat, a \in T PROVE a + 1 \in T
  <2>1. /\ DOMAIN Zeros(a + 1) = 1..(a + 1) /\ DOMAIN Zeros(a) = 1..a
        /\ \A b \in 1..a : Zeros(a)[b] = Zeros(a + 1)[b]
    BY DEF Zeros
  <2>2. Power(P, a + 1) = Op(POWER, P, Power(P, a), Zeros(a + 1)[a + 1])
    BY <2>1, <1>1, FoldSome
  <2>3. PICK g : g = Power(P, a)
    OBVIOUS
  <2>4. Power(P, a + 1) = mmul(P, g, RADIX)
    BY <2>2, <2>3 DEF Op, HASH, POWER
  <2>5. Good(a, g)
    BY <1>3, <2>3
  <2>6. g \in Int
    BY <2>5, AbortIs
  <2>7. PICK t : t = mmul(P, g, RADIX)
    OBVIOUS
  <2>8. ASSUME t # ABORT PROVE t \in 0..(P - 1) /\ Cong(P, t, Pow(a + 1))
    <3>1. t \in 0..(P - 1) /\ Cong(P, t, g * RADIX) /\ InRange(P, g)
      BY <2>6, <2>7, <2>8, <1>0, MmulFacts
    <3>2. g # ABORT
      BY <3>1, AbortIs DEF InRange
    <3>3. Pow(a) \in Int /\ Pow(a + 1) = Pow(a) * RADIX + 0
      BY PowType, PowNext
    <3>4. Cong(P, g * RADIX, Pow(a) * RADIX)
      BY <3>2, <3>3, <2>5, <2>6, <1>0, CongTimes
    <3>5. Pow(a + 1) = Pow(a) * RADIX /\ g * RADIX \in Int /\ Pow(a) * RADIX \in Int /\ t \in Int
      BY <3>1, <3>3, <2>6, <1>0
    <3> QED BY <3>1, <3>4, <3>5, <1>0, CongLink
  <2>9. ASSUME P > RADIX PROVE t # ABORT
    <3>1. InRange(P, g) /\ InRange(P, RADIX) /\ ~(RADIX > RADIX)
      BY <2>5, <2>9, <1>0 DEF InRange
    <3> QED BY <3>1, <2>6, <2>7, <1>0, MmulFacts, Zenon
  <2>10. Good(a + 1, t)
    BY <2>8, <2>9
  <2> QED BY <2>4, <2>7, <2>10
<1>4. n \in T
  <2> HIDE DEF T
  <2> QED BY <1>2, <1>3, Induction
<1> QED BY <1>4

(* Rolling by one character: the exact values.                             *)
LEMMA ValueRolls ==
    ASSUME NEW n \in Nat, NEW s \in [1..(n + 1) -> Int]
    PROVE  Value(Rest(s, n)) = Value(Cut(s, n)) * RADIX - s[1] * Pow(n) + s[n + 1]
<1>1. /\ Cut(s, n) \in [1..n -> Int] /\ Rest(s, n) \in [1..n -> Int]
      /\ s[n + 1] \in Int /\ s[1] \in Int
  BY CutType
<1>2. PICK x \in Int : x = Value(Cut(s, n))
  BY <1>1, ValueType
<1>3. PICK y \in Int : y = Value(Rest(s, n))
  BY <1>1, ValueType
<1>4. PICK z \in Int : z = s[1] * Pow(n)
  BY <1>1, PowType
<1>5. PICK e \in Int : e = x * RADIX
  BY RKAssumption
<1>6. z + y = e + s[n + 1]
  <2>1. Value(s) = Value(Cut(s, n)) * RADIX + s[n + 1]
    BY ValueLast
  <2>2. Value(s) = s[1] * Pow(n) + Value(Rest(s, n))
    BY ValueFirst
  <2> QED BY <1>2, <1>3, <1>4, <1>5, <2>1, <2>2, Zenon
<1>7. y = e - z + s[n + 1]
  BY <1>1, <1>6
<1> QED BY <1>2, <1>3, <1>4, <1>5, <1>7, Zenon

(* rkhash_next: what it returns, and when it aborts above the radix.       *)
LEMMA NextHashes ==
    ASSUME NEW P \in Nat \ {0}, NEW cur \in Int, NEW pow \in Int,
           NEW prev \in Int, NEW next \in Int,
           rkhash_next(P, cur, pow, prev, next) # ABORT
    PROVE  /\ rkhash_next(P, cur, pow, prev, next) \in 0..P
           /\ Cong(P, rkhash_next(P, cur, pow, prev, next), cur * RADIX - prev * pow + next)
<1>0. RADIX \in Int
  BY RKAssumption
<1>1. PICK t : t = mmul(P, cur, RADIX)
  OBVIOUS
<1>2. PICK u : u = mmul(P, prev, pow)
  OBVIOUS
<1>3. t \in Int /\ (t # ABORT => Cong(P, t, cur * RADIX))
  <2>1. t = ABORT => t \in Int
    BY AbortIs
  <2>2. t # ABORT => t \in 0..(P - 1) /\ Cong(P, t, cur * RADIX)
    BY <1>0, <1>1, MmulFacts
  <2> QED BY <2>1, <2>2
<1>4. u \in Int /\ (u # ABORT => Cong(P, u, prev * pow))
  <2>1. u = ABORT => u \in Int
    BY AbortIs
  <2>2. u # ABORT => u \in 0..(P - 1) /\ Cong(P, u, prev * pow)
    BY <1>2, MmulFacts
  <2> QED BY <2>1, <2>2
<1>5. PICK d : d = mdel(P, t, u)
  OBVIOUS
<1>6. /\ d \in Int
      /\ d # ABORT => Cong(P, d, t - u) /\ InRange(P, t) /\ InRange(P, u)
  <2>1. d = ABORT => d \in Int
    BY AbortIs
  <2>2. d # ABORT => /\ d \in 0..P /\ Cong(P, d, t - u)
                     /\ InRange(P, t) /\ InRange(P, u)
    BY <1>3, <1>4, <1>5, MdelFacts
  <2> QED BY <2>1, <2>2
<1>7. PICK r : r = madd(P, d, next)
  OBVIOUS
<1>8. r = rkhash_next(P, cur, pow, prev, next)
  BY <1>1, <1>2, <1>5, <1>7 DEF rkhash_next
<1>9. r \in 0..P /\ Cong(P, r, d + next) /\ InRange(P, d)
  BY <1>6, <1>7, <1>8, MaddFacts
<1>10. d # ABORT /\ t # ABORT /\ u # ABORT
  BY <1>6, <1>9, AbortIs DEF InRange
<1>11. cur * RADIX \in Int /\ prev * pow \in Int
  BY <1>0
<1>12. PICK x \in Int : x = cur * RADIX
  BY <1>11
<1>13. PICK y \in Int : y = prev * pow
  BY <1>11
<1>14. Cong(P, t - u, x - y)
  BY <1>3, <1>4, <1>10, <1>12, <1>13, CongPlus
<1>15. Cong(P, d, x - y)
  <2>1. t - u \in Int /\ x - y \in Int
    BY <1>3, <1>4
  <2> QED BY <2>1, <1>6, <1>10, <1>14, CongLink
<1>16. x - y \in Int /\ d + next \in Int /\ x - y + next \in Int /\ r \in Int
  BY <1>6, <1>9
<1>17. Cong(P, d + next, x - y + next)
  BY <1>6, <1>15, <1>16, CongSame, CongPlus
<1>18. Cong(P, r, x - y + next)
  BY <1>9, <1>16, <1>17, CongLink
<1> QED BY <1>8, <1>9, <1>12, <1>13, <1>18

LEMMA NextAborts ==
    ASSUME NEW P \in Nat, P > RADIX, NEW cur \in 0..P, NEW pow \in 0..(P - 1),
           NEW prev \in 0..(RADIX - 1), NEW next \in 0..(RADIX - 1),
           rkhash_next(P, cur, pow, prev, next) = ABORT
    PROVE  cur = P \/ Cong(P, cur * RADIX, prev * pow)
<1> SUFFICES ASSUME cur # P PROVE Cong(P, cur * RADIX, prev * pow)
  OBVIOUS
<1>0. RADIX \in Int /\ RADIX > 0 /\ P \in Nat \ {0}
  BY RKAssumption
<1>1. /\ InRange(P, cur) /\ InRange(P, RADIX) /\ InRange(P, prev) /\ InRange(P, pow)
      /\ InRange(P, next) /\ ~(RADIX > RADIX) /\ ~(prev > RADIX)
      /\ cur \in Int /\ prev \in Int /\ pow \in Int /\ next \in Int
  BY <1>0 DEF InRange
<1>2. PICK t : t = mmul(P, cur, RADIX)
  OBVIOUS
<1>3. PICK u : u = mmul(P, prev, pow)
  OBVIOUS
<1>4. mmul(P, cur, RADIX) # ABORT /\ mmul(P, prev, pow) # ABORT
  BY <1>0, <1>1, MmulFacts, Zenon
<1>5. t \in 0..(P - 1) /\ Cong(P, t, cur * RADIX)
  BY <1>0, <1>1, <1>2, <1>4, MmulFacts
<1>6. u \in 0..(P - 1) /\ Cong(P, u, prev * pow)
  BY <1>0, <1>1, <1>3, <1>4, MmulFacts
<1>7. InRange(P, t) /\ InRange(P, u) /\ t \in Int /\ u \in Int
  BY <1>0, <1>5, <1>6 DEF InRange
<1>8. PICK d : d = mdel(P, t, u)
  OBVIOUS
<1>9. d # ABORT
  <2>1. d = IF t > u THEN t - u ELSE t + P - u
    BY <1>7, <1>8 DEF mdel
  <2> QED BY <2>1, <1>0, <1>7, AbortIs DEF InRange
<1>10. d \in 0..P /\ (d = P <=> t = u)
  <2>1. d = IF t > u THEN t - u ELSE t + P - u
    BY <1>7, <1>8 DEF mdel
  <2> QED BY <2>1, <1>0, <1>5, <1>6
<1>11. madd(P, d, next) = ABORT
  BY <1>2, <1>3, <1>8 DEF rkhash_next
<1>12. ~InRange(P, d)
  <2>1. d \in Int
    BY <1>10
  <2> QED BY <2>1, <1>0, <1>1, <1>11, MaddFacts
<1>13. t = u
  BY <1>0, <1>10, <1>12 DEF InRange
<1>14. cur * RADIX \in Int /\ prev * pow \in Int
  BY <1>0, <1>1
<1>15. Cong(P, cur * RADIX, t)
  BY <1>0, <1>5, <1>7, <1>14, CongTurn
<1> QED BY <1>0, <1>6, <1>7, <1>13, <1>14, <1>15, CongLink
-----------------------------------------------------------------------------
(* The n characters of a document behind an offset.                        *)
Text(s, o, n) == [c \in 1..n |-> s[o + c]]

LEMMA TextType ==
    ASSUME NEW S, NEW s \in Seq(S), NEW o \in Nat, NEW n \in Nat, o + n <= Len(s)
    PROVE  Text(s, o, n) \in [1..n -> S] /\ Text(s, o, n) \in Seq(S) /\ Len(Text(s, o, n)) = n
<1>1. Len(s) \in Nat /\ s \in [1..Len(s) -> S]
  BY LenProperties
<1>2. ASSUME NEW c \in 1..n PROVE s[o + c] \in S
  <2>1. o + c \in 1..Len(s)
    BY <1>1
  <2> QED BY <2>1, <1>1
<1>3. Text(s, o, n) \in [1..n -> S]
  BY <1>2 DEF Text
<1>4. Text(s, o, n) \in Seq(S)
  BY <1>3, SeqDef
<1>5. Len(Text(s, o, n)) = n
  BY <1>3, <1>4, LenProperties
<1> QED BY <1>3, <1>4, <1>5

LEMMA SubSeqIsText ==
    ASSUME NEW S, NEW s \in Seq(S), NEW o \in Nat, NEW n \in Nat, o + n <= Len(s)
    PROVE  SubSeq(s, o + 1, o + n) = Text(s, o, n)
<1>1. Len(s) \in Nat /\ s \in [1..Len(s) -> S]
  BY LenProperties
<1>2. ASSUME NEW c \in (o + 1)..(o + n) PROVE s[c] \in S
  <2>1. c \in 1..Len(s)
    BY <1>1
  <2> QED BY <2>1, <1>1
<1>3. o + 1 \in Int /\ o + n \in Int
  OBVIOUS
<1> DEFINE f == SubSeq(s, o + 1, o + n)
<1>4. /\ f \in Seq(S)
      /\ Len(f) = IF o + 1 <= o + n THEN (o + n) - (o + 1) + 1 ELSE 0
      /\ \A c \in 1..((o + n) - (o + 1) + 1) : f[c] = s[(o + 1) + c - 1]
  BY <1>2, <1>3, SubSeqProperties
<1> HIDE DEF f
<1>5. Len(f) = n /\ (o + n) - (o + 1) + 1 = n /\ \A c \in 1..n : (o + 1) + c - 1 = o + c
  BY <1>4
<1>6. f \in [1..n -> S]
  BY <1>4, <1>5, LenProperties
<1>7. \A c \in 1..n : f[c] = s[o + c]
  BY <1>4, <1>5
<1>8. f = Text(s, o, n)
  BY <1>6, <1>7 DEF Text
<1> QED BY <1>8 DEF f

(* The pieces of a window that the properties speak of.                    *)
LEMMA PieceOfText ==
    ASSUME NEW S, NEW w \in Seq(S), NEW n \in Nat, n >= 1, Len(w) = n
    PROVE  /\ \A a \in 1..n : Cut(w, a) \in Pieces(w)
           /\ Rest(w, n - 1) \in Pieces(w)
<1>1. ASSUME NEW a \in 1..n PROVE Cut(w, a) \in Pieces(w)
  <2>1. a \in Nat /\ 0 + a <= Len(w) /\ 0 \in Nat
    OBVIOUS
  <2>2. SubSeq(w, 0 + 1, 0 + a) = Text(w, 0, a)
    BY <2>1, SubSeqIsText
  <2>3. 0 + 1 = 1 /\ 0 + a = a /\ \A c \in 1..a : 0 + c = c
    OBVIOUS
  <2>4. Text(w, 0, a) = Cut(w, a)
    BY <2>3 DEF Text, Cut
  <2>5. Cut(w, a) = SubSeq(w, 1, a)
    BY <2>2, <2>3, <2>4
  <2> QED BY <2>5 DEF Pieces
<1>2. Rest(w, n - 1) \in Pieces(w)
  <2>1. n - 1 \in Nat /\ 1 \in Nat /\ 1 + (n - 1) <= Len(w)
    OBVIOUS
  <2>2. SubSeq(w, 1 + 1, 1 + (n - 1)) = Text(w, 1, n - 1)
    BY <2>1, SubSeqIsText
  <2>3. 1 + 1 = 2 /\ 1 + (n - 1) = n /\ \A c \in 1..(n - 1) : 1 + c = c + 1
    OBVIOUS
  <2>4. Text(w, 1, n - 1) = Rest(w, n - 1)
    BY <2>3 DEF Text, Rest
  <2>5. Rest(w, n - 1) = SubSeq(w, 2, Len(w))
    BY <2>2, <2>3, <2>4
  <2> QED BY <2>5 DEF Pieces
<1> QED BY <1>1, <1>2

LEMMA TextShift ==
    ASSUME NEW s, NEW o \in Nat, NEW n \in Nat
    PROVE  /\ Cut(Text(s, o, n + 1), n) = Text(s, o, n)
           /\ Rest(Text(s, o, n + 1), n) = Text(s, o + 1, n)
           /\ Text(s, o, n + 1)[1] = s[o + 1] /\ Text(s, o, n + 1)[n + 1] = s[o + n + 1]
<1>1. \A c \in 1..n : c \in 1..(n + 1) /\ c + 1 \in 1..(n + 1) /\ o + (c + 1) = (o + 1) + c
  OBVIOUS
<1>2. 1 \in 1..(n + 1) /\ n + 1 \in 1..(n + 1) /\ o + (n + 1) = o + n + 1
  OBVIOUS
<1> QED BY <1>1, <1>2 DEF Text, Cut, Rest

-----------------------------------------------------------------------------
(* -q is meant to be a prime: only then has a product to have a factor     *)
(* that is 0 to be 0.                                                      *)
IsPrime(q) == q > 1 /\ \A d \in 2..(q - 1) : q % d # 0
PrimesArePrime == \A q \in Primes : IsPrime(q)

LEMMA Euclid ==
    ASSUME NEW P \in Nat, IsPrime(P), NEW r \in 1..(P - 1), NEW x \in Int, (x * r) % P = 0
    PROVE  x % P = 0
<1> DEFINE T == {m \in Nat \ {0} : \E q \in Int : x * m = P * q}
<1>0. P \in Nat \ {0} /\ P > 1
  BY DEF IsPrime
<1>1. r \in T
  <2>1. x * r \in Int /\ r \in Nat \ {0}
    BY <1>0
  <2> QED BY <2>1, <1>0, Divided
<1>2. PICK m \in T : \A y \in T : m <= y
  <2>1. T \in SUBSET Nat /\ T # {}
    BY <1>1
  <2> HIDE DEF T
  <2> QED BY <2>1, LeastOf
<1>3. PICK q \in Int : x * m = P * q
  BY <1>2
<1>4. m \in Nat \ {0} /\ m < P
  <2>1. m <= r
    BY <1>1, <1>2
  <2> QED BY <2>1, <1>0, <1>2
<1> HIDE DEF T
<1>11. P \in Int /\ P \div m \in Int /\ P % m \in 0..(m - 1)
       /\ P = m * (P \div m) + (P % m)
  <2>1. P \in Int
    OBVIOUS
  <2> QED BY <1>4, <2>1, DivMod
<1>5. PICK a \in Int : a = P \div m
  BY <1>11
<1>6. PICK c \in 0..(m - 1) : c = P % m
  BY <1>11
<1>7. P = m * a + c
  BY <1>5, <1>6, <1>11
<1>8. c = 0
  <2> SUFFICES ASSUME c # 0 PROVE FALSE
    OBVIOUS
  <2>1. c = P - m * a
    BY <1>0, <1>4, <1>7
  <2>2. x * c = x * P - (x * m) * a
    BY <2>1, <1>0, <1>4
  <2>3. x * c = x * P - (P * q) * a
    BY <2>2, <1>3
  <2>4. x * c = P * (x - q * a) /\ x - q * a \in Int
    BY <2>3, <1>0
  <2>5. c \in Nat \ {0} /\ c < m
    BY <1>4, <1>6
  <2>6. c \in T
    BY <2>4, <2>5 DEF T
  <2> QED BY <2>5, <2>6, <1>2, <1>4
<1>9. m = 1
  <2> SUFFICES ASSUME m # 1 PROVE FALSE
    OBVIOUS
  <2>1. m \in 2..(P - 1)
    BY <1>4
  <2> QED BY <2>1, <1>6, <1>8 DEF IsPrime
<1>10. x = P * q
  BY <1>3, <1>9
<1> QED BY <1>0, <1>10, Divided

LEMMA CharsAre ==
    ASSUME NEW n \in Nat, NEW w \in [1..n -> Chars]
    PROVE  w \in [1..n -> Int] /\ w \in [1..n -> 0..(RADIX - 1)]
<1>1. Chars \subseteq 0..(RADIX - 1) /\ Chars \subseteq Int
  BY RKAssumption, DocsAssumption
<1> QED BY <1>1

LEMMA EmptyPiece ==
    ASSUME NEW S, NEW w \in Seq(S), Len(w) = 0, NEW P \in Nat \ {0}
    PROVE  \E p \in Pieces(w) : Value(p) % P = 0
<1>1. SubSeq(w, 2, Len(w)) = <<>>
  BY SubSeqEmpty
<1>2. <<>> \in Pieces(w)
  BY <1>1 DEF Pieces
<1>3. Value(<<>>) = 0
  BY ValueEmpty
<1>4. 0 % P = 0
  OBVIOUS
<1> QED BY <1>2, <1>3, <1>4

(* One slide of a window, in the terms of the document.                    *)
LEMMA SlideHashes ==
    ASSUME NEW P \in Nat \ {0, 1}, NEW s \in Seq(Chars), NEW o \in Nat, NEW n \in Nat,
           o + n < Len(s), NEW cur, HashOf(P, cur, Text(s, o, n)),
           NEW pow \in 0..(P - 1), Cong(P, pow, Pow(n)),
           NEW next, next = rkhash_next(P, cur, pow, s[o + 1], s[o + n + 1])
    PROVE  /\ next # ABORT => HashOf(P, next, Text(s, o + 1, n))
           /\ next = ABORT /\ P > RADIX /\ IsPrime(P) =>
                \E p \in Pieces(Text(s, o, n)) : Value(p) % P = 0
<1> DEFINE t == Text(s, o, n + 1)
           w == Text(s, o, n)
           z == Text(s, o + 1, n)
<1>0. /\ P \in Nat \ {0} /\ Len(s) \in Nat /\ RADIX \in Int /\ RADIX > 0 /\ pow \in Int
      /\ o + (n + 1) <= Len(s) /\ n + 1 \in Nat
  BY LenProperties, RKAssumption
<1>1. t \in [1..(n + 1) -> Chars] /\ w \in [1..n -> Chars] /\ w \in Seq(Chars) /\ Len(w) = n
  <2>1. t \in [1..(n + 1) -> Chars]
    BY <1>0, TextType
  <2>2. o + n <= Len(s)
    BY <1>0
  <2> QED BY <2>1, <2>2, TextType
<1>2. Cut(t, n) = w /\ Rest(t, n) = z /\ t[1] = s[o + 1] /\ t[n + 1] = s[o + n + 1]
  BY TextShift
<1>3. /\ t \in [1..(n + 1) -> Int] /\ t \in [1..(n + 1) -> 0..(RADIX - 1)]
      /\ w \in [1..n -> Int]
  BY <1>0, <1>1, CharsAre
<1> HIDE DEF t, w, z
<1>4. /\ s[o + 1] \in 0..(RADIX - 1) /\ s[o + n + 1] \in 0..(RADIX - 1)
      /\ z \in [1..n -> Int]
  BY <1>2, <1>3, CutType
<1>5. PICK prev \in 0..(RADIX - 1) : prev = s[o + 1]
  BY <1>4
<1>6. PICK last \in 0..(RADIX - 1) : last = s[o + n + 1]
  BY <1>4
<1>7. prev \in Int /\ last \in Int
  BY <1>0
<1>8. PICK v \in Int : v = Value(w)
  BY <1>3, ValueType
<1>9. PICK y \in Int : y = Pow(n)
  BY PowType
<1>10. Value(z) = v * RADIX - prev * y + last
  BY <1>2, <1>3, <1>5, <1>6, <1>8, <1>9, ValueRolls
<1>11. cur \in 0..P /\ cur \in Int /\ Cong(P, cur, v)
  BY <1>8 DEF HashOf, w
<1>12. Cong(P, cur * RADIX, v * RADIX)
  BY <1>0, <1>11, CongTimes
<1>13. Cong(P, prev * pow, prev * y)
  <2>1. Cong(P, pow * prev, y * prev)
    BY <1>0, <1>7, <1>9, CongTimes
  <2>2. pow * prev = prev * pow /\ y * prev = prev * y
    BY <1>0, <1>7
  <2> QED BY <2>1, <2>2
<1>14. /\ cur * RADIX \in Int /\ v * RADIX \in Int /\ prev * pow \in Int /\ prev * y \in Int
  BY <1>0, <1>7, <1>11
<1>15. PICK c1 \in Int : c1 = cur * RADIX
  BY <1>14
<1>16. PICK c2 \in Int : c2 = v * RADIX
  BY <1>14
<1>17. PICK c3 \in Int : c3 = prev * pow
  BY <1>14
<1>18. PICK c4 \in Int : c4 = prev * y
  BY <1>14
<1>19. next = rkhash_next(P, cur, pow, prev, last)
  BY <1>5, <1>6
<1>20. ASSUME next # ABORT PROVE HashOf(P, next, z)
  <2>1. next \in 0..P /\ Cong(P, next, c1 - c3 + last)
    <3>1. rkhash_next(P, cur, pow, prev, last) # ABORT
      BY <1>19, <1>20
    <3>2. /\ rkhash_next(P, cur, pow, prev, last) \in 0..P
          /\ Cong(P, rkhash_next(P, cur, pow, prev, last), cur * RADIX - prev * pow + last)
      BY <3>1, <1>0, <1>7, <1>11, NextHashes
    <3> QED BY <3>2, <1>15, <1>17, <1>19
  <2>2. Cong(P, c1 - c3, c2 - c4)
    BY <1>0, <1>12, <1>13, <1>15, <1>16, <1>17, <1>18, CongPlus
  <2>3. c1 - c3 \in Int /\ c2 - c4 \in Int /\ c1 - c3 + last \in Int /\ c2 - c4 + last \in Int
        /\ next \in Int
    BY <1>7, <2>1
  <2>4. Cong(P, c1 - c3 + last, c2 - c4 + last)
    BY <1>0, <1>7, <2>2, <2>3, CongSame, CongPlus
  <2>5. Cong(P, next, c2 - c4 + last)
    BY <1>0, <2>1, <2>3, <2>4, CongLink
  <2> QED BY <2>1, <2>5, <1>10, <1>16, <1>18 DEF HashOf
<1>21. ASSUME next = ABORT, P > RADIX, IsPrime(P) PROVE \E p \in Pieces(w) : Value(p) % P = 0
  <2>1. CASE n = 0
    BY <2>1, <1>0, <1>1, EmptyPiece
  <2>2. CASE n # 0
    <3>1. PICK m \in Nat : n = m + 1
      <4>1. n - 1 \in Nat /\ n = (n - 1) + 1
        BY <2>2
      <4> QED BY <4>1
    <3>2. Cut(w, n) \in Pieces(w) /\ Rest(w, m) \in Pieces(w)
      <4>1. n >= 1 /\ n - 1 = m /\ n \in 1..n
        BY <3>1
      <4> QED BY <4>1, <1>1, PieceOfText
    <3>3. Cut(w, n) = w
      BY <1>1 DEF Cut
    <3>4. CASE cur = P
      <4>1. v % P = 0
        BY <3>4, <1>0, <1>11, CongWhole
      <4> QED BY <4>1, <3>2, <3>3, <1>8
    <3>5. CASE cur # P
      <4>1. Cong(P, c1, c3)
        BY <3>5, <1>0, <1>11, <1>15, <1>17, <1>19, <1>21, NextAborts
      <4>2. Cong(P, c2, c1)
        BY <1>0, <1>12, <1>15, <1>16, CongTurn
      <4>3. Cong(P, c2, c3)
        BY <4>1, <4>2, <1>0, CongLink
      <4>4. Cong(P, c3, c4)
        BY <1>13, <1>17, <1>18
      <4>5. Cong(P, c2, c4)
        BY <4>3, <4>4, <1>0, CongLink
      <4>6. w \in [1..(m + 1) -> Int] /\ w[1] = prev
        <5>1. 1 \in 1..n
          BY <2>2
        <5>2. w[1] = t[1]
          BY <5>1, <1>2 DEF Cut
        <5> QED BY <5>2, <1>2, <1>3, <1>5, <3>1
      <4>7. PICK g \in Int : g = Pow(m)
        BY PowType
      <4>8. PICK x \in Int : x = Value(Rest(w, m))
        BY <4>6, CutType, ValueType
      <4>9. v = prev * g + x
        BY <4>6, <4>7, <4>8, <1>8, ValueFirst
      <4>10. y = g * RADIX
        <5>1. y = g * RADIX + 0
          BY <3>1, <4>7, <1>9, PowNext
        <5>2. g * RADIX \in Int
          BY <1>0
        <5> QED BY <5>1, <5>2
      <4>11. c2 - c4 = x * RADIX
        <5>1. c2 = (prev * g + x) * RADIX /\ c4 = prev * (g * RADIX)
          BY <4>9, <4>10, <1>16, <1>18
        <5>2. (prev * g + x) * RADIX = prev * (g * RADIX) + x * RADIX
          BY <1>0, <1>7
        <5>3. PICK d \in Int : d = x * RADIX
          BY <1>0
        <5>4. PICK f \in Int : f = prev * (g * RADIX)
          BY <1>0, <1>7
        <5>5. c2 = f + d /\ c4 = f
          BY <5>1, <5>2, <5>3, <5>4, Zenon
        <5>6. c2 - c4 = d
          BY <5>5
        <5> QED BY <5>3, <5>6
      <4>12. (x * RADIX) % P = 0
        BY <4>5, <4>11 DEF Cong
      <4>13. RADIX \in 1..(P - 1)
        BY <1>0, <1>21
      <4>14. x % P = 0
        BY <4>12, <4>13, <1>21, Euclid
      <4> QED BY <4>14, <4>8, <3>2
    <3> QED BY <3>4, <3>5
  <2> QED BY <2>1, <2>2
<1> QED BY <1>20, <1>21 DEF w, z

-----------------------------------------------------------------------------
(* What holds between the steps of rkmatch_main.c: the places of the loops *)
(* and the hashes.                                                         *)
RKTypes ==
    /\ solved \in BOOLEAN /\ k \in Sizes /\ which_algo \in 0..4 /\ BIG_PRIME \in Primes
    /\ X \in Seq(Chars) /\ Len(X) <= MaxX /\ Y \in Seq(Chars) /\ Len(Y) <= MaxY
    /\ pc \in {"options", "dispatch", "chunk", "window", "insert", "query", "over"}
    /\ i \in Nat /\ j \in Nat /\ num_matched \in Nat
    /\ outcome = "running" <=> pc # "over"

PlaceInv ==
    /\ k = 0 => i = 0
    /\ k > 0 => i % k = 0
    /\ pc \in {"options", "dispatch", "insert"} => num_matched = 0
    /\ pc \in {"options", "dispatch"} => i = 0
    /\ pc = "chunk" => which_algo \in {SIMPLE, RK} \/ ~solved
    /\ pc = "window" => which_algo = RK /\ solved /\ i + k <= Len(X)
    /\ pc \in {"insert", "query"} =>
         which_algo = RKBATCH /\ solved /\ k > 0 /\ bsz = FilterSize(Len(X))

Rolled ==
    /\ j + k <= Len(Y)
    /\ HashOf(BIG_PRIME, curr, Window(j))
    /\ h \in 0..(BIG_PRIME - 1) /\ Cong(BIG_PRIME, h, Pow(k))

HashInv ==
    /\ pc = "window" => HashOf(BIG_PRIME, ph, Chunk(i))
    /\ pc \in {"window", "query"} => Rolled

RollInv == RKTypes /\ PlaceInv /\ HashInv

-----------------------------------------------------------------------------
LEMMA Modulus ==
    RKTypes => /\ BIG_PRIME \in Nat \ {0, 1} /\ k \in Nat /\ MaxX \in Nat /\ MaxY \in Nat
               /\ Len(X) \in Nat /\ Len(Y) \in Nat
<1> SUFFICES ASSUME RKTypes
             PROVE  /\ BIG_PRIME \in Nat \ {0, 1} /\ k \in Nat /\ MaxX \in Nat /\ MaxY \in Nat
                    /\ Len(X) \in Nat /\ Len(Y) \in Nat
  OBVIOUS
<1>1. X \in Seq(Chars) /\ Y \in Seq(Chars) /\ BIG_PRIME \in Primes /\ k \in Sizes
  BY DEF RKTypes
<1>2. Len(X) \in Nat /\ Len(Y) \in Nat
  BY <1>1, LenProperties
<1> QED BY <1>1, <1>2, DocsAssumption

(* The offsets of chunks are the multiples of their length.                *)
LEMMA ChunkStep ==
    ASSUME NEW n \in Nat \ {0}, NEW a \in Nat, a % n = 0
    PROVE  /\ (a + n) % n = 0
           /\ \A o \in Nat : o % n = 0 /\ a <= o /\ o < a + n => o = a
<1>1. PICK q \in Int : a = n * q
  BY Divided
<1>2. (a + n) % n = 0
  <2>1. a + n = n * (q + 1) /\ q + 1 \in Int /\ a + n \in Int
    BY <1>1
  <2> QED BY <2>1, Divided
<1>3. ASSUME NEW o \in Nat, o % n = 0, a <= o, o < a + n PROVE o = a
  <2>0. o \in Int
    OBVIOUS
  <2>1. PICK r \in Int : o = n * r
    BY <1>3, <2>0, Divided
  <2>2. n * (r - q) = o - a /\ r - q \in Int
    BY <1>1, <2>1
  <2>3. r - q = 0
    BY <2>2, <1>3, SmallMultiple
  <2> QED BY <2>2, <2>3
<1> QED BY <1>2, <1>3

LEMMA InitRoll == Init => RollInv
<1> SUFFICES ASSUME Init PROVE RollInv
  OBVIOUS
<1>1. k \in Nat
  BY DocsAssumption DEF Init
<1>2. k > 0 => 0 % k = 0
  BY <1>1
<1>3. <<>> \in Seq(Chars) /\ Len(<<>>) = 0
  BY EmptySeq
<1>4. RKTypes
  BY <1>3, DocsAssumption DEF Init, RKTypes
<1>5. PlaceInv
  BY <1>2 DEF Init, PlaceInv
<1>6. HashInv
  BY DEF Init, HashInv
<1> QED BY <1>4, <1>5, <1>6 DEF RollInv

(* The last step of a run changes nothing but the outcome.                 *)
LEMMA EndRoll ==
    ASSUME RollInv, NEW result, End(result), result # "running", UNCHANGED <<opts, docs, i>>
    PROVE  RollInv'
<1>1. RKTypes'
  BY DEF RollInv, RKTypes, End, opts, docs
<1>2. PlaceInv'
  BY DEF RollInv, PlaceInv, End, opts
<1>3. HashInv'
  BY DEF HashInv, End
<1> QED BY <1>1, <1>2, <1>3 DEF RollInv

LEMMA ReadFilesRoll == RollInv /\ ReadFiles => RollInv'
<1> SUFFICES ASSUME RollInv, ReadFiles PROVE RollInv'
  OBVIOUS
<1>1. CASE End("exit") /\ UNCHANGED docs
  BY <1>1, EndRoll DEF ReadFiles
<1>2. CASE pc' = "dispatch"
  <2>1. /\ IF solved THEN X' \in Docs(MaxX) /\ Y' \in Docs(MaxY)
                     ELSE X' = <<>> /\ Y' = <<>>
        /\ UNCHANGED <<j, hashes, num_matched, outcome, opts, i, filter>> /\ pc = "options"
    BY <1>2, Zenon DEF ReadFiles, End
  <2>2. ASSUME NEW n \in Nat, NEW d \in Docs(n) PROVE d \in Seq(Chars) /\ Len(d) <= n
    <3>1. PICK l \in 0..n : d \in [1..l -> Chars]
      BY DEF Docs
    <3>2. d \in Seq(Chars)
      BY <3>1, SeqDef
    <3>3. Len(d) = l
      BY <3>1, <3>2, LenProperties
    <3> QED BY <3>1, <3>2, <3>3
  <2>3. X' \in Seq(Chars) /\ Len(X') <= MaxX /\ Y' \in Seq(Chars) /\ Len(Y') <= MaxY
    <3>1. CASE solved
      BY <3>1, <2>1, <2>2, DocsAssumption
    <3>2. CASE ~solved
      <4>1. <<>> \in Seq(Chars) /\ Len(<<>>) = 0
        BY EmptySeq
      <4> QED BY <3>2, <4>1, <2>1, DocsAssumption
    <3> QED BY <3>1, <3>2
  <2>4. RKTypes'
    BY <1>2, <2>1, <2>3 DEF RollInv, RKTypes, opts
  <2>5. PlaceInv'
    BY <1>2, <2>1 DEF RollInv, PlaceInv, opts
  <2>6. HashInv'
    BY <1>2 DEF HashInv
  <2> QED BY <2>4, <2>5, <2>6 DEF RollInv
<1> QED BY <1>1, <1>2 DEF ReadFiles

LEMMA DispatchRoll == RollInv /\ Dispatch => RollInv'
<1> SUFFICES ASSUME RollInv, Dispatch PROVE RollInv'
  OBVIOUS
<1>1. CASE \E result \in {"exact", "not exact", "divide", "exit"} : End(result)
  BY <1>1, EndRoll DEF Dispatch
<1>2. CASE /\ which_algo \in {SIMPLE, RK} /\ pc' = "chunk"
           /\ UNCHANGED <<j, hashes, filter, num_matched, outcome>>
  <2>1. RKTypes'
    BY <1>2 DEF Dispatch, RollInv, RKTypes, opts, docs
  <2>2. PlaceInv'
    BY <1>2 DEF Dispatch, RollInv, PlaceInv, opts
  <2>3. HashInv'
    BY <1>2 DEF HashInv
  <2> QED BY <2>1, <2>2, <2>3 DEF RollInv
<1>3. CASE /\ which_algo = RKBATCH /\ k > 0 /\ bsz' = FilterSize(Len(X))
           /\ pc' = IF solved THEN "insert" ELSE "chunk"
           /\ UNCHANGED <<j, hashes, num_matched, outcome>>
  <2>1. RKTypes'
    BY <1>3 DEF Dispatch, RollInv, RKTypes, opts, docs
  <2>2. PlaceInv'
    <3>1. FilterSize(Len(X))' = FilterSize(Len(X))
      BY DEF Dispatch, FilterSize, opts, docs
    <3> QED BY <1>3, <3>1 DEF Dispatch, RollInv, PlaceInv, opts
  <2>3. HashInv'
    BY <1>3 DEF HashInv
  <2> QED BY <2>1, <2>2, <2>3 DEF RollInv
<1>4. \/ \E result \in {"exact", "not exact", "divide", "exit"} : End(result)
      \/ /\ which_algo \in {SIMPLE, RK} /\ pc' = "chunk"
         /\ UNCHANGED <<j, hashes, filter, num_matched, outcome>>
      \/ /\ which_algo = RKBATCH /\ k > 0 /\ bsz' = FilterSize(Len(X))
         /\ pc' = IF solved THEN "insert" ELSE "chunk"
         /\ UNCHANGED <<j, hashes, num_matched, outcome>>
  BY Zenon DEF Dispatch
<1> QED BY <1>1, <1>2, <1>3, <1>4

LEMMA ChunksOverRoll == RollInv /\ ChunksOver => RollInv'
  BY EndRoll DEF ChunksOver

(* i += k.                                                                 *)
LEMMA NextPlace ==
    RollInv /\ i' = NextChunk /\ UNCHANGED k =>
        i' \in Nat /\ (k = 0 => i' = 0) /\ (k > 0 => i' % k = 0)
<1> SUFFICES ASSUME RollInv, i' = NextChunk, UNCHANGED k
             PROVE  i' \in Nat /\ (k = 0 => i' = 0) /\ (k > 0 => i' % k = 0)
  OBVIOUS
<1>1. k \in Nat /\ i \in Nat /\ i' = i + k
  BY Modulus DEF RollInv, RKTypes, NextChunk
<1>2. (k = 0 => i = 0) /\ (k > 0 => i % k = 0)
  BY DEF RollInv, PlaceInv
<1>3. ASSUME k > 0 PROVE i' % k = 0
  <2>1. k \in Nat \ {0} /\ i % k = 0 /\ i \in Nat
    BY <1>1, <1>2, <1>3
  <2>2. (i + k) % k = 0
    BY <2>1, ChunkStep
  <2> QED BY <2>2, <1>1
<1> QED BY <1>1, <1>2, <1>3

LEMMA CountType == num_matched \in Nat => Count \in Nat
  BY DEF Count

(* A chunk that is done with: i moves on, whatever was counted.            *)
LEMMA MoveOnRoll ==
    ASSUME RollInv, UNCHANGED <<opts, docs, j, outcome>>, i' = NextChunk, pc' = "chunk",
           pc # "over", which_algo \in {SIMPLE, RK}, num_matched' \in Nat
    PROVE  RollInv'
<1>1. i' \in Nat /\ (k = 0 => i' = 0) /\ (k > 0 => i' % k = 0)
  BY NextPlace DEF opts
<1>2. RKTypes'
  BY <1>1 DEF RollInv, RKTypes, opts, docs
<1>3. PlaceInv'
  BY <1>1 DEF PlaceInv, opts
<1>4. HashInv'
  BY DEF HashInv
<1> QED BY <1>2, <1>3, <1>4 DEF RollInv

LEMMA SimpleChunkRoll == RollInv /\ SimpleChunk => RollInv'
<1> SUFFICES ASSUME RollInv, SimpleChunk PROVE RollInv'
  OBVIOUS
<1>1. num_matched' \in Nat
  <2>1. num_matched \in Nat
    BY DEF RollInv, RKTypes
  <2> QED BY <2>1, CountType DEF SimpleChunk
<1> QED BY <1>1, MoveOnRoll DEF SimpleChunk

(* Chunks and windows are texts.                                           *)
LEMMA ChunkIs ==
    RKTypes => \A o \in Nat : o + k <= Len(X) =>
        Chunk(o) = Text(X, o, k) /\ Chunk(o) \in [1..k -> Chars] /\ Chunk(o) \in Seq(Chars)
        /\ Len(Chunk(o)) = k
<1> SUFFICES ASSUME RKTypes, NEW o \in Nat, o + k <= Len(X)
             PROVE  Chunk(o) = Text(X, o, k) /\ Chunk(o) \in [1..k -> Chars]
                    /\ Chunk(o) \in Seq(Chars) /\ Len(Chunk(o)) = k
  OBVIOUS
<1>1. k \in Nat /\ X \in Seq(Chars)
  BY Modulus DEF RKTypes
<1>2. SubSeq(X, o + 1, o + k) = Text(X, o, k)
  BY <1>1, SubSeqIsText
<1>3. Text(X, o, k) \in [1..k -> Chars] /\ Text(X, o, k) \in Seq(Chars) /\ Len(Text(X, o, k)) = k
  BY <1>1, TextType
<1> QED BY <1>2, <1>3 DEF Chunk

LEMMA WindowIs ==
    RKTypes => \A o \in Nat : o + k <= Len(Y) =>
        Window(o) = Text(Y, o, k) /\ Window(o) \in [1..k -> Chars] /\ Window(o) \in Seq(Chars)
        /\ Len(Window(o)) = k
<1> SUFFICES ASSUME RKTypes, NEW o \in Nat, o + k <= Len(Y)
             PROVE  Window(o) = Text(Y, o, k) /\ Window(o) \in [1..k -> Chars]
                    /\ Window(o) \in Seq(Chars) /\ Len(Window(o)) = k
  OBVIOUS
<1>1. k \in Nat /\ Y \in Seq(Chars)
  BY Modulus DEF RKTypes
<1>2. SubSeq(Y, o + 1, o + k) = Text(Y, o, k)
  BY <1>1, SubSeqIsText
<1>3. Text(Y, o, k) \in [1..k -> Chars] /\ Text(Y, o, k) \in Seq(Chars) /\ Len(Text(Y, o, k)) = k
  BY <1>1, TextType
<1> QED BY <1>2, <1>3 DEF Window

(* The hashes a scan of Y starts with.                                     *)
LEMMA ScanStarts ==
    ASSUME RKTypes, Len(Y) >= k, NEW pow, pow = Power(BIG_PRIME, k), pow # ABORT,
           NEW cur, cur = rkhash_init(BIG_PRIME, Window(0)), cur # ABORT
    PROVE  /\ 0 + k <= Len(Y) /\ HashOf(BIG_PRIME, cur, Window(0))
           /\ pow \in 0..(BIG_PRIME - 1) /\ Cong(BIG_PRIME, pow, Pow(k))
<1>1. BIG_PRIME \in Nat \ {0, 1} /\ BIG_PRIME \in Nat \ {0} /\ k \in Nat /\ Len(Y) \in Nat
  BY Modulus
<1>2. 0 + k <= Len(Y) /\ 0 \in Nat
  BY <1>1
<1>3. Window(0) \in [1..k -> Int]
  BY <1>1, <1>2, WindowIs, CharsAre
<1>4. HashOf(BIG_PRIME, cur, Window(0))
  BY <1>1, <1>3, InitHashes
<1>5. pow \in 0..(BIG_PRIME - 1) /\ Cong(BIG_PRIME, pow, Pow(k))
  BY <1>1, PowerHashes
<1> QED BY <1>2, <1>4, <1>5

LEMMA ChunkHashes ==
    ASSUME RKTypes, MoreChunks, NEW hash, hash = rkhash_init(BIG_PRIME, Chunk(i)), hash # ABORT
    PROVE  HashOf(BIG_PRIME, hash, Chunk(i))
<1>1. BIG_PRIME \in Nat \ {0} /\ k \in Nat /\ i \in Nat /\ i + k <= Len(X)
  BY Modulus DEF RKTypes, MoreChunks
<1>2. Chunk(i) \in [1..k -> Int]
  BY <1>1, ChunkIs, CharsAre
<1> QED BY <1>1, <1>2, InitHashes

(* What a scan starts with, as the state after the step.                   *)
LEMMA NewRolled ==
    ASSUME RKTypes, Len(Y) >= k, UNCHANGED <<opts, docs>>, j' = 0,
           h' = Power(BIG_PRIME, k), h' # ABORT,
           curr' = rkhash_init(BIG_PRIME, Window(0)), curr' # ABORT
    PROVE  Rolled'
<1>1. PICK pow : pow = h'
  OBVIOUS
<1>2. PICK cur : cur = curr'
  OBVIOUS
<1>3. /\ 0 + k <= Len(Y) /\ HashOf(BIG_PRIME, cur, Window(0))
      /\ pow \in 0..(BIG_PRIME - 1) /\ Cong(BIG_PRIME, pow, Pow(k))
  BY <1>1, <1>2, ScanStarts
<1>4. Window(j)' = Window(0) /\ BIG_PRIME' = BIG_PRIME /\ k' = k /\ Y' = Y
  BY DEF Window, opts, docs
<1>5. HashOf(BIG_PRIME, curr, Window(j))' <=> HashOf(BIG_PRIME, cur, Window(0))
  BY <1>2, <1>4 DEF HashOf, Cong
<1>6. Cong(BIG_PRIME, h, Pow(k))' <=> Cong(BIG_PRIME, pow, Pow(k))
  BY <1>1, <1>4 DEF Cong, Pow, Zeros
<1> QED BY <1>1, <1>3, <1>4, <1>5, <1>6 DEF Rolled

LEMMA RKChunkCases ==
    ASSUME RKChunk
    PROVE  /\ pc = "chunk" /\ which_algo = RK /\ MoreChunks /\ UNCHANGED <<opts, docs, filter>>
           /\ \/ /\ i' = NextChunk /\ UNCHANGED <<pc, j, hashes, num_matched, outcome>>
                 /\ ~solved \/ Len(Y) < k
              \/ /\ End("aborted") /\ UNCHANGED i /\ solved /\ ~(Len(Y) < k)
                 /\ \/ rkhash_init(BIG_PRIME, Chunk(i)) = ABORT \/ Power(BIG_PRIME, k) = ABORT
                    \/ rkhash_init(BIG_PRIME, Window(0)) = ABORT
              \/ /\ UNCHANGED <<i, num_matched, outcome>> /\ solved /\ ~(Len(Y) < k)
                 /\ ph' = rkhash_init(BIG_PRIME, Chunk(i)) /\ ph' # ABORT
                 /\ h' = Power(BIG_PRIME, k) /\ h' # ABORT
                 /\ curr' = rkhash_init(BIG_PRIME, Window(0)) /\ curr' # ABORT
                 /\ j' = 0 /\ pc' = "window"
<1>1. CASE ~solved \/ Len(Y) < k
  BY <1>1 DEF RKChunk
<1>2. CASE ~(~solved \/ Len(Y) < k)
  <2> DEFINE hs == <<rkhash_init(BIG_PRIME, Chunk(i)), Power(BIG_PRIME, k),
                     rkhash_init(BIG_PRIME, Window(0))>>
  <2>1. /\ pc = "chunk" /\ which_algo = RK /\ MoreChunks /\ UNCHANGED <<opts, docs, filter>>
        /\ UNCHANGED i
        /\ IF Aborts(hs) THEN End("aborted")
           ELSE /\ ph' = hs[1] /\ h' = hs[2] /\ curr' = hs[3] /\ j' = 0 /\ pc' = "window"
                /\ UNCHANGED <<num_matched, outcome>>
    BY <1>2, Zenon DEF RKChunk
  <2>2. DOMAIN hs = {1, 2, 3}
    OBVIOUS
  <2>3. ~Aborts(hs) <=> hs[1] # ABORT /\ hs[2] # ABORT /\ hs[3] # ABORT
    <3> HIDE DEF hs
    <3> QED BY <2>2 DEF Aborts
  <2>4. /\ hs[1] = rkhash_init(BIG_PRIME, Chunk(i)) /\ hs[2] = Power(BIG_PRIME, k)
        /\ hs[3] = rkhash_init(BIG_PRIME, Window(0))
    OBVIOUS
  <2> HIDE DEF hs
  <2> QED BY <1>2, <2>1, <2>3, <2>4
<1> QED BY <1>1, <1>2

LEMMA RolledOn ==
    ASSUME RKTypes, Rolled, ~(j + k >= Len(Y)), UNCHANGED <<opts, docs, h>>, j' = j + 1,
           curr' = rkhash_next(BIG_PRIME, curr, h, Y[j + 1], Y[j + k + 1]), curr' # ABORT
    PROVE  Rolled'
<1>1. PICK next : next = curr'
  OBVIOUS
<1>2. /\ BIG_PRIME \in Nat \ {0, 1} /\ k \in Nat /\ Len(Y) \in Nat /\ j \in Nat
      /\ Y \in Seq(Chars) /\ j + k < Len(Y) /\ j + 1 \in Nat
  BY Modulus DEF RKTypes
<1>3. /\ HashOf(BIG_PRIME, curr, Text(Y, j, k))
      /\ h \in 0..(BIG_PRIME - 1) /\ Cong(BIG_PRIME, h, Pow(k))
  <2>1. Window(j) = Text(Y, j, k)
    BY <1>2, WindowIs
  <2> QED BY <2>1 DEF Rolled
<1>4. next = rkhash_next(BIG_PRIME, curr, h, Y[j + 1], Y[j + k + 1]) /\ next # ABORT
  BY <1>1
<1>5. HashOf(BIG_PRIME, next, Text(Y, j + 1, k))
  BY <1>2, <1>3, <1>4, SlideHashes
<1>6. Window(j + 1) = Text(Y, j + 1, k) /\ (j + 1) + k <= Len(Y)
  <2>1. (j + 1) + k <= Len(Y)
    BY <1>2
  <2> QED BY <2>1, <1>2, WindowIs
<1>7. Window(j)' = Window(j + 1) /\ BIG_PRIME' = BIG_PRIME /\ k' = k /\ Y' = Y /\ h' = h
  BY DEF Window, opts, docs
<1>8. HashOf(BIG_PRIME, curr, Window(j))'
  BY <1>1, <1>5, <1>6, <1>7 DEF HashOf, Cong
<1>9. Cong(BIG_PRIME, h, Pow(k))'
  BY <1>3, <1>7 DEF Cong, Pow, Zeros
<1> QED BY <1>3, <1>6, <1>7, <1>8, <1>9 DEF Rolled

LEMMA RKChunkRoll == RollInv /\ RKChunk => RollInv'
<1> SUFFICES ASSUME RollInv, RKChunk PROVE RollInv'
  OBVIOUS
<1>0. pc = "chunk" /\ which_algo = RK /\ MoreChunks /\ UNCHANGED <<opts, docs, filter>>
  BY RKChunkCases
<1>1. CASE i' = NextChunk /\ UNCHANGED <<pc, j, hashes, num_matched, outcome>>
  <2>1. num_matched' \in Nat
    BY <1>1 DEF RollInv, RKTypes
  <2> QED BY <2>1, <1>0, <1>1, MoveOnRoll
<1>2. CASE End("aborted") /\ UNCHANGED i
  BY <1>0, <1>2, EndRoll
<1>3. CASE /\ UNCHANGED <<i, num_matched, outcome>> /\ solved /\ ~(Len(Y) < k)
           /\ ph' = rkhash_init(BIG_PRIME, Chunk(i)) /\ ph' # ABORT
           /\ h' = Power(BIG_PRIME, k) /\ h' # ABORT
           /\ curr' = rkhash_init(BIG_PRIME, Window(0)) /\ curr' # ABORT
           /\ j' = 0 /\ pc' = "window"
  <2>0. RKTypes /\ Len(Y) >= k
    <3>1. Len(Y) \in Nat /\ k \in Nat
      BY Modulus DEF RollInv
    <3> QED BY <3>1, <1>3 DEF RollInv
  <2>1. RKTypes'
    BY <1>0, <1>3, <2>0 DEF RKTypes, opts, docs
  <2>2. PlaceInv'
    BY <1>0, <1>3 DEF RollInv, PlaceInv, opts, docs, MoreChunks
  <2>3. Rolled'
    BY <1>0, <1>3, <2>0, NewRolled
  <2>4. HashOf(BIG_PRIME, ph, Chunk(i))'
    <3>1. PICK hash : hash = ph'
      OBVIOUS
    <3>2. HashOf(BIG_PRIME, hash, Chunk(i))
      BY <1>0, <1>3, <2>0, <3>1, ChunkHashes
    <3>3. Chunk(i)' = Chunk(i) /\ BIG_PRIME' = BIG_PRIME
      BY <1>0, <1>3 DEF Chunk, opts, docs
    <3> QED BY <3>1, <3>2, <3>3 DEF HashOf, Cong
  <2>5. HashInv'
    BY <2>3, <2>4 DEF HashInv
  <2> QED BY <2>1, <2>2, <2>5 DEF RollInv
<1> QED BY <1>1, <1>2, <1>3, RKChunkCases

LEMMA RKWindowCases ==
    ASSUME RKWindow
    PROVE  /\ pc = "window" /\ UNCHANGED <<opts, docs, filter>>
           /\ \/ /\ curr = ph /\ Window(j) = Chunk(i) /\ num_matched' = Count
                 /\ pc' = "chunk" /\ i' = NextChunk /\ UNCHANGED <<j, hashes, outcome>>
              \/ /\ ~(curr = ph /\ Window(j) = Chunk(i)) /\ j + k >= Len(Y)
                 /\ pc' = "chunk" /\ i' = NextChunk
                 /\ UNCHANGED <<j, hashes, num_matched, outcome>>
              \/ /\ ~(curr = ph /\ Window(j) = Chunk(i)) /\ ~(j + k >= Len(Y)) /\ UNCHANGED i
                 /\ \/ /\ rkhash_next(BIG_PRIME, curr, h, Y[j + 1], Y[j + k + 1]) = ABORT
                       /\ End("aborted")
                    \/ /\ curr' = rkhash_next(BIG_PRIME, curr, h, Y[j + 1], Y[j + k + 1])
                       /\ curr' # ABORT /\ j' = j + 1
                       /\ UNCHANGED <<pc, ph, h, num_matched, outcome>>
  BY Zenon DEF RKWindow, Slide

LEMMA RKWindowRoll == RollInv /\ RKWindow => RollInv'
<1> SUFFICES ASSUME RollInv, RKWindow PROVE RollInv'
  OBVIOUS
<1>0. /\ pc = "window" /\ UNCHANGED <<opts, docs, filter>> /\ RKTypes /\ Rolled
      /\ num_matched \in Nat /\ which_algo = RK /\ j \in Nat
  BY RKWindowCases DEF RollInv, HashInv, PlaceInv, RKTypes
<1>1. CASE /\ pc' = "chunk" /\ i' = NextChunk /\ UNCHANGED <<j, hashes, outcome>>
           /\ num_matched' = Count \/ num_matched' = num_matched
  <2>1. num_matched' \in Nat
    BY <1>0, <1>1, CountType
  <2> QED BY <2>1, <1>0, <1>1, MoveOnRoll
<1>2. CASE End("aborted") /\ UNCHANGED i
  BY <1>0, <1>2, EndRoll
<1>3. CASE /\ ~(j + k >= Len(Y)) /\ UNCHANGED i
           /\ curr' = rkhash_next(BIG_PRIME, curr, h, Y[j + 1], Y[j + k + 1])
           /\ curr' # ABORT /\ j' = j + 1
           /\ UNCHANGED <<pc, ph, h, num_matched, outcome>>
  <2>1. RKTypes'
    BY <1>0, <1>3 DEF RKTypes, opts, docs
  <2>2. PlaceInv'
    BY <1>0, <1>3 DEF RollInv, PlaceInv, opts, docs
  <2>3. Rolled'
    BY <1>0, <1>3, RolledOn
  <2>4. HashOf(BIG_PRIME, ph, Chunk(i))'
    <3>1. HashOf(BIG_PRIME, ph, Chunk(i))
      BY <1>0 DEF RollInv, HashInv
    <3>2. Chunk(i)' = Chunk(i) /\ BIG_PRIME' = BIG_PRIME /\ ph' = ph
      BY <1>0, <1>3 DEF Chunk, opts, docs
    <3> QED BY <3>1, <3>2 DEF HashOf, Cong
  <2>5. HashInv'
    BY <2>3, <2>4 DEF HashInv
  <2> QED BY <2>1, <2>2, <2>5 DEF RollInv
<1> QED BY <1>1, <1>2, <1>3, RKWindowCases

LEMMA InsertCases ==
    ASSUME Insert
    PROVE  /\ pc = "insert" /\ UNCHANGED <<opts, docs, bsz>>
           /\ \/ bsz % 8 # 0 /\ End("aborted") /\ UNCHANGED <<i, bits>>
              \/ /\ MoreChunks /\ rkhash_init(BIG_PRIME, Chunk(i)) = ABORT
                 /\ End("aborted") /\ UNCHANGED <<i, bits>>
              \/ /\ MoreChunks /\ rkhash_init(BIG_PRIME, Chunk(i)) # ABORT
                 /\ bits' = bits \cup BitsOf(bsz, rkhash_init(BIG_PRIME, Chunk(i)))
                 /\ i' = NextChunk /\ UNCHANGED <<pc, j, hashes, num_matched, outcome>>
              \/ ~MoreChunks /\ Len(Y) < k /\ End("done") /\ UNCHANGED <<i, bits>>
              \/ /\ ~MoreChunks /\ ~(Len(Y) < k) /\ UNCHANGED <<i, bits>> /\ End("aborted")
                 /\ \/ Power(BIG_PRIME, k) = ABORT
                    \/ rkhash_init(BIG_PRIME, Window(0)) = ABORT
              \/ /\ ~MoreChunks /\ ~(Len(Y) < k) /\ UNCHANGED <<i, bits, num_matched, outcome>>
                 /\ h' = Power(BIG_PRIME, k) /\ h' # ABORT
                 /\ curr' = rkhash_init(BIG_PRIME, Window(0)) /\ curr' # ABORT
                 /\ j' = 0 /\ pc' = "query"
<1>1. CASE bsz % 8 # 0
  BY <1>1, Zenon DEF Insert
<1>2. CASE bsz % 8 = 0 /\ (MoreChunks \/ Len(Y) < k)
  BY <1>2, Zenon DEF Insert
<1>3. CASE bsz % 8 = 0 /\ ~MoreChunks /\ ~(Len(Y) < k)
  <2> DEFINE hs == <<0, Power(BIG_PRIME, k), rkhash_init(BIG_PRIME, Window(0))>>
  <2>1. /\ pc = "insert" /\ UNCHANGED <<opts, docs, bsz>> /\ UNCHANGED <<i, bits>>
        /\ IF Aborts(hs) THEN End("aborted")
           ELSE /\ ph' = hs[1] /\ h' = hs[2] /\ curr' = hs[3] /\ j' = 0 /\ pc' = "query"
                /\ UNCHANGED <<num_matched, outcome>>
    BY <1>3, Zenon DEF Insert
  <2>2. DOMAIN hs = {1, 2, 3} /\ hs[1] # ABORT
    BY AbortIs
  <2>3. ~Aborts(hs) <=> hs[2] # ABORT /\ hs[3] # ABORT
    <3> HIDE DEF hs
    <3> QED BY <2>2 DEF Aborts
  <2>4. hs[2] = Power(BIG_PRIME, k) /\ hs[3] = rkhash_init(BIG_PRIME, Window(0))
    OBVIOUS
  <2> HIDE DEF hs
  <2> QED BY <1>3, <2>1, <2>3, <2>4
<1> QED BY <1>1, <1>2, <1>3

LEMMA InsertRoll == RollInv /\ Insert => RollInv'
<1> SUFFICES ASSUME RollInv, Insert PROVE RollInv'
  OBVIOUS
<1>0. pc = "insert" /\ UNCHANGED <<opts, docs, bsz>> /\ RKTypes
  BY InsertCases DEF RollInv
<1>1. CASE (End("aborted") \/ End("done")) /\ UNCHANGED <<i, bits>>
  BY <1>0, <1>1, EndRoll
<1>2. CASE i' = NextChunk /\ UNCHANGED <<pc, j, hashes, num_matched, outcome>>
  <2>1. i' \in Nat /\ (k = 0 => i' = 0) /\ (k > 0 => i' % k = 0)
    BY <1>0, <1>2, NextPlace DEF opts
  <2>2. RKTypes'
    BY <1>0, <1>2, <2>1 DEF RKTypes, opts, docs
  <2>3. PlaceInv'
    <3>1. FilterSize(Len(X))' = FilterSize(Len(X))
      BY <1>0 DEF FilterSize, opts, docs
    <3> QED BY <1>0, <1>2, <2>1, <3>1 DEF RollInv, PlaceInv, opts, docs
  <2>4. HashInv'
    BY <1>0, <1>2 DEF HashInv
  <2> QED BY <2>2, <2>3, <2>4 DEF RollInv
<1>3. CASE /\ ~MoreChunks /\ ~(Len(Y) < k) /\ UNCHANGED <<i, bits, num_matched, outcome>>
           /\ h' = Power(BIG_PRIME, k) /\ h' # ABORT
           /\ curr' = rkhash_init(BIG_PRIME, Window(0)) /\ curr' # ABORT
           /\ j' = 0 /\ pc' = "query"
  <2>0. Len(Y) >= k
    <3>1. Len(Y) \in Nat /\ k \in Nat
      BY Modulus DEF RollInv
    <3> QED BY <3>1, <1>3
  <2>1. RKTypes'
    BY <1>0, <1>3 DEF RKTypes, opts, docs
  <2>2. PlaceInv'
    <3>1. FilterSize(Len(X))' = FilterSize(Len(X))
      BY <1>0 DEF FilterSize, opts, docs
    <3> QED BY <1>0, <1>3, <3>1 DEF RollInv, PlaceInv, opts, docs
  <2>3. Rolled'
    BY <1>0, <1>3, <2>0, NewRolled
  <2>4. HashInv'
    BY <1>3, <2>3 DEF HashInv
  <2> QED BY <2>1, <2>2, <2>4 DEF RollInv
<1> QED BY <1>1, <1>2, <1>3, InsertCases

LEMMA QueryCases ==
    ASSUME Query
    PROVE  /\ pc = "query" /\ UNCHANGED <<opts, docs, i, filter>>
           /\ \/ bsz = 0 /\ End("divide")
              \/ /\ bsz # 0 /\ num_matched' = (IF Hit THEN Count ELSE num_matched)
                 /\ j' = j + 1 /\ UNCHANGED <<ph, h>>
                 /\ \/ /\ j + k >= Len(Y) /\ pc' = "over" /\ curr' = curr
                       /\ outcome' = IF curr = ABORT THEN "aborted" ELSE "done"
                    \/ /\ ~(j + k >= Len(Y))
                       /\ curr' = rkhash_next(BIG_PRIME, curr, h, Y[j + 1], Y[j + k + 1])
                       /\ \/ curr' = ABORT /\ pc' = "over" /\ outcome' = "aborted"
                          \/ curr' # ABORT /\ UNCHANGED <<pc, outcome>>
<1>1. CASE bsz = 0
  BY <1>1, Zenon DEF Query
<1>2. CASE bsz # 0 /\ j + k >= Len(Y)
  BY <1>2 DEF Query
<1>3. CASE bsz # 0 /\ ~(j + k >= Len(Y))
  BY <1>3 DEF Query
<1> QED BY <1>1, <1>2, <1>3

LEMMA QueryRoll == RollInv /\ Query => RollInv'
<1> SUFFICES ASSUME RollInv, Query PROVE RollInv'
  OBVIOUS
<1>0. /\ pc = "query" /\ UNCHANGED <<opts, docs, i, filter>> /\ RKTypes /\ Rolled
      /\ num_matched \in Nat /\ j \in Nat
  BY QueryCases DEF RollInv, HashInv, RKTypes
<1>1. CASE bsz = 0 /\ End("divide")
  BY <1>0, <1>1, EndRoll
<1>2. CASE /\ num_matched' = (IF Hit THEN Count ELSE num_matched) /\ j' = j + 1
           /\ UNCHANGED <<ph, h>>
  <2>1. num_matched' \in Nat /\ j' \in Nat
    BY <1>0, <1>2, CountType
  <2>2. CASE pc' = "over" /\ outcome' \in {"aborted", "done"}
    <3>1. RKTypes'
      BY <1>0, <2>1, <2>2 DEF RKTypes, opts, docs
    <3>2. PlaceInv'
      BY <1>0, <2>2 DEF RollInv, PlaceInv, opts
    <3>3. HashInv'
      BY <2>2 DEF HashInv
    <3> QED BY <3>1, <3>2, <3>3 DEF RollInv
  <2>3. CASE /\ ~(j + k >= Len(Y))
             /\ curr' = rkhash_next(BIG_PRIME, curr, h, Y[j + 1], Y[j + k + 1])
             /\ curr' # ABORT /\ UNCHANGED <<pc, outcome>>
    <3>1. RKTypes'
      BY <1>0, <2>1, <2>3 DEF RKTypes, opts, docs
    <3>2. PlaceInv'
      <4>1. FilterSize(Len(X))' = FilterSize(Len(X))
        BY <1>0 DEF FilterSize, opts, docs
      <4> QED BY <1>0, <2>3, <4>1 DEF RollInv, PlaceInv, opts, docs, filter
    <3>3. Rolled'
      BY <1>0, <1>2, <2>3, RolledOn
    <3>4. HashInv'
      BY <1>0, <2>3, <3>3 DEF HashInv
    <3> QED BY <3>1, <3>2, <3>4 DEF RollInv
  <2>4. outcome' = (IF curr = ABORT THEN "aborted" ELSE "done") => outcome' \in {"aborted", "done"}
    OBVIOUS
  <2>5. \/ pc' = "over" /\ outcome' \in {"aborted", "done"}
        \/ /\ ~(j + k >= Len(Y))
           /\ curr' = rkhash_next(BIG_PRIME, curr, h, Y[j + 1], Y[j + k + 1])
           /\ curr' # ABORT /\ UNCHANGED <<pc, outcome>>
        \/ End("divide")
    BY <2>4, QueryCases
  <2>6. CASE End("divide")
    BY <1>0, <2>6, EndRoll
  <2> QED BY <2>2, <2>3, <2>5, <2>6
<1> QED BY <1>1, <1>2, QueryCases

LEMMA StillRoll == RollInv /\ UNCHANGED vars => RollInv'
<1> SUFFICES ASSUME RollInv, UNCHANGED vars PROVE RollInv'
  OBVIOUS
<1>1. RKTypes'
  BY DEF RollInv, RKTypes, vars, opts, docs
<1>2. PlaceInv'
  <2>1. FilterSize(Len(X))' = FilterSize(Len(X))
    BY DEF FilterSize, vars, opts, docs
  <2> QED BY <2>1 DEF RollInv, PlaceInv, vars, opts, docs, filter
<1>3. HashInv'
  <2>1. Chunk(i)' = Chunk(i) /\ Window(j)' = Window(j)
    BY DEF Chunk, Window, vars, opts, docs
  <2>2. HashOf(BIG_PRIME, ph, Chunk(i))' <=> HashOf(BIG_PRIME, ph, Chunk(i))
    BY <2>1 DEF HashOf, Cong, vars, opts, hashes
  <2>3. Rolled' <=> Rolled
    BY <2>1 DEF Rolled, HashOf, Cong, Pow, Zeros, vars, opts, docs, hashes
  <2> QED BY <2>2, <2>3 DEF RollInv, HashInv, vars
<1> QED BY <1>1, <1>2, <1>3 DEF RollInv

(* What each step leaves true of the hashes, for any documents, chunk      *)
(* size and modulus.                                                       *)
THEOREM RollInvariance == Spec => []RollInv
<1>1. Init => RollInv
  BY InitRoll
<1>2. RollInv /\ [Next]_vars => RollInv'
  BY ReadFilesRoll, DispatchRoll, ChunksOverRoll, SimpleChunkRoll, RKChunkRoll, RKWindowRoll,
     InsertRoll, QueryRoll, StillRoll DEF Next, Step
<1> QED BY <1>1, <1>2, PTL DEF Spec

(* rkmatch.c: however far a window has rolled, its hash is congruent to    *)
(* the polynomial of the characters now in it.                             *)
THEOREM Rolling == Spec => []RollingHash
<1>1. RollInv => RollingHash
  BY DEF RollInv, HashInv, Rolled, HashOf, Cong, RollingHash
<1> QED BY <1>1, RollInvariance, PTL
-----------------------------------------------------------------------------
(* Why an assertion fails.                                                 *)
ZeroPiece ==
    \/ BIG_PRIME <= RADIX
    \/ \E w \in Windows \cup {Chunk(o) : o \in Chunks} :
         \E p \in Pieces(w) : IsZero(p)

LEMMA CrashIff ==
    CrashesOnlyAtZero <=> (outcome = "aborted" => ZeroPiece) /\ (outcome = "divide" => Chunks = {})
  BY DEF CrashesOnlyAtZero, ZeroPiece

LEMMA WindowZero ==
    ASSUME RKTypes, NEW o \in Nat, o + k <= Len(Y),
           \E p \in Pieces(Window(o)) : Value(p) % BIG_PRIME = 0
    PROVE  ZeroPiece
<1>1. k \in Nat /\ Len(Y) \in Nat
  BY Modulus
<1>2. o \in 0..(Len(Y) - k)
  BY <1>1
<1>3. Window(o) \in Windows
  BY <1>2 DEF Windows
<1> QED BY <1>3 DEF ZeroPiece, IsZero

LEMMA ChunkZero ==
    ASSUME RKTypes, NEW o \in Chunks,
           \E p \in Pieces(Chunk(o)) : Value(p) % BIG_PRIME = 0
    PROVE  ZeroPiece
  BY DEF ZeroPiece, IsZero

(* A chunk at the head of the loop is one of the chunks.                   *)
LEMMA ChunkHere ==
    RollInv /\ MoreChunks /\ k > 0 => i \in Chunks
<1> SUFFICES ASSUME RollInv, MoreChunks, k > 0 PROVE i \in Chunks
  OBVIOUS
<1>1. k \in Nat /\ Len(X) \in Nat /\ i \in Nat /\ i + k <= Len(X) /\ i % k = 0
  BY Modulus DEF RollInv, RKTypes, PlaceInv, MoreChunks
<1>2. i \in 0..(Len(X) - k)
  BY <1>1
<1> QED BY <1>1, <1>2 DEF Chunks

LEMMA TextAborts ==
    ASSUME NEW P \in Nat, P > RADIX, NEW n \in Nat, NEW w \in [1..n -> Chars],
           w \in Seq(Chars), Len(w) = n, rkhash_init(P, w) = ABORT
    PROVE  n > 0 /\ \E p \in Pieces(w) : Value(p) % P = 0
<1>1. PICK a \in 1..n : Value(Cut(w, a)) % P = 0
  BY CharsAre, InitAborts
<1>2. n >= 1
  BY <1>1
<1>3. Cut(w, a) \in Pieces(w)
  BY <1>2, PieceOfText
<1> QED BY <1>1, <1>2, <1>3

LEMMA ChunkAborts ==
    ASSUME RollInv, MoreChunks, rkhash_init(BIG_PRIME, Chunk(i)) = ABORT
    PROVE  ZeroPiece
<1> SUFFICES ASSUME ~(BIG_PRIME <= RADIX) PROVE ZeroPiece
  BY DEF ZeroPiece
<1>1. /\ BIG_PRIME \in Nat /\ k \in Nat /\ i \in Nat /\ i + k <= Len(X) /\ RKTypes
      /\ BIG_PRIME > RADIX
  BY Modulus, RKAssumption DEF RollInv, RKTypes, MoreChunks
<1>2. Chunk(i) \in [1..k -> Chars] /\ Chunk(i) \in Seq(Chars) /\ Len(Chunk(i)) = k
  BY <1>1, ChunkIs
<1>3. k > 0 /\ \E p \in Pieces(Chunk(i)) : Value(p) % BIG_PRIME = 0
  BY <1>1, <1>2, TextAborts
<1> QED BY <1>1, <1>3, ChunkHere, ChunkZero

LEMMA WindowAborts ==
    ASSUME RKTypes, ~(Len(Y) < k), rkhash_init(BIG_PRIME, Window(0)) = ABORT
    PROVE  ZeroPiece
<1> SUFFICES ASSUME ~(BIG_PRIME <= RADIX) PROVE ZeroPiece
  BY DEF ZeroPiece
<1>1. /\ BIG_PRIME \in Nat /\ k \in Nat /\ Len(Y) \in Nat /\ 0 \in Nat /\ BIG_PRIME > RADIX
  BY Modulus, RKAssumption
<1>2. 0 + k <= Len(Y)
  BY <1>1
<1>3. Window(0) \in [1..k -> Chars] /\ Window(0) \in Seq(Chars) /\ Len(Window(0)) = k
  BY <1>1, <1>2, WindowIs
<1>4. \E p \in Pieces(Window(0)) : Value(p) % BIG_PRIME = 0
  BY <1>1, <1>3, TextAborts
<1> QED BY <1>1, <1>2, <1>4, WindowZero

LEMMA PowerAborts ==
    ASSUME RKTypes, Power(BIG_PRIME, k) = ABORT
    PROVE  ZeroPiece
<1>1. BIG_PRIME \in Nat \ {0, 1} /\ k \in Nat /\ RADIX \in Nat
  BY Modulus, RKAssumption
<1>2. ~(BIG_PRIME > RADIX)
  BY <1>1, PowerHashes
<1> QED BY <1>1, <1>2 DEF ZeroPiece

LEMMA SlideAborts ==
    ASSUME PrimesArePrime, RKTypes, Rolled, ~(j + k >= Len(Y)),
           rkhash_next(BIG_PRIME, curr, h, Y[j + 1], Y[j + k + 1]) = ABORT
    PROVE  ZeroPiece
<1> SUFFICES ASSUME ~(BIG_PRIME <= RADIX) PROVE ZeroPiece
  BY DEF ZeroPiece
<1>1. /\ BIG_PRIME \in Nat \ {0, 1} /\ k \in Nat /\ Len(Y) \in Nat /\ j \in Nat
      /\ Y \in Seq(Chars) /\ j + k < Len(Y) /\ j + k <= Len(Y)
      /\ BIG_PRIME > RADIX /\ IsPrime(BIG_PRIME)
  BY Modulus, RKAssumption DEF RKTypes, PrimesArePrime
<1>2. Window(j) = Text(Y, j, k)
  BY <1>1, WindowIs
<1>3. /\ HashOf(BIG_PRIME, curr, Text(Y, j, k))
      /\ h \in 0..(BIG_PRIME - 1) /\ Cong(BIG_PRIME, h, Pow(k))
  BY <1>2 DEF Rolled
<1>4. \E p \in Pieces(Text(Y, j, k)) : Value(p) % BIG_PRIME = 0
  BY <1>1, <1>3, SlideHashes
<1> QED BY <1>1, <1>2, <1>4, WindowZero

(* bloom_init's assertion holds, and a filter without bits is for an X     *)
(* without chunks.                                                         *)
LEMMA FilterFacts ==
    ASSUME NEW n \in Nat, RKTypes, k > 0, n = Len(X)
    PROVE  /\ FilterSize(n) % 8 = 0
           /\ FilterSize(n) = 0 => Chunks = {}
<1>1. k \in Nat \ {0} /\ n * 10 \in Nat
  BY Modulus
<1>2. PICK d \in Int : d = (n * 10) \div k
  BY <1>1, DivMod
<1>3. PICK e \in Int : e = d \div 8
  OBVIOUS
<1>4. FilterSize(n) = 8 * e
  BY <1>2, <1>3 DEF FilterSize
<1>5. (8 * e) % 8 = 0
  BY Divided
<1>6. ASSUME 8 * e = 0 PROVE Chunks = {}
  <2>1. d < 8
    BY <1>3, <1>6
  <2>2. PICK r \in 0..(k - 1) : n * 10 = k * d + r
    <3>1. PICK u \in Int : u = n * 10
      BY <1>1
    <3>2. u % k \in 0..(k - 1) /\ u = k * (u \div k) + (u % k)
      BY <1>1, DivMod
    <3>3. u = k * d + (u % k)
      BY <3>1, <3>2, <1>2
    <3> QED BY <3>1, <3>2, <3>3
  <2>3. k * d <= k * 7
    <3>1. PICK f \in Nat : d = 7 - f
      <4>1. 7 - d \in Nat /\ d = 7 - (7 - d)
        BY <2>1
      <4> QED BY <4>1
    <3>2. k * d = k * 7 - k * f /\ k * f >= 0
      BY <3>1, <1>1
    <3> QED BY <3>2, <1>1
  <2>4. n < k
    BY <2>2, <2>3, <1>1
  <2>5. 0..(Len(X) - k) = {}
    BY <2>4, <1>1
  <2> QED BY <2>5 DEF Chunks
<1> QED BY <1>4, <1>5, <1>6

LEMMA ZeroStays ==
    ASSUME UNCHANGED <<opts, docs>>
    PROVE  (ZeroPiece' <=> ZeroPiece) /\ Chunks' = Chunks
<1>1. k' = k /\ X' = X /\ Y' = Y /\ BIG_PRIME' = BIG_PRIME
  BY DEF opts, docs
<1>2. Chunks' = Chunks /\ Windows' = Windows /\ \A o : Chunk(o)' = Chunk(o)
  BY <1>1 DEF Chunks, Windows, Window, Chunk
<1> QED BY <1>1, <1>2 DEF ZeroPiece, IsZero

LEMMA CrashNext ==
    ASSUME PrimesArePrime, RollInv, CrashesOnlyAtZero, [Next]_vars
    PROVE  CrashesOnlyAtZero'
<1>0. RKTypes /\ PlaceInv
  BY DEF RollInv
<1>14. CrashesOnlyAtZero' <=>
           (outcome' = "aborted" => ZeroPiece') /\ (outcome' = "divide" => Chunks' = {})
  BY DEF CrashesOnlyAtZero, ZeroPiece
<1>1. CASE UNCHANGED vars
  <2>1. UNCHANGED <<opts, docs>> /\ outcome' = outcome
    BY <1>1 DEF vars
  <2> QED BY <2>1, <1>14, ZeroStays, CrashIff
<1>2. CASE outcome' # "aborted" /\ outcome' # "divide"
  BY <1>2, <1>14
<1>3. ASSUME UNCHANGED <<opts, docs>>, ZeroPiece, outcome' = "aborted" PROVE CrashesOnlyAtZero'
  BY <1>3, <1>14, ZeroStays
<1>4. ASSUME UNCHANGED <<opts, docs>>, Chunks = {}, outcome' = "divide" PROVE CrashesOnlyAtZero'
  BY <1>4, <1>14, ZeroStays
<1>5. pc # "over" => outcome = "running"
  BY <1>0 DEF RKTypes
<1>6. ASSUME ReadFiles PROVE CrashesOnlyAtZero'
  BY <1>2, <1>5, <1>6 DEF ReadFiles, End
<1>7. ASSUME Dispatch PROVE CrashesOnlyAtZero'
  <2>1. CASE k = 0 /\ outcome' = "divide"
    <3>1. Chunks = {}
      BY <2>1 DEF Chunks
    <3> QED BY <2>1, <3>1, <1>4, <1>7 DEF Dispatch
  <2>2. CASE ~(k = 0 /\ outcome' = "divide")
    <3>1. outcome' # "aborted" /\ outcome' # "divide"
      BY <1>5, <1>7, <2>2 DEF Dispatch, End
    <3> QED BY <3>1, <1>2
  <2> QED BY <2>1, <2>2
<1>8. ASSUME ChunksOver PROVE CrashesOnlyAtZero'
  BY <1>2, <1>8 DEF ChunksOver, End
<1>9. ASSUME SimpleChunk PROVE CrashesOnlyAtZero'
  BY <1>2, <1>5, <1>9 DEF SimpleChunk
<1>10. ASSUME RKChunk PROVE CrashesOnlyAtZero'
  <2>1. CASE outcome' # "aborted"
    <3>1. outcome' = outcome /\ outcome = "running"
      BY <2>1, <1>5, <1>10, RKChunkCases DEF End
    <3> QED BY <3>1, <1>2
  <2>2. CASE outcome' = "aborted"
    <3>1. /\ ~(Len(Y) < k) /\ MoreChunks /\ UNCHANGED <<opts, docs>>
          /\ \/ rkhash_init(BIG_PRIME, Chunk(i)) = ABORT \/ Power(BIG_PRIME, k) = ABORT
             \/ rkhash_init(BIG_PRIME, Window(0)) = ABORT
      BY <2>2, <1>5, <1>10, RKChunkCases DEF End
    <3>2. ZeroPiece
      BY <3>1, <1>0, ChunkAborts, PowerAborts, WindowAborts
    <3> QED BY <2>2, <3>1, <3>2, <1>3
  <2> QED BY <2>1, <2>2
<1>11. ASSUME RKWindow PROVE CrashesOnlyAtZero'
  <2>1. CASE outcome' # "aborted"
    <3>1. outcome' = outcome /\ outcome = "running"
      BY <2>1, <1>5, <1>11, RKWindowCases DEF End
    <3> QED BY <3>1, <1>2
  <2>2. CASE outcome' = "aborted"
    <3>1. /\ pc = "window" /\ ~(j + k >= Len(Y)) /\ UNCHANGED <<opts, docs>>
          /\ rkhash_next(BIG_PRIME, curr, h, Y[j + 1], Y[j + k + 1]) = ABORT
      BY <2>2, <1>5, <1>11, RKWindowCases DEF End
    <3>2. Rolled
      BY <3>1 DEF RollInv, HashInv
    <3>3. ZeroPiece
      BY <3>1, <3>2, <1>0, SlideAborts
    <3> QED BY <2>2, <3>1, <3>3, <1>3
  <2> QED BY <2>1, <2>2
<1>12. ASSUME Insert PROVE CrashesOnlyAtZero'
  <2>0. pc = "insert" /\ bsz = FilterSize(Len(X)) /\ k > 0 /\ Len(X) \in Nat
    BY <1>0, <1>12, Modulus, InsertCases DEF PlaceInv
  <2>1. bsz % 8 = 0
    BY <2>0, <1>0, FilterFacts
  <2>2. CASE outcome' # "aborted"
    <3>1. outcome' # "divide"
      BY <1>5, <1>12, <2>2, <2>0, InsertCases DEF End
    <3> QED BY <2>2, <3>1, <1>2
  <2>3. CASE outcome' = "aborted"
    <3>1. /\ UNCHANGED <<opts, docs>>
          /\ \/ MoreChunks /\ rkhash_init(BIG_PRIME, Chunk(i)) = ABORT
             \/ ~(Len(Y) < k) /\ Power(BIG_PRIME, k) = ABORT
             \/ ~(Len(Y) < k) /\ rkhash_init(BIG_PRIME, Window(0)) = ABORT
      BY <2>0, <2>1, <2>3, <1>5, <1>12, InsertCases DEF End
    <3>2. ZeroPiece
      BY <3>1, <1>0, ChunkAborts, PowerAborts, WindowAborts
    <3> QED BY <2>3, <3>1, <3>2, <1>3
  <2> QED BY <2>2, <2>3
<1>13. ASSUME Query PROVE CrashesOnlyAtZero'
  <2>0. /\ pc = "query" /\ bsz = FilterSize(Len(X)) /\ k > 0 /\ Len(X) \in Nat /\ Rolled
        /\ UNCHANGED <<opts, docs>>
    BY <1>0, <1>13, Modulus, QueryCases DEF PlaceInv, RollInv, HashInv
  <2>1. curr # ABORT
    <3>1. BIG_PRIME \in Nat /\ curr \in 0..BIG_PRIME
      BY <2>0, <1>0, Modulus DEF Rolled, HashOf
    <3> QED BY <3>1, AbortIs
  <2>2. CASE outcome' = "divide"
    <3>1. bsz = 0
      BY <2>0, <2>2, <1>5, <1>13, QueryCases
    <3>2. Chunks = {}
      BY <3>1, <2>0, <1>0, FilterFacts
    <3> QED BY <2>0, <2>2, <3>2, <1>4
  <2>3. CASE outcome' = "aborted"
    <3>1. /\ ~(j + k >= Len(Y))
          /\ rkhash_next(BIG_PRIME, curr, h, Y[j + 1], Y[j + k + 1]) = ABORT
      BY <2>0, <2>1, <2>3, <1>5, <1>13, QueryCases DEF End
    <3>2. ZeroPiece
      BY <3>1, <2>0, <1>0, SlideAborts
    <3> QED BY <2>0, <2>3, <3>2, <1>3
  <2> QED BY <2>2, <2>3, <1>2
<1> QED BY <1>1, <1>6, <1>7, <1>8, <1>9, <1>10, <1>11, <1>12, <1>13 DEF Next, Step

(* rkmatch.c:30-70: with a prime above every character, an assertion fails *)
(* only where a piece of a chunk or window hashes to 0.                    *)
THEOREM Crashes == PrimesArePrime => (Spec => []CrashesOnlyAtZero)
<1> SUFFICES ASSUME PrimesArePrime PROVE Spec => []CrashesOnlyAtZero
  OBVIOUS
<1>1. Init => CrashesOnlyAtZero
  BY DEF Init, CrashesOnlyAtZero
<1>2. RollInv /\ CrashesOnlyAtZero /\ [Next]_vars => CrashesOnlyAtZero'
  BY CrashNext
<1> QED BY <1>1, <1>2, RollInvariance, PTL DEF Spec
-----------------------------------------------------------------------------
(* How far the counting has come.                                          *)
Below(S, n) == {o \in S : o < n}
SurelyOccurring == {o \in Occurring : ~IsZero(Chunk(o))}

SimpleInv ==
    solved /\ k > 0 /\ which_algo = SIMPLE /\ pc = "chunk" =>
        num_matched = Cardinality(Below(Occurring, i))

RKInv ==
    solved /\ k > 0 /\ which_algo = RK /\ pc \in {"chunk", "window"} =>
        /\ Cardinality(Below(SurelyOccurring, i)) <= num_matched
        /\ num_matched <= Cardinality(Below(Occurring, i))

(* No window before j is the chunk, unless the chunk hashes to 0.          *)
TriedInv ==
    k > 0 /\ pc = "window" =>
        \A o \in 0..(j - 1) : Window(o) = Chunk(i) => IsZero(Chunk(i))

Inserted(c) ==
    \E hash \in 0..BIG_PRIME :
        HashOf(BIG_PRIME, hash, Chunk(c)) /\ BitsOf(bsz, hash) \subseteq bits
FilterInv ==
    pc \in {"insert", "query"} => \A c \in Chunks : c < i \/ pc = "query" => Inserted(c)

Stored(o) == ~IsZero(Window(o)) /\ \E c \in Chunks : Chunk(c) = Window(o)
Seen(n) == {o \in 0..n : Stored(o)}
SeenInv ==
    pc = "query" => Cardinality(Seen(j - 1)) <= num_matched /\ num_matched <= j

CountInv == SimpleInv /\ RKInv /\ TriedInv /\ FilterInv /\ SeenInv /\ CountsAgree

LEMMA SameDocs ==
    ASSUME UNCHANGED <<opts, docs>>
    PROVE  /\ k' = k /\ solved' = solved /\ which_algo' = which_algo /\ BIG_PRIME' = BIG_PRIME
           /\ Len(X)' = Len(X) /\ Len(Y)' = Len(Y)
           /\ Chunks' = Chunks /\ Windows' = Windows
           /\ \A o : Chunk(o)' = Chunk(o) /\ Window(o)' = Window(o)
           /\ \A s : IsZero(s)' <=> IsZero(s)
           /\ Occurring' = Occurring /\ SurelyOccurring' = SurelyOccurring
           /\ \A n : Seen(n)' = Seen(n)
<1>1. /\ k' = k /\ X' = X /\ Y' = Y /\ BIG_PRIME' = BIG_PRIME /\ solved' = solved
      /\ which_algo' = which_algo
  BY DEF opts, docs
<1>2. /\ Chunks' = Chunks /\ Windows' = Windows
      /\ \A o : Chunk(o)' = Chunk(o) /\ Window(o)' = Window(o)
  BY <1>1 DEF Chunks, Windows, Window, Chunk
<1>3. \A s : IsZero(s)' <=> IsZero(s)
  BY <1>1 DEF IsZero
<1>4. Occurring' = Occurring
  BY <1>2 DEF Occurring
<1>5. SurelyOccurring' = SurelyOccurring
  BY <1>2, <1>3, <1>4 DEF SurelyOccurring
<1>6. \A n : Seen(n)' = Seen(n)
  BY <1>2, <1>3 DEF Seen, Stored
<1> QED BY <1>1, <1>2, <1>3, <1>4, <1>5, <1>6

(* The sets of offsets are finite.                                         *)
LEMMA BelowFinite ==
    ASSUME RKTypes, k > 0, NEW S, S \subseteq Chunks, NEW n
    PROVE  /\ IsFiniteSet(Below(S, n)) /\ Cardinality(Below(S, n)) \in Nat
           /\ Cardinality(Below(S, n)) <= MaxX
<1>1. k \in Nat \ {0} /\ Len(X) \in Nat /\ MaxX \in Nat /\ Len(X) <= MaxX
  BY Modulus DEF RKTypes
<1>2. Below(S, n) \subseteq 0..(Len(X) - k)
  BY DEF Below, Chunks
<1>3. 0 \in Int /\ Len(X) - k \in Int
  BY <1>1
<1>4. /\ IsFiniteSet(0..(Len(X) - k))
      /\ Cardinality(0..(Len(X) - k)) = IF 0 > Len(X) - k THEN 0 ELSE Len(X) - k - 0 + 1
  BY <1>3, FS_Interval
<1>5. /\ IsFiniteSet(Below(S, n))
      /\ Cardinality(Below(S, n)) <= Cardinality(0..(Len(X) - k))
  BY <1>2, <1>4, FS_Subset
<1>6. Cardinality(Below(S, n)) \in Nat
  BY <1>5, FS_CardinalityType
<1> QED BY <1>1, <1>4, <1>5, <1>6

LEMMA BelowNext ==
    ASSUME RollInv, MoreChunks, k > 0, NEW S, S \subseteq Chunks
    PROVE  Cardinality(Below(S, NextChunk)) =
             IF i \in S THEN Cardinality(Below(S, i)) + 1 ELSE Cardinality(Below(S, i))
<1>1. /\ k \in Nat \ {0} /\ i \in Nat /\ i % k = 0 /\ RKTypes /\ NextChunk = i + k
      /\ Len(X) \in Nat
  BY Modulus DEF RollInv, RKTypes, PlaceInv, NextChunk
<1>2. \A o \in S : o \in Nat /\ o % k = 0
  BY <1>1 DEF Chunks
<1>3. \A o \in Nat : o % k = 0 /\ i <= o /\ o < i + k => o = i
  BY <1>1, ChunkStep
<1>4. \A o \in S : o < i + k <=> o < i \/ o = i
  <2> SUFFICES ASSUME NEW o \in S PROVE o < i + k <=> o < i \/ o = i
    OBVIOUS
  <2>1. o \in Nat /\ (i <= o /\ o < i + k => o = i)
    BY <1>2, <1>3
  <2> QED BY <2>1, <1>1
<1>5. CASE i \in S
  <2>1. Below(S, i + k) = Below(S, i) \cup {i}
    BY <1>4, <1>5 DEF Below
  <2>2. i \notin Below(S, i)
    BY <1>1 DEF Below
  <2>3. IsFiniteSet(Below(S, i))
    BY <1>1, BelowFinite
  <2>4. Cardinality(Below(S, i) \cup {i}) = Cardinality(Below(S, i)) + 1
    BY <2>2, <2>3, FS_AddElement
  <2> QED BY <1>1, <1>5, <2>1, <2>4
<1>6. CASE i \notin S
  <2>1. Below(S, i + k) = Below(S, i)
    BY <1>4, <1>6 DEF Below
  <2> QED BY <1>1, <1>6, <2>1
<1> QED BY <1>5, <1>6

LEMMA BelowAll ==
    ASSUME RollInv, ~MoreChunks, NEW S, S \subseteq Chunks
    PROVE  Below(S, i) = S
<1>1. k \in Nat /\ i \in Nat /\ Len(X) \in Nat /\ ~(i + k <= Len(X))
  BY Modulus DEF RollInv, RKTypes, MoreChunks
<1>2. \A o \in Chunks : o \in 0..(Len(X) - k)
  BY DEF Chunks
<1>3. \A o \in Chunks : o < i
  BY <1>1, <1>2
<1> QED BY <1>3 DEF Below

LEMMA BelowNone ==
    ASSUME NEW S, S \subseteq Chunks, RKTypes
    PROVE  Cardinality(Below(S, 0)) = 0
<1>1. \A o \in Chunks : o \in Nat
  BY Modulus DEF Chunks
<1>2. Below(S, 0) = {}
  BY <1>1 DEF Below
<1> QED BY <1>2, FS_EmptySet

LEMMA OccurringAre == Occurring \subseteq Chunks /\ SurelyOccurring \subseteq Chunks
                      /\ SurelyOccurring \subseteq Occurring
  BY DEF Occurring, SurelyOccurring

(* The chunk in hand occurs when it is a window.                           *)
LEMMA OccursHere ==
    ASSUME RollInv, MoreChunks, k > 0
    PROVE  /\ i \in Occurring <=> Chunk(i) \in Windows
           /\ i \in SurelyOccurring <=> Chunk(i) \in Windows /\ ~IsZero(Chunk(i))
  BY ChunkHere DEF Occurring, SurelyOccurring

(* Different hashes of the same text are those of a text of value 0.       *)
LEMMA SameTextSameHash ==
    ASSUME RKTypes, NEW n \in Nat, NEW s \in [1..n -> Chars],
           NEW a, HashOf(BIG_PRIME, a, s), NEW b, HashOf(BIG_PRIME, b, s), ~IsZero(s)
    PROVE  a = b
<1>1. BIG_PRIME \in Nat \ {0}
  BY Modulus
<1>2. PICK v \in Int : v = Value(s)
  BY CharsAre, ValueType
<1>3. /\ a \in 0..BIG_PRIME /\ b \in 0..BIG_PRIME /\ a \in Int /\ b \in Int
      /\ Cong(BIG_PRIME, a, v) /\ Cong(BIG_PRIME, b, v) /\ v % BIG_PRIME # 0
  BY <1>1, <1>2 DEF HashOf, IsZero
<1>4. Cong(BIG_PRIME, v, b)
  BY <1>1, <1>3, CongTurn
<1>5. Cong(BIG_PRIME, a, b)
  BY <1>1, <1>3, <1>4, CongLink
<1>6. ~Cong(BIG_PRIME, a, 0)
  <2> SUFFICES ASSUME Cong(BIG_PRIME, a, 0) PROVE FALSE
    OBVIOUS
  <2>1. Cong(BIG_PRIME, v, a) /\ 0 \in Int
    BY <1>1, <1>3, CongTurn
  <2>2. Cong(BIG_PRIME, v, 0)
    BY <2>1, <1>1, <1>3, CongLink
  <2>3. v - 0 = v
    OBVIOUS
  <2> QED BY <2>2, <2>3, <1>3 DEF Cong
<1> QED BY <1>1, <1>3, <1>5, <1>6, CongEqual
-----------------------------------------------------------------------------
LEMMA InitCount == Init => CountInv
  BY DEF Init, CountInv, SimpleInv, RKInv, TriedInv, FilterInv, SeenInv, CountsAgree

(* A step that ends the run with another outcome than "done".              *)
LEMMA EndCount ==
    ASSUME pc' = "over", outcome' # "done"
    PROVE  CountInv'
  BY DEF CountInv, SimpleInv, RKInv, TriedInv, FilterInv, SeenInv, CountsAgree

LEMMA ReadFilesCount == RollInv /\ ReadFiles => CountInv'
<1> SUFFICES ASSUME RollInv, ReadFiles PROVE CountInv'
  OBVIOUS
<1>1. outcome = "running"
  BY DEF ReadFiles, RollInv, RKTypes
<1>2. CASE End("exit")
  BY <1>2, EndCount DEF End
<1>3. CASE pc' = "dispatch" /\ outcome' = outcome
  BY <1>1, <1>3 DEF CountInv, SimpleInv, RKInv, TriedInv, FilterInv, SeenInv, CountsAgree
<1> QED BY <1>2, <1>3 DEF ReadFiles

LEMMA DispatchCount == RollInv /\ Dispatch => CountInv'
<1> SUFFICES ASSUME RollInv, Dispatch PROVE CountInv'
  OBVIOUS
<1>1. /\ pc = "dispatch" /\ outcome = "running" /\ num_matched = 0 /\ i = 0 /\ RKTypes
      /\ UNCHANGED <<opts, docs, i>>
  BY DEF Dispatch, RollInv, RKTypes, PlaceInv
<1>2. CASE \E result \in {"exact", "not exact", "divide", "exit"} : End(result)
  BY <1>2, EndCount DEF End
<1>3. CASE which_algo \in {SIMPLE, RK} /\ pc' = "chunk" /\ UNCHANGED <<num_matched, outcome>>
  <2>1. /\ Cardinality(Below(Occurring, 0)) = 0 /\ Cardinality(Below(SurelyOccurring, 0)) = 0
    BY <1>1, OccurringAre, BelowNone
  <2>2. /\ Occurring' = Occurring /\ SurelyOccurring' = SurelyOccurring
    BY <1>1, SameDocs
  <2>3. /\ Cardinality(Below(Occurring, i))' = 0 /\ Cardinality(Below(SurelyOccurring, i))' = 0
        /\ num_matched' = 0
    BY <1>1, <1>3, <2>1, <2>2 DEF Below
  <2>4. SimpleInv'
    BY <2>3 DEF SimpleInv
  <2>5. RKInv'
    BY <2>3 DEF RKInv
  <2>6. TriedInv' /\ FilterInv' /\ SeenInv' /\ CountsAgree'
    BY <1>1, <1>3 DEF TriedInv, FilterInv, SeenInv, CountsAgree
  <2> QED BY <2>4, <2>5, <2>6 DEF CountInv
<1>4. CASE /\ which_algo = RKBATCH /\ pc' = (IF solved THEN "insert" ELSE "chunk")
           /\ UNCHANGED <<num_matched, outcome>>
  <2>1. which_algo' = RKBATCH /\ pc' \in {"insert", "chunk"}
    BY <1>1, <1>4, SameDocs
  <2>2. SimpleInv' /\ RKInv'
    BY <2>1 DEF SimpleInv, RKInv, SIMPLE, RK, RKBATCH
  <2>3. TriedInv' /\ SeenInv' /\ CountsAgree'
    BY <1>1, <1>4, <2>1 DEF TriedInv, SeenInv, CountsAgree
  <2>4. FilterInv'
    <3>1. \A c \in Chunks' : c \in Nat
      <4>1. Chunks' = Chunks
        BY <1>1, SameDocs
      <4>2. \A c \in Chunks : c \in Nat
        BY <1>1, Modulus DEF Chunks
      <4> QED BY <4>1, <4>2
    <3>2. \A c \in Chunks' : ~(c < i')
      BY <3>1, <1>1
    <3> QED BY <2>1, <3>2 DEF FilterInv
  <2> QED BY <2>2, <2>3, <2>4 DEF CountInv
<1> QED BY <1>2, <1>3, <1>4 DEF Dispatch

LEMMA ChunksOverCount == RollInv /\ CountInv /\ ChunksOver => CountInv'
<1> SUFFICES ASSUME RollInv, CountInv, ChunksOver PROVE CountInv'
  OBVIOUS
<1>1. /\ pc = "chunk" /\ pc' = "over" /\ UNCHANGED <<opts, docs, num_matched>>
      /\ which_algo = RKBATCH \/ ~MoreChunks
      /\ which_algo \in {SIMPLE, RK} \/ ~solved
  BY DEF ChunksOver, End, RollInv, PlaceInv
<1>2. SimpleInv' /\ RKInv' /\ TriedInv' /\ FilterInv' /\ SeenInv'
  BY <1>1 DEF SimpleInv, RKInv, TriedInv, FilterInv, SeenInv
<1>3. CASE ~solved
  <2>1. ~solved'
    BY <1>1, <1>3, SameDocs
  <2> QED BY <1>2, <2>1 DEF CountInv, CountsAgree
<1>4. CASE solved
  <2>1. ~MoreChunks /\ which_algo \in {SIMPLE, RK} /\ which_algo # RKBATCH
    BY <1>1, <1>4 DEF SIMPLE, RK, RKBATCH
  <2>2. k > 0
    <3>1. k \in Nat /\ Len(X) \in Nat /\ (k = 0 => i = 0)
      BY Modulus DEF RollInv, PlaceInv
    <3> QED BY <2>1, <3>1 DEF MoreChunks
  <2>3. Below(Occurring, i) = Occurring /\ Below(SurelyOccurring, i) = SurelyOccurring
    BY <2>1, OccurringAre, BelowAll
  <2>4. which_algo = SIMPLE => num_matched = Cardinality(Occurring)
    BY <1>1, <1>4, <2>2, <2>3 DEF CountInv, SimpleInv
  <2>5. which_algo = RK =>
            /\ num_matched <= Cardinality(Occurring)
            /\ num_matched >= Cardinality({o \in Occurring : ~IsZero(Chunk(o))})
    <3> SUFFICES ASSUME which_algo = RK
                 PROVE  /\ num_matched <= Cardinality(Occurring)
                        /\ num_matched >= Cardinality(SurelyOccurring)
      BY DEF SurelyOccurring
    <3>1. /\ Cardinality(SurelyOccurring) <= num_matched
          /\ num_matched <= Cardinality(Occurring)
      BY <1>1, <1>4, <2>2, <2>3 DEF CountInv, RKInv
    <3>2. num_matched \in Nat /\ Cardinality(SurelyOccurring) \in Nat
      BY <2>2, <2>3, OccurringAre, BelowFinite DEF RollInv, RKTypes
    <3> QED BY <3>1, <3>2
  <2>6. /\ num_matched' = num_matched /\ which_algo' = which_algo /\ Occurring' = Occurring
        /\ {o \in Occurring : ~IsZero(Chunk(o))}' = {o \in Occurring : ~IsZero(Chunk(o))}
    <3>1. UNCHANGED <<opts, docs>>
      BY <1>1
    <3> QED BY <1>1, <3>1, SameDocs
  <2>7. CountsAgree'
    BY <2>1, <2>4, <2>5, <2>6 DEF CountsAgree
  <2> QED BY <1>2, <2>7 DEF CountInv
<1> QED BY <1>3, <1>4

(* The count below its bound.                                              *)
LEMMA CountsUp ==
    ASSUME RKTypes, NEW n \in Nat, num_matched <= n, n <= MaxX \/ n <= MaxY
    PROVE  Count = num_matched + 1
<1>1. MaxX \in Nat /\ MaxY \in Nat /\ num_matched \in Nat
  BY Modulus DEF RKTypes
<1> QED BY <1>1 DEF Count

(* Moving to the next chunk of a simple or Rabin-Karp match: how the count *)
(* has to change.                                                          *)
LEMMA MoveOnCount ==
    ASSUME RollInv, CountInv, MoreChunks, UNCHANGED <<opts, docs, outcome>>, outcome = "running",
           i' = NextChunk, pc' = "chunk", which_algo \in {SIMPLE, RK},
           solved /\ k > 0 /\ which_algo = SIMPLE =>
               pc = "chunk" /\ num_matched' = (IF i \in Occurring THEN Count ELSE num_matched),
           solved /\ k > 0 /\ which_algo = RK =>
               /\ pc \in {"chunk", "window"}
               /\ \/ num_matched' = Count /\ i \in Occurring
                  \/ num_matched' = num_matched /\ i \notin SurelyOccurring
    PROVE  CountInv'
<1>1. TriedInv' /\ FilterInv' /\ SeenInv' /\ CountsAgree'
  BY DEF TriedInv, FilterInv, SeenInv, CountsAgree
<1>2. /\ k' = k /\ solved' = solved /\ which_algo' = which_algo /\ RKTypes
      /\ Occurring' = Occurring /\ SurelyOccurring' = SurelyOccurring
  BY SameDocs DEF RollInv
<1>3. /\ Cardinality(Below(Occurring, i))' = Cardinality(Below(Occurring, NextChunk))
      /\ Cardinality(Below(SurelyOccurring, i))' = Cardinality(Below(SurelyOccurring, NextChunk))
  BY <1>2 DEF Below
<1>4. ASSUME k > 0
      PROVE  /\ Cardinality(Below(Occurring, NextChunk)) =
                   IF i \in Occurring THEN Cardinality(Below(Occurring, i)) + 1
                   ELSE Cardinality(Below(Occurring, i))
             /\ Cardinality(Below(SurelyOccurring, NextChunk)) =
                   IF i \in SurelyOccurring THEN Cardinality(Below(SurelyOccurring, i)) + 1
                   ELSE Cardinality(Below(SurelyOccurring, i))
             /\ Cardinality(Below(Occurring, i)) \in Nat
             /\ Cardinality(Below(SurelyOccurring, i)) \in Nat
             /\ Cardinality(Below(Occurring, i)) <= MaxX
  BY <1>2, <1>4, OccurringAre, BelowNext, BelowFinite
<1>5. SimpleInv'
  <2> SUFFICES ASSUME solved, k > 0, which_algo = SIMPLE
               PROVE  num_matched' = Cardinality(Below(Occurring, NextChunk))
    BY <1>2, <1>3 DEF SimpleInv
  <2>1. pc = "chunk" /\ num_matched' = IF i \in Occurring THEN Count ELSE num_matched
    OBVIOUS
  <2>2. num_matched = Cardinality(Below(Occurring, i))
    BY <2>1 DEF CountInv, SimpleInv
  <2>3. Count = num_matched + 1
    BY <1>2, <1>4, <2>2, CountsUp
  <2> QED BY <1>4, <2>1, <2>2, <2>3
<1>6. RKInv'
  <2> SUFFICES ASSUME solved, k > 0, which_algo = RK
               PROVE  /\ Cardinality(Below(SurelyOccurring, NextChunk)) <= num_matched'
                      /\ num_matched' <= Cardinality(Below(Occurring, NextChunk))
    BY <1>2, <1>3 DEF RKInv
  <2>1. /\ pc \in {"chunk", "window"}
        /\ \/ num_matched' = Count /\ i \in Occurring
           \/ num_matched' = num_matched /\ i \notin SurelyOccurring
    OBVIOUS
  <2>2. /\ Cardinality(Below(SurelyOccurring, i)) <= num_matched
        /\ num_matched <= Cardinality(Below(Occurring, i))
    BY <2>1 DEF CountInv, RKInv
  <2>3. Count = num_matched + 1
    BY <1>2, <1>4, <2>2, CountsUp
  <2>4. num_matched \in Nat
    BY <1>2 DEF RKTypes
  <2> QED BY <1>4, <2>1, <2>2, <2>3, <2>4
<1> QED BY <1>1, <1>5, <1>6 DEF CountInv

LEMMA SimpleChunkCount == RollInv /\ CountInv /\ SimpleChunk => CountInv'
<1> SUFFICES ASSUME RollInv, CountInv, SimpleChunk PROVE CountInv'
  OBVIOUS
<1>1. /\ pc = "chunk" /\ which_algo = SIMPLE /\ MoreChunks /\ i' = NextChunk
      /\ UNCHANGED <<opts, docs, outcome, pc>>
      /\ num_matched' = IF solved /\ Chunk(i) \in Windows THEN Count ELSE num_matched
  BY DEF SimpleChunk
<1>2. outcome = "running" /\ which_algo # RK /\ pc' = "chunk"
  BY <1>1 DEF RollInv, RKTypes, SIMPLE, RK
<1>3. solved /\ k > 0 => num_matched' = IF i \in Occurring THEN Count ELSE num_matched
  BY <1>1, OccursHere
<1> QED BY <1>1, <1>2, <1>3, MoveOnCount

(* A document shorter than a chunk has no window.                          *)
LEMMA NoWindows ==
    ASSUME RKTypes, Len(Y) < k
    PROVE  Windows = {} /\ \A o : o \notin 0..(Len(Y) - k)
<1>1. Len(Y) \in Nat /\ k \in Nat
  BY Modulus
<1>2. \A o : o \notin 0..(Len(Y) - k)
  BY <1>1
<1> QED BY <1>2 DEF Windows

LEMMA RKChunkCount == RollInv /\ CountInv /\ RKChunk => CountInv'
<1> SUFFICES ASSUME RollInv, CountInv, RKChunk PROVE CountInv'
  OBVIOUS
<1>1. /\ pc = "chunk" /\ which_algo = RK /\ MoreChunks /\ UNCHANGED <<opts, docs>>
      /\ outcome = "running" /\ which_algo # SIMPLE /\ RKTypes
  BY RKChunkCases DEF RollInv, RKTypes, SIMPLE, RK
<1>2. CASE /\ i' = NextChunk /\ UNCHANGED <<pc, j, hashes, num_matched, outcome>>
           /\ ~solved \/ Len(Y) < k
  <2>1. solved => i \notin SurelyOccurring
    BY <1>1, <1>2, NoWindows DEF SurelyOccurring, Occurring
  <2> QED BY <1>1, <1>2, <2>1, MoveOnCount
<1>3. CASE End("aborted")
  BY <1>3, EndCount DEF End
<1>4. CASE UNCHANGED <<i, num_matched, outcome>> /\ j' = 0 /\ pc' = "window"
  <2>1. /\ k' = k /\ solved' = solved /\ which_algo' = which_algo
        /\ Occurring' = Occurring /\ SurelyOccurring' = SurelyOccurring
    BY <1>1, SameDocs
  <2>2. RKInv'
    <3>1. /\ Cardinality(Below(Occurring, i))' = Cardinality(Below(Occurring, i))
          /\ Cardinality(Below(SurelyOccurring, i))' = Cardinality(Below(SurelyOccurring, i))
      BY <1>4, <2>1 DEF Below
    <3> QED BY <1>1, <1>4, <2>1, <3>1 DEF CountInv, RKInv
  <2>3. TriedInv'
    <3>1. \A o : o \notin 0..(0 - 1)
      OBVIOUS
    <3> QED BY <1>4, <3>1 DEF TriedInv
  <2>4. SimpleInv' /\ FilterInv' /\ SeenInv' /\ CountsAgree'
    BY <1>1, <1>4, <2>1 DEF SimpleInv, FilterInv, SeenInv, CountsAgree
  <2> QED BY <2>2, <2>3, <2>4 DEF CountInv
<1> QED BY <1>2, <1>3, <1>4, RKChunkCases

(* The window in hand, when its hash is not that of the chunk, is not the  *)
(* chunk, unless this hashes to 0.                                         *)
LEMMA WindowFails ==
    ASSUME RollInv, pc = "window", ~(curr = ph /\ Window(j) = Chunk(i)), Window(j) = Chunk(i)
    PROVE  IsZero(Chunk(i))
<1> SUFFICES ASSUME ~IsZero(Chunk(i)) PROVE FALSE
  OBVIOUS
<1>1. /\ RKTypes /\ k \in Nat /\ i \in Nat /\ i + k <= Len(X)
      /\ HashOf(BIG_PRIME, curr, Chunk(i)) /\ HashOf(BIG_PRIME, ph, Chunk(i))
  BY Modulus DEF RollInv, RKTypes, PlaceInv, HashInv, Rolled
<1>2. Chunk(i) \in [1..k -> Chars]
  BY <1>1, ChunkIs
<1>3. curr = ph
  BY <1>1, <1>2, SameTextSameHash
<1> QED BY <1>3

LEMMA RKWindowCount == RollInv /\ CountInv /\ RKWindow => CountInv'
<1> SUFFICES ASSUME RollInv, CountInv, RKWindow PROVE CountInv'
  OBVIOUS
<1>1. /\ pc = "window" /\ which_algo = RK /\ solved /\ MoreChunks /\ UNCHANGED <<opts, docs>>
      /\ outcome = "running" /\ which_algo # SIMPLE /\ RKTypes /\ i + k <= Len(X)
      /\ j + k <= Len(Y) /\ j \in Nat /\ i \in Nat
  BY RKWindowCases DEF RollInv, RKTypes, PlaceInv, HashInv, Rolled, MoreChunks, SIMPLE, RK
<1>2. k \in Nat /\ Len(Y) \in Nat
  BY <1>1, Modulus
<1>3. CASE /\ Window(j) = Chunk(i) /\ num_matched' = Count
           /\ pc' = "chunk" /\ i' = NextChunk /\ UNCHANGED outcome
  <2>1. j \in 0..(Len(Y) - k)
    BY <1>1, <1>2
  <2>2. Chunk(i) \in Windows
    BY <1>3, <2>1 DEF Windows
  <2>3. k > 0 => i \in Occurring
    BY <1>1, <2>2, OccursHere
  <2> QED BY <1>1, <1>3, <2>3, MoveOnCount
<1>4. CASE /\ ~(curr = ph /\ Window(j) = Chunk(i)) /\ j + k >= Len(Y)
           /\ pc' = "chunk" /\ i' = NextChunk /\ UNCHANGED <<num_matched, outcome>>
  <2>1. ASSUME k > 0, NEW o \in 0..(Len(Y) - k), Window(o) = Chunk(i) PROVE IsZero(Chunk(i))
    <3>1. o \in 0..(j - 1) \/ o = j
      BY <1>1, <1>2, <1>4
    <3>2. CASE o \in 0..(j - 1)
      BY <1>1, <2>1, <3>2 DEF CountInv, TriedInv
    <3>3. CASE o = j
      BY <1>1, <1>4, <2>1, <3>3, WindowFails
    <3> QED BY <3>1, <3>2, <3>3
  <2>2. k > 0 => i \notin SurelyOccurring
    BY <2>1 DEF SurelyOccurring, Occurring, Windows
  <2> QED BY <1>1, <1>4, <2>2, MoveOnCount
<1>5. CASE End("aborted")
  BY <1>5, EndCount DEF End
<1>6. CASE /\ ~(curr = ph /\ Window(j) = Chunk(i)) /\ UNCHANGED i /\ j' = j + 1
           /\ UNCHANGED <<pc, num_matched, outcome>>
  <2>1. /\ k' = k /\ solved' = solved /\ which_algo' = which_algo
        /\ Occurring' = Occurring /\ SurelyOccurring' = SurelyOccurring
        /\ \A o : Chunk(o)' = Chunk(o) /\ Window(o)' = Window(o)
        /\ \A s : IsZero(s)' <=> IsZero(s)
    BY <1>1, SameDocs
  <2>2. RKInv'
    <3>1. /\ Cardinality(Below(Occurring, i))' = Cardinality(Below(Occurring, i))
          /\ Cardinality(Below(SurelyOccurring, i))' = Cardinality(Below(SurelyOccurring, i))
      BY <1>6, <2>1 DEF Below
    <3> QED BY <1>1, <1>6, <2>1, <3>1 DEF CountInv, RKInv
  <2>3. ASSUME k > 0
        PROVE  \A o \in 0..((j + 1) - 1) : Window(o) = Chunk(i) => IsZero(Chunk(i))
    <3> SUFFICES ASSUME NEW o \in 0..((j + 1) - 1), Window(o) = Chunk(i)
                 PROVE  IsZero(Chunk(i))
      OBVIOUS
    <3>1. o \in 0..(j - 1) \/ o = j
      BY <1>1
    <3>2. CASE o \in 0..(j - 1)
      BY <1>1, <2>3, <3>2 DEF CountInv, TriedInv
    <3>3. CASE o = j
      BY <1>1, <1>6, <3>3, WindowFails
    <3> QED BY <3>1, <3>2, <3>3
  <2>4. TriedInv'
    <3>1. Chunk(i)' = Chunk(i) /\ (IsZero(Chunk(i))' <=> IsZero(Chunk(i)))
      BY <1>1, <1>6, <2>1 DEF Chunk, IsZero, opts, docs
    <3> QED BY <1>6, <2>1, <2>3, <3>1 DEF TriedInv
  <2>5. SimpleInv' /\ FilterInv' /\ SeenInv' /\ CountsAgree'
    BY <1>1, <1>6, <2>1 DEF SimpleInv, FilterInv, SeenInv, CountsAgree
  <2> QED BY <2>2, <2>4, <2>5 DEF CountInv
<1> QED BY <1>3, <1>4, <1>5, <1>6, RKWindowCases
-----------------------------------------------------------------------------
(* What has been inserted stays in the filter.                             *)
LEMMA InsertedStays ==
    ASSUME UNCHANGED <<opts, docs, bsz>>, bits \subseteq bits'
    PROVE  \A c : Inserted(c) => Inserted(c)'
<1> SUFFICES ASSUME NEW c, Inserted(c) PROVE Inserted(c)'
  OBVIOUS
<1>1. PICK hash \in 0..BIG_PRIME :
          HashOf(BIG_PRIME, hash, Chunk(c)) /\ BitsOf(bsz, hash) \subseteq bits
  BY DEF Inserted
<1>2. BIG_PRIME' = BIG_PRIME /\ Chunk(c)' = Chunk(c) /\ bsz' = bsz
  BY SameDocs DEF opts
<1>3. HashOf(BIG_PRIME, hash, Chunk(c))'
  BY <1>1, <1>2 DEF HashOf, Cong
<1>4. (BitsOf(bsz, hash) \subseteq bits)'
  BY <1>1, <1>2 DEF BitsOf
<1> QED BY <1>1, <1>2, <1>3, <1>4 DEF Inserted

(* A batch match ends with the windows up to the last one counted.         *)
LEMMA BatchDone ==
    ASSUME UNCHANGED <<opts, docs>>, which_algo = RKBATCH, pc' = "over",
           num_matched' >= Cardinality(Seen(Len(Y) - k))
    PROVE  CountInv'
<1>1. k' = k /\ which_algo' = RKBATCH /\ Len(Y)' = Len(Y) /\ Chunks' = Chunks
      /\ \A o : Chunk(o)' = Chunk(o) /\ Window(o)' = Window(o)
      /\ \A s : IsZero(s)' <=> IsZero(s)
  BY SameDocs
<1>2. {o \in 0..(Len(Y) - k) :
          ~IsZero(Window(o)) /\ \E c \in Chunks : Chunk(c) = Window(o)}' = Seen(Len(Y) - k)
  BY <1>1 DEF Seen, Stored
<1>3. CountsAgree'
  <2>1. num_matched' >= Cardinality({o \in 0..(Len(Y) - k) :
            ~IsZero(Window(o)) /\ \E c \in Chunks : Chunk(c) = Window(o)})'
    BY <1>2
  <2>2. which_algo' # SIMPLE /\ which_algo' # RK
    BY <1>1 DEF SIMPLE, RK, RKBATCH
  <2> QED BY <2>1, <2>2 DEF CountsAgree
<1>4. SimpleInv' /\ RKInv' /\ TriedInv' /\ FilterInv' /\ SeenInv'
  BY DEF SimpleInv, RKInv, TriedInv, FilterInv, SeenInv
<1> QED BY <1>3, <1>4 DEF CountInv

LEMMA InsertCount == RollInv /\ CountInv /\ Insert => CountInv'
<1> SUFFICES ASSUME RollInv, CountInv, Insert PROVE CountInv'
  OBVIOUS
<1>1. /\ pc = "insert" /\ which_algo = RKBATCH /\ solved /\ k > 0 /\ UNCHANGED <<opts, docs, bsz>>
      /\ outcome = "running" /\ num_matched = 0 /\ RKTypes /\ i \in Nat /\ i % k = 0
  BY InsertCases DEF RollInv, RKTypes, PlaceInv
<1>2. k \in Nat \ {0} /\ Len(X) \in Nat /\ Len(Y) \in Nat
  BY <1>1, Modulus
<1>3. /\ k' = k /\ solved' = solved /\ which_algo' = RKBATCH /\ Chunks' = Chunks
      /\ \A n : Seen(n)' = Seen(n)
  BY <1>1, SameDocs
<1>4. CASE End("aborted")
  BY <1>4, EndCount DEF End
<1>5. CASE Len(Y) < k /\ End("done")
  <2>1. Seen(Len(Y) - k) = {}
    BY <1>1, <1>5, NoWindows DEF Seen
  <2>2. Cardinality(Seen(Len(Y) - k)) = 0
    BY <2>1, FS_EmptySet
  <2>3. num_matched' = 0 /\ pc' = "over"
    BY <1>1, <1>5 DEF End
  <2> QED BY <1>1, <2>2, <2>3, BatchDone
<1>6. CASE /\ MoreChunks /\ rkhash_init(BIG_PRIME, Chunk(i)) # ABORT
           /\ bits' = bits \cup BitsOf(bsz, rkhash_init(BIG_PRIME, Chunk(i)))
           /\ i' = NextChunk /\ UNCHANGED <<pc, j, hashes, num_matched, outcome>>
  <2>1. \A c : Inserted(c) => Inserted(c)'
    BY <1>1, <1>6, InsertedStays
  <2>2. \A c : c = i => Inserted(c)'
    <3> SUFFICES ASSUME NEW c, c = i PROVE Inserted(c)'
      OBVIOUS
    <3>1. PICK hash : hash = rkhash_init(BIG_PRIME, Chunk(i))
      OBVIOUS
    <3>2. HashOf(BIG_PRIME, hash, Chunk(i))
      BY <1>1, <1>6, <3>1, ChunkHashes
    <3>3. BIG_PRIME' = BIG_PRIME /\ Chunk(c)' = Chunk(c) /\ bsz' = bsz
      BY <1>1, SameDocs
    <3>4. HashOf(BIG_PRIME, hash, Chunk(c))'
      BY <3>2, <3>3 DEF HashOf, Cong
    <3>5. (BitsOf(bsz, hash) \subseteq bits)'
      BY <1>6, <3>1, <3>3 DEF BitsOf
    <3>6. hash \in 0..BIG_PRIME'
      BY <3>2, <3>3 DEF HashOf
    <3> QED BY <3>4, <3>5, <3>6 DEF Inserted
  <2>3. \A c \in Chunks : c < i + k => c < i \/ c = i
    <3> SUFFICES ASSUME NEW c \in Chunks, c < i + k PROVE c < i \/ c = i
      OBVIOUS
    <3>1. c \in Nat /\ c % k = 0
      BY <1>2 DEF Chunks
    <3>2. i <= c => c = i
      BY <1>1, <1>2, <3>1, ChunkStep
    <3> QED BY <1>1, <3>1, <3>2
  <2>4. \A c \in Chunks : c < i => Inserted(c)
    BY <1>1 DEF CountInv, FilterInv
  <2>5. FilterInv'
    BY <1>1, <1>3, <1>6, <2>1, <2>2, <2>3, <2>4 DEF FilterInv, NextChunk
  <2>6. SimpleInv' /\ RKInv' /\ TriedInv' /\ SeenInv' /\ CountsAgree'
    BY <1>1, <1>6 DEF SimpleInv, RKInv, TriedInv, SeenInv, CountsAgree
  <2> QED BY <2>5, <2>6 DEF CountInv
<1>7. CASE ~MoreChunks /\ UNCHANGED <<i, bits, num_matched, outcome>> /\ j' = 0 /\ pc' = "query"
  <2>1. \A c : Inserted(c) => Inserted(c)'
    BY <1>1, <1>7, InsertedStays
  <2>2. \A c \in Chunks : c < i
    BY <1>1, <1>2, <1>7 DEF Chunks, MoreChunks
  <2>3. \A c \in Chunks : Inserted(c)
    BY <1>1, <2>2 DEF CountInv, FilterInv
  <2>4. FilterInv'
    BY <1>3, <2>1, <2>3 DEF FilterInv
  <2>5. SeenInv'
    <3>1. Seen(j - 1)' = {}
      BY <1>7 DEF Seen
    <3>2. Cardinality(Seen(j - 1))' = 0
      BY <3>1, FS_EmptySet
    <3> QED BY <1>1, <1>7, <3>2 DEF SeenInv
  <2>6. SimpleInv' /\ RKInv' /\ TriedInv' /\ CountsAgree'
    BY <1>1, <1>7 DEF SimpleInv, RKInv, TriedInv, CountsAgree
  <2> QED BY <2>4, <2>5, <2>6 DEF CountInv
<1> QED BY <1>4, <1>5, <1>6, <1>7, InsertCases

(* A window that is a chunk, and whose hash is certain, is found.          *)
LEMMA StoredHit ==
    ASSUME RollInv, CountInv, pc = "query", Stored(j)
    PROVE  Hit
<1>1. PICK c \in Chunks : Chunk(c) = Window(j)
  BY DEF Stored
<1>2. /\ RKTypes /\ k \in Nat /\ j \in Nat /\ j + k <= Len(Y)
      /\ HashOf(BIG_PRIME, curr, Window(j)) /\ ~IsZero(Window(j))
  BY Modulus DEF RollInv, RKTypes, HashInv, Rolled, Stored
<1>3. PICK hash \in 0..BIG_PRIME :
          HashOf(BIG_PRIME, hash, Chunk(c)) /\ BitsOf(bsz, hash) \subseteq bits
  BY <1>1 DEF CountInv, FilterInv, Inserted
<1>4. Window(j) \in [1..k -> Chars]
  BY <1>2, WindowIs
<1>5. HashOf(BIG_PRIME, hash, Window(j))
  BY <1>1, <1>3
<1>6. curr = hash
  BY <1>2, <1>4, <1>5, SameTextSameHash
<1> QED BY <1>3, <1>6 DEF Hit, bloom_query

LEMMA SeenNext ==
    ASSUME NEW n \in Nat
    PROVE  /\ IsFiniteSet(Seen(n - 1)) /\ Cardinality(Seen(n - 1)) \in Nat
           /\ Cardinality(Seen(n)) =
                IF Stored(n) THEN Cardinality(Seen(n - 1)) + 1 ELSE Cardinality(Seen(n - 1))
           /\ Cardinality(Seen(n)) \in Nat
<1>1. IsFiniteSet(Seen(n - 1)) /\ Cardinality(Seen(n - 1)) \in Nat
  <2>1. IsFiniteSet(0..(n - 1))
    BY FS_Interval
  <2>2. Seen(n - 1) \subseteq 0..(n - 1)
    BY DEF Seen
  <2> QED BY <2>1, <2>2, FS_Subset, FS_CardinalityType
<1>2. 0..n = 0..(n - 1) \cup {n} /\ n \notin 0..(n - 1)
  OBVIOUS
<1>3. CASE Stored(n)
  <2>1. Seen(n) = Seen(n - 1) \cup {n} /\ n \notin Seen(n - 1)
    BY <1>2, <1>3 DEF Seen
  <2> QED BY <1>1, <1>3, <2>1, FS_AddElement
<1>4. CASE ~Stored(n)
  <2>1. Seen(n) = Seen(n - 1)
    BY <1>2, <1>4 DEF Seen
  <2> QED BY <1>1, <1>4, <2>1
<1> QED BY <1>1, <1>3, <1>4

LEMMA QueryCount == RollInv /\ CountInv /\ Query => CountInv'
<1> SUFFICES ASSUME RollInv, CountInv, Query PROVE CountInv'
  OBVIOUS
<1>1. /\ pc = "query" /\ which_algo = RKBATCH /\ UNCHANGED <<opts, docs, i, filter>>
      /\ outcome = "running" /\ RKTypes /\ num_matched \in Nat /\ j \in Nat /\ j + k <= Len(Y)
      /\ Len(Y) <= MaxY
  BY QueryCases DEF RollInv, RKTypes, PlaceInv, HashInv, Rolled
<1>2. k \in Nat /\ Len(Y) \in Nat /\ MaxY \in Nat
  BY <1>1, Modulus
<1>3. /\ k' = k /\ solved' = solved /\ which_algo' = RKBATCH /\ Chunks' = Chunks
      /\ \A o : Chunk(o)' = Chunk(o) /\ Window(o)' = Window(o)
      /\ \A s : IsZero(s)' <=> IsZero(s)
  BY <1>1, SameDocs
<1>4. CASE End("divide")
  BY <1>4, EndCount DEF End
<1>5. CASE num_matched' = (IF Hit THEN Count ELSE num_matched) /\ j' = j + 1
  <2>1. Cardinality(Seen(j)) <= num_matched' /\ num_matched' <= j + 1
    <3>1. Cardinality(Seen(j - 1)) <= num_matched /\ num_matched <= j
      BY <1>1 DEF CountInv, SeenInv
    <3>2. Count = num_matched + 1
      <4>1. j <= MaxY
        BY <1>1, <1>2
      <4> QED BY <1>1, <3>1, <4>1, CountsUp
    <3>3. Stored(j) => Hit
      BY <1>1, StoredHit
    <3>4. /\ Cardinality(Seen(j - 1)) \in Nat
          /\ Cardinality(Seen(j)) = IF Stored(j) THEN Cardinality(Seen(j - 1)) + 1
                                    ELSE Cardinality(Seen(j - 1))
      BY <1>1, SeenNext
    <3> QED BY <1>1, <1>5, <3>1, <3>2, <3>3, <3>4
  <2>2. CASE pc' = "over" /\ outcome' = "aborted"
    BY <2>2, EndCount
  <2>3. CASE j + k >= Len(Y) /\ pc' = "over"
    <3>1. j = Len(Y) - k
      BY <1>1, <1>2, <2>3
    <3>2. Cardinality(Seen(j)) \in Nat /\ num_matched' \in Nat
      <4>1. Cardinality(Seen(j)) \in Nat
        BY <1>1, SeenNext
      <4>2. num_matched' \in Nat
        BY <1>1, <1>5, CountType
      <4> QED BY <4>1, <4>2
    <3>3. num_matched' >= Cardinality(Seen(Len(Y) - k))
      BY <2>1, <3>1, <3>2
    <3> QED BY <1>1, <2>3, <3>3, BatchDone
  <2>4. CASE UNCHANGED <<pc, outcome>>
    <3>1. SeenInv'
      <4>1. Seen(j - 1)' = Seen(j)
        <5>1. j' - 1 = j
          BY <1>1, <1>5
        <5> QED BY <1>3, <5>1 DEF Seen, Stored
      <4>2. Cardinality(Seen(j - 1))' = Cardinality(Seen(j))
        BY <4>1
      <4> QED BY <1>5, <2>1, <4>2 DEF SeenInv
    <3>2. FilterInv'
      <4>1. \A c : Inserted(c) => Inserted(c)'
        BY <1>1, InsertedStays DEF filter
      <4> QED BY <1>1, <1>3, <2>4, <4>1 DEF CountInv, FilterInv
    <3>3. SimpleInv' /\ RKInv' /\ TriedInv' /\ CountsAgree'
      BY <1>1, <2>4 DEF SimpleInv, RKInv, TriedInv, CountsAgree
    <3> QED BY <3>1, <3>2, <3>3 DEF CountInv
  <2>5. CASE End("divide")
    BY <1>4, <2>5
  <2> QED BY <2>2, <2>3, <2>4, <2>5, QueryCases
<1> QED BY <1>4, <1>5, QueryCases

LEMMA StillCount == RollInv /\ CountInv /\ UNCHANGED vars => CountInv'
<1> SUFFICES ASSUME RollInv, CountInv, UNCHANGED vars PROVE CountInv'
  OBVIOUS
<1>1. /\ UNCHANGED <<opts, docs, bsz>> /\ bits' = bits
      /\ pc' = pc /\ i' = i /\ j' = j /\ num_matched' = num_matched /\ outcome' = outcome
  BY DEF vars, filter
<1>2. /\ k' = k /\ solved' = solved /\ which_algo' = which_algo /\ Chunks' = Chunks
      /\ \A o : Chunk(o)' = Chunk(o) /\ Window(o)' = Window(o)
      /\ \A s : IsZero(s)' <=> IsZero(s)
      /\ Occurring' = Occurring /\ SurelyOccurring' = SurelyOccurring
      /\ Len(Y)' = Len(Y)
  BY <1>1, SameDocs
<1>3. SimpleInv'
  BY <1>1, <1>2 DEF CountInv, SimpleInv, Below
<1>4. RKInv'
  BY <1>1, <1>2 DEF CountInv, RKInv, Below
<1>5. TriedInv'
  <2>1. Chunk(i)' = Chunk(i) /\ (IsZero(Chunk(i))' <=> IsZero(Chunk(i)))
    BY <1>1, <1>2 DEF Chunk, IsZero, opts, docs
  <2> QED BY <1>1, <1>2, <2>1 DEF CountInv, TriedInv
<1>6. FilterInv'
  <2>1. \A c : Inserted(c) => Inserted(c)'
    BY <1>1, InsertedStays
  <2> QED BY <1>1, <1>2, <2>1 DEF CountInv, FilterInv
<1>7. SeenInv'
  <2>1. Seen(j - 1)' = Seen(j - 1)
    BY <1>1, <1>2 DEF Seen, Stored
  <2> QED BY <1>1, <2>1 DEF CountInv, SeenInv
<1>8. CountsAgree'
  <2>1. /\ {o \in Occurring : ~IsZero(Chunk(o))}' = {o \in Occurring : ~IsZero(Chunk(o))}
        /\ {o \in 0..(Len(Y) - k) :
              ~IsZero(Window(o)) /\ \E c \in Chunks : Chunk(c) = Window(o)}' =
           {o \in 0..(Len(Y) - k) :
              ~IsZero(Window(o)) /\ \E c \in Chunks : Chunk(c) = Window(o)}
    BY <1>2
  <2> QED BY <1>1, <1>2, <2>1 DEF CountInv, CountsAgree
<1> QED BY <1>3, <1>4, <1>5, <1>6, <1>7, <1>8 DEF CountInv

(* What each step leaves true of the count: which chunks the simple and    *)
(* the Rabin-Karp match have counted, what is in the filter and which      *)
(* windows a batch match has counted.                                      *)
THEOREM Counting == Spec => []CountInv
<1>1. Init => CountInv
  BY InitCount
<1>2. RollInv /\ CountInv /\ [Next]_vars => CountInv'
  BY ReadFilesCount, DispatchCount, ChunksOverCount, SimpleChunkCount, RKChunkCount,
     RKWindowCount, InsertCount, QueryCount, StillCount DEF Next, Step
<1> QED BY <1>1, <1>2, RollInvariance, PTL DEF Spec

(* rabin_karp_match counts what simple_match counts, and never more; both  *)
(* that and rabin_karp_batchmatch, whose filter has no false negatives,    *)
(* may miss a text only when its hash is 0.                                *)
THEOREM Counts == Spec => []CountsAgree
<1>1. CountInv => CountsAgree
  BY DEF CountInv
<1> QED BY <1>1, Counting, PTL
=============================================================================
