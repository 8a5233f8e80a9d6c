------------------------------- MODULE MMProofs -------------------------------
(***************************************************************************)
(* The heap invariant of mm.c, for every alignment, heap size, word widths *)
(* and every set of block names and sizes an int can hold.                 *)
(***************************************************************************)
EXTENDS MMClient, TLAPS

(* A divides its multiples.                                                *)
LEMMA MultipleMod ==
    ASSUME NEW A \in Nat \ {0}, NEW q \in Int
    PROVE  (A * q) % A = 0
<1> DEFINE d == (A * q) \div A
           m == (A * q) % A
<1>1. A * q \in Int /\ d \in Int /\ m \in 0..(A - 1) /\ A * q = A * d + m
  OBVIOUS
<1> HIDE DEF d, m
<1>2. A * (q - d) = m
  BY <1>1
<1>3. q - d < 1
  <2> SUFFICES ASSUME q - d >= 1 PROVE FALSE
    BY <1>1
  <2>1. PICK e \in Nat : q - d = 1 + e
    BY <1>1
  <2>2. A * (q - d) = A + A * e
    BY <2>1, <1>1
  <2>3. A * e >= 0
    OBVIOUS
  <2> QED BY <2>2, <2>3, <1>1, <1>2
<1>4. q - d > -1
  <2> SUFFICES ASSUME q - d <= -1 PROVE FALSE
    BY <1>1
  <2>1. PICK e \in Nat : q - d = -1 - e
    BY <1>1
  <2>2. A * (q - d) = -A - A * e
    BY <2>1, <1>1
  <2>3. A * e >= 0
    OBVIOUS
  <2> QED BY <2>2, <2>3, <1>1, <1>2
<1>5. q - d = 0
  BY <1>1, <1>3, <1>4
<1> QED BY <1>2, <1>5 DEF m

(* Whatever A divides is a multiple of A.                                  *)
LEMMA ModMultiple ==
    ASSUME NEW A \in Nat \ {0}, NEW n \in Int, n % A = 0
    PROVE  \E q \in Int : n = A * q
<1> DEFINE q == n \div A
<1>1. n = A * q + (n % A) /\ q \in Int
  OBVIOUS
<1> HIDE DEF q
<1>2. A * q \in Int
  BY <1>1
<1>3. n = A * q
  BY <1>1, <1>2
<1> QED BY <1>1, <1>3

(* No remainder changes a number below the modulus.                        *)
LEMMA ModSmall ==
    ASSUME NEW n \in Nat, NEW A \in Nat, n < A
    PROVE  n % A = n
  OBVIOUS

(* mm.h:12: ALIGN rounds up to a multiple of ALIGNMENT, by less than       *)
(* ALIGNMENT, as long as the sum does not wrap around.                     *)
LEMMA AlignRounds ==
    ASSUME NEW n \in Nat, n + (ALIGNMENT - 1) < SizeMod
    PROVE  /\ ALIGN(n) \in Nat
           /\ n <= ALIGN(n) /\ ALIGN(n) < n + ALIGNMENT
           /\ IS_ALIGNED(ALIGN(n))
<1> USE HeapAssumption
<1> DEFINE u == n + (ALIGNMENT - 1)
           q == u \div ALIGNMENT
<1>1. u \in Nat /\ u % SizeMod = u
  OBVIOUS
<1>2. q \in Nat /\ u = ALIGNMENT * q + (u % ALIGNMENT) /\ u % ALIGNMENT \in 0..(ALIGNMENT - 1)
  BY <1>1
<1>3. ALIGN(n) = ALIGNMENT * q
  BY <1>1 DEF ALIGN
<1> HIDE DEF q
<1>4. IS_ALIGNED(ALIGN(n))
  BY <1>2, <1>3, MultipleMod DEF IS_ALIGNED
<1>5. ALIGNMENT * q \in Nat
  BY <1>2
<1> QED BY <1>2, <1>3, <1>4, <1>5

(* mm.h:15: sums of aligned addresses and sizes are aligned.               *)
LEMMA AlignedSum ==
    ASSUME NEW m \in Int, NEW n \in Int, IS_ALIGNED(m), IS_ALIGNED(n)
    PROVE  IS_ALIGNED(m + n)
<1>1. ALIGNMENT \in Nat \ {0}
  BY HeapAssumption
<1>2. PICK a \in Int : m = ALIGNMENT * a
  BY <1>1, ModMultiple DEF IS_ALIGNED
<1>3. PICK b \in Int : n = ALIGNMENT * b
  BY <1>1, ModMultiple DEF IS_ALIGNED
<1>4. m + n = ALIGNMENT * (a + b) /\ a + b \in Int
  BY <1>1, <1>2, <1>3
<1> QED BY <1>1, <1>4, MultipleMod DEF IS_ALIGNED

(* mm.h:17: the room for a header is a positive multiple of ALIGNMENT.     *)
LEMMA HeaderSize ==
    /\ SIZE_T_SIZE \in Nat \ {0}
    /\ SIZE_T_SIZE < SIZEOF_SIZE_T + ALIGNMENT
    /\ IS_ALIGNED(SIZE_T_SIZE)
<1>1. SIZEOF_SIZE_T + (ALIGNMENT - 1) < SizeMod
  BY HeapAssumption
<1> QED BY <1>1, AlignRounds, HeapAssumption DEF SIZE_T_SIZE

(* mm.c:52: newsize is an integer for every size a client asks for.        *)
LEMMA SizesAreInts ==
    ASSUME NEW n \in 1..INT_MAX
    PROVE  n \in Nat /\ newsize(n) \in Int
  BY HeaderSize, HeapAssumption DEF newsize, ToInt, ALIGN, INT_MAX

(* mm.c:52 and memlib.c:61: whatever size an int can hold is asked for,    *)
(* the increment is refused or is an aligned one with room for header and  *)
(* payload, in spite of the conversion to int.                             *)
LEMMA Increment ==
    ASSUME NEW n \in 1..INT_MAX, newsize(n) >= 0
    PROVE  newsize(n) \in Nat /\ newsize(n) >= n + SIZE_T_SIZE /\ IS_ALIGNED(newsize(n))
<1> USE HeapAssumption
<1> DEFINE a == ALIGN(n + SIZE_T_SIZE)
           half == IntMod \div 2
<1>1. half \in Nat /\ IntMod = half + half /\ INT_MAX = half - 1
  BY DEF INT_MAX
<1> HIDE DEF half
<1>2. n + SIZE_T_SIZE \in Nat /\ n + SIZE_T_SIZE < SizeMod
      /\ n + SIZE_T_SIZE + (ALIGNMENT - 1) < IntMod
  BY <1>1, HeaderSize DEF half
<1>3. /\ a \in Nat /\ n + SIZE_T_SIZE <= a /\ IS_ALIGNED(a)
      /\ a < IntMod
  BY <1>2, AlignRounds
<1>4. newsize(n) = ToInt(a)
  <2>1. (n + SIZE_T_SIZE) % SizeMod = n + SIZE_T_SIZE
    BY <1>2, ModSmall
  <2> QED BY <2>1 DEF newsize
<1> HIDE DEF a
<1>5. a % IntMod = a
  BY <1>3
<1>6. newsize(n) = a
  BY <1>3, <1>4, <1>5 DEF ToInt
<1> QED BY <1>3, <1>6

-------------------------------------------------------------------------------
(* The fields of the heap, from the type invariant.                        *)
LEMMA TypesOfHeap ==
    ASSUME TypeOK
    PROVE  /\ heap.brk \in 0..MAX_HEAP
           /\ heap.mem \in [Addr -> Cells]
           /\ heap = [brk |-> heap.brk, mem |-> heap.mem]
  BY DEF TypeOK

(* What a successful mm_malloc does to the heap.                           *)
LEMMA MallocResult ==
    ASSUME HeapInv, NEW n \in Sizes, mm_malloc(heap, n).p # NULL
    PROVE  /\ ~CannotExtend(heap, newsize(n))
           /\ mm_malloc(heap, n) =
                [p    |-> heap.brk + SIZE_T_SIZE,
                 heap |-> [brk |-> heap.brk + newsize(n),
                           mem |-> [heap.mem EXCEPT ![heap.brk] = n]]]
           /\ heap.brk + newsize(n) \in 0..MAX_HEAP
           /\ heap.brk + SIZE_T_SIZE + n <= heap.brk + newsize(n)
           /\ heap.brk \in Addr /\ heap.brk + SIZE_T_SIZE \in Addr
           /\ IS_ALIGNED(heap.brk + newsize(n))
           /\ IS_ALIGNED(heap.brk + SIZE_T_SIZE)
<1> DEFINE b == heap.brk
<1>1. TypeOK /\ IS_ALIGNED(b)
  BY DEF HeapInv
<1>2. b \in 0..MAX_HEAP /\ heap = [brk |-> b, mem |-> heap.mem]
  BY <1>1, TypesOfHeap
<1>3. ~CannotExtend(heap, newsize(n))
  BY DEF mm_malloc, mem_sbrk
<1>4. n \in 1..INT_MAX
  BY ClientAssumption
<1>5. newsize(n) \in Int
  BY <1>4, SizesAreInts
<1>6. newsize(n) >= 0 /\ b + newsize(n) <= MAX_HEAP
  BY <1>2, <1>3, <1>5, HeapAssumption DEF CannotExtend
<1>7. newsize(n) \in Nat /\ newsize(n) >= n + SIZE_T_SIZE /\ IS_ALIGNED(newsize(n))
  BY <1>4, <1>6, Increment
<1>8. b # NULL
  BY <1>2, HeapAssumption
<1>9. mm_malloc(heap, n) =
        [p    |-> b + SIZE_T_SIZE,
         heap |-> [brk |-> b + newsize(n), mem |-> [heap.mem EXCEPT ![b] = n]]]
  <2>1. mem_sbrk(heap, newsize(n)) =
          [p |-> b, heap |-> [brk |-> b + newsize(n), mem |-> heap.mem]]
    BY <1>2, <1>3 DEF mem_sbrk
  <2> QED BY <2>1, <1>8 DEF mm_malloc
<1>10. n >= 1 /\ SIZE_T_SIZE \in Nat \ {0} /\ IS_ALIGNED(SIZE_T_SIZE)
  BY <1>4, HeaderSize DEF INT_MAX
<1>11. b + newsize(n) \in 0..MAX_HEAP /\ b + SIZE_T_SIZE + n <= b + newsize(n)
  BY <1>2, <1>6, <1>7, <1>10, <1>4, HeapAssumption DEF INT_MAX
<1>12. b \in Addr /\ b + SIZE_T_SIZE \in Addr
  BY <1>2, <1>11, <1>10, <1>4, HeapAssumption DEF Addr, INT_MAX
<1>13. IS_ALIGNED(b + newsize(n)) /\ IS_ALIGNED(b + SIZE_T_SIZE)
  BY <1>1, <1>2, <1>7, <1>10, AlignedSum
<1> QED BY <1>3, <1>9, <1>11, <1>12, <1>13

(* The address and the size of a block, from the type invariant.           *)
LEMMA LiveTypes ==
    ASSUME TypeOK, NEW j \in Live
    PROVE  j \in Ids /\ ptr[j] \in Addr /\ ptr[j] \in Nat /\ size[j] \in Nat
<1>1. j \in Ids /\ ptr[j] \in Addr \cup {FREE} /\ ptr[j] # FREE
      /\ size[j] \in Sizes \cup {0}
  BY DEF TypeOK, Live
<1>2. \A n \in Sizes : n \in Nat
  BY ClientAssumption DEF INT_MAX
<1>3. \A a \in Addr : a \in Nat
  BY HeapAssumption DEF Addr
<1>4. size[j] \in Nat
  BY <1>1, <1>2
<1>5. ptr[j] \in Addr
  BY <1>1
<1> QED BY <1>1, <1>3, <1>4, <1>5

-------------------------------------------------------------------------------
(* mm_malloc writes at mem_brk and above only.  The invariant survives     *)
(* giving the new block, with any contents m, to a name whose old block    *)
(* (if there is one) is dropped.                                           *)
LEMMA TakeStep ==
    ASSUME HeapInv, NEW id \in Ids, NEW n \in Sizes,
           mm_malloc(heap, n).p # NULL,
           NEW m \in [Addr -> Cells],
           m[heap.brk] = n,
           \A a \in 0..(heap.brk - 1) : m[a] = heap.mem[a],
           heap' = [brk |-> heap.brk + newsize(n), mem |-> m],
           ptr'  = [ptr EXCEPT ![id] = heap.brk + SIZE_T_SIZE],
           size' = [size EXCEPT ![id] = n]
    PROVE  HeapInv'
<1> DEFINE b == heap.brk
<1> USE HeapAssumption
<1>1. TypeOK /\ BlocksApart /\ HeaderIntact
  BY DEF HeapInv
<1>2. b \in 0..MAX_HEAP /\ heap.mem \in [Addr -> Cells]
  BY <1>1, TypesOfHeap
<1>3. /\ b + newsize(n) \in 0..MAX_HEAP
      /\ b + SIZE_T_SIZE + n <= b + newsize(n)
      /\ b \in Addr /\ b + SIZE_T_SIZE \in Addr
      /\ IS_ALIGNED(b + newsize(n)) /\ IS_ALIGNED(b + SIZE_T_SIZE)
  BY MallocResult
<1>4. n \in Nat \ {0} /\ Addr \subseteq Nat /\ FREE \notin Addr
  BY ClientAssumption, <1>2 DEF INT_MAX, Addr
<1>5. SIZE_T_SIZE \in Nat \ {0}
  BY HeaderSize
<1>6. heap'.brk = b + newsize(n) /\ heap'.mem = m
  OBVIOUS
<1>7. TypeOK'
  <2>1. ptr \in [Ids -> Addr \cup {FREE}] /\ size \in [Ids -> Sizes \cup {0}]
    BY <1>1 DEF TypeOK
  <2>2. ptr' \in [Ids -> Addr \cup {FREE}]
    BY <2>1, <1>3
  <2>3. size' \in [Ids -> Sizes \cup {0}]
    BY <2>1
  <2>4. heap' \in [brk : 0..MAX_HEAP, mem : [Addr -> Cells]]
    BY <1>3
  <2> QED BY <2>2, <2>3, <2>4 DEF TypeOK, Cells
<1>8. Live' = Live \cup {id}
  BY <1>1, <1>3, <1>4 DEF Live, TypeOK
<1>9. /\ ptr'[id] = b + SIZE_T_SIZE /\ size'[id] = n
      /\ \A j \in Live' \ {id} : j \in Live /\ ptr'[j] = ptr[j] /\ size'[j] = size[j]
  BY <1>1, <1>8 DEF TypeOK, Live
(* The blocks of before lie below mem_brk, headers included.               *)
<1>10. \A j \in Live : /\ ptr[j] \in Nat /\ size[j] \in Nat
                       /\ SIZE_T_SIZE <= ptr[j] /\ ptr[j] + size[j] <= b
                       /\ Header(j) \in 0..(b - 1) /\ Payload(j) \subseteq 0..(b - 1)
                       /\ IS_ALIGNED(ptr[j])
  <2> SUFFICES ASSUME NEW j \in Live
               PROVE  /\ ptr[j] \in Nat /\ size[j] \in Nat
                      /\ SIZE_T_SIZE <= ptr[j] /\ ptr[j] + size[j] <= b
                      /\ Header(j) \in 0..(b - 1) /\ Payload(j) \subseteq 0..(b - 1)
                      /\ IS_ALIGNED(ptr[j])
    OBVIOUS
  <2>1. ptr[j] \in Nat /\ size[j] \in Nat
    BY <1>1, LiveTypes
  <2>2. SIZE_T_SIZE <= ptr[j] /\ ptr[j] + size[j] <= b /\ IS_ALIGNED(ptr[j])
    BY <1>1 DEF BlocksApart, InHeap
  <2>3. Payload(j) \subseteq 0..(b - 1)
    BY <2>1, <2>2, <1>2 DEF Payload
  <2>4. Header(j) \in 0..(b - 1)
    BY <2>1, <2>2, <1>2, <1>5 DEF Header
  <2> QED BY <2>1, <2>2, <2>3, <2>4
<1>11. /\ Header(id)' = b
       /\ \A a \in Payload(id)' : a \in Int /\ a > b
  BY <1>2, <1>4, <1>5, <1>9 DEF Header, Payload
<1>12. \A j \in Live' \ {id} : Header(j)' = Header(j) /\ Payload(j)' = Payload(j)
  BY <1>9 DEF Header, Payload
<1>13. BlocksApart'
  <2>1. ASSUME NEW j \in Live' PROVE IS_ALIGNED(ptr'[j]) /\ InHeap(j)'
    <3>1. CASE j = id
      BY <3>1, <1>2, <1>3, <1>4, <1>5, <1>6, <1>9 DEF InHeap
    <3>2. CASE j # id
      <4>1. newsize(n) \in Int /\ newsize(n) >= 0
        BY <1>2, <1>3, <1>4, <1>5, Increment, MallocResult, ClientAssumption,
           SizesAreInts DEF CannotExtend
      <4> QED BY <3>2, <4>1, <1>2, <1>5, <1>6, <1>9, <1>10 DEF InHeap
    <3> QED BY <3>1, <3>2
  <2>2. ASSUME NEW j \in Live', NEW k \in Live', j # k
        PROVE  (Payload(j)' \cup {Header(j)'}) \cap (Payload(k)' \cup {Header(k)'}) = {}
    <3>1. CASE j # id /\ k # id
      BY <3>1, <2>2, <1>1, <1>9, <1>12 DEF BlocksApart
    <3>2. CASE j = id
      BY <3>2, <2>2, <1>2, <1>9, <1>10, <1>11, <1>12
    <3>3. CASE k = id
      BY <3>3, <2>2, <1>2, <1>9, <1>10, <1>11, <1>12
    <3> QED BY <3>1, <3>2, <3>3
  <2> QED BY <2>1, <2>2 DEF BlocksApart
<1>14. HeaderIntact'
  <2> SUFFICES ASSUME NEW j \in Live' PROVE heap'.mem[Header(j)'] = size'[j]
    BY DEF HeaderIntact
  <2>1. CASE j = id
    BY <2>1, <1>6, <1>9, <1>11
  <2>2. CASE j # id
    BY <2>2, <1>1, <1>6, <1>9, <1>10, <1>12 DEF HeaderIntact
  <2> QED BY <2>1, <2>2
<1> QED BY <1>3, <1>6, <1>7, <1>13, <1>14 DEF HeapInv

(* The header in front of a block below b lies in memory, below b.         *)
LEMMA HeaderAddr ==
    ASSUME NEW p \in Nat, NEW s \in Nat, NEW h \in Nat \ {0}, NEW b \in 0..MAX_HEAP,
           h <= p, p + s <= b
    PROVE  p - h \in Addr /\ p - h < b
<1>1. MAX_HEAP \in Nat
  BY HeapAssumption
<1> QED BY <1>1 DEF Addr

(* mm.c:81-84: the copy of mm_realloc reads bytes of the old block only,   *)
(* and writes above the new block's header.                                *)
LEMMA CopyStep ==
    ASSUME HeapInv, NEW id \in Live, NEW n \in Sizes,
           mm_malloc(heap, n).p # NULL
    PROVE  \E m \in [Addr -> Cells] :
              /\ mm_realloc(heap, ptr[id], n) =
                    [p    |-> heap.brk + SIZE_T_SIZE,
                     heap |-> [brk |-> heap.brk + newsize(n), mem |-> m]]
              /\ m[heap.brk] = n
              /\ \A a \in 0..(heap.brk - 1) : m[a] = heap.mem[a]
              /\ \A k \in 1..n : k <= size[id] =>
                    m[heap.brk + SIZE_T_SIZE + k - 1] = heap.mem[ptr[id] + k - 1]
<1> DEFINE b   == heap.brk
           new == mm_malloc(heap, n)
           old == [heap.mem EXCEPT ![b] = n]
           c   == copySize(new.heap, ptr[id], n)
           m   == memcpy(new.heap.mem, new.p, ptr[id], c)
<1> USE HeapAssumption
<1>1. TypeOK /\ BlocksApart /\ HeaderIntact
  BY DEF HeapInv
<1>2. b \in 0..MAX_HEAP /\ heap.mem \in [Addr -> Cells]
  BY <1>1, TypesOfHeap
<1>3. /\ new = [p |-> b + SIZE_T_SIZE, heap |-> [brk |-> b + newsize(n), mem |-> old]]
      /\ b + newsize(n) \in 0..MAX_HEAP
      /\ b + SIZE_T_SIZE + n <= b + newsize(n)
      /\ b \in Addr /\ b + SIZE_T_SIZE \in Addr
  BY MallocResult
<1>4. n \in Nat \ {0} /\ n \in Cells
  BY ClientAssumption DEF INT_MAX, Cells
<1>5. SIZE_T_SIZE \in Nat \ {0}
  BY HeaderSize
<1>6. /\ ptr[id] \in Nat /\ size[id] \in Nat
      /\ SIZE_T_SIZE <= ptr[id] /\ ptr[id] + size[id] <= b
  BY <1>1, LiveTypes DEF BlocksApart, InHeap
<1>7. ptr[id] - SIZE_T_SIZE \in Addr /\ ptr[id] - SIZE_T_SIZE < b
  <2> HIDE DEF b, new, old, c, m
  <2> QED BY <1>2, <1>5, <1>6, HeaderAddr
<1>8. old[ptr[id] - SIZE_T_SIZE] = size[id]
  <2>1. heap.mem[ptr[id] - SIZE_T_SIZE] = size[id]
    BY <1>1 DEF HeaderIntact, Header
  <2> QED BY <2>1, <1>2, <1>7
<1>9. c \in Nat /\ c <= n /\ c <= size[id]
      /\ \A k \in 1..n : k <= size[id] => k <= c
  <2>1. c = IF n < size[id] THEN n ELSE size[id]
    <3>1. new.heap.mem = old
      BY <1>3
    <3> HIDE DEF new, old
    <3> QED BY <3>1, <1>8 DEF copySize
  <2> HIDE DEF c
  <2> QED BY <2>1, <1>4, <1>6
<1>10. m = [a \in Addr |-> IF a \in (b + SIZE_T_SIZE)..(b + SIZE_T_SIZE + c - 1)
                           THEN old[ptr[id] + (a - (b + SIZE_T_SIZE))] ELSE old[a]]
  <2>1. new.p = b + SIZE_T_SIZE /\ new.heap.mem = old /\ DOMAIN old = Addr
    BY <1>2, <1>3
  <2> HIDE DEF new, old, c
  <2> QED BY <2>1 DEF memcpy
<1>11. new.p # NULL
  OBVIOUS
<1>12. mm_realloc(heap, ptr[id], n) =
          [p |-> b + SIZE_T_SIZE, heap |-> [brk |-> b + newsize(n), mem |-> m]]
  <2>1. new.p = b + SIZE_T_SIZE /\ new.heap.brk = b + newsize(n)
        /\ new.heap = [brk |-> b + newsize(n), mem |-> old]
    BY <1>3
  <2>2. mm_realloc(heap, ptr[id], n) =
          [p |-> new.p, heap |-> [new.heap EXCEPT !.mem = m]]
    BY <1>11 DEF mm_realloc, mm_free
  <2> HIDE DEF new, old, c, m
  <2>3. [new.heap EXCEPT !.mem = m] = [brk |-> b + newsize(n), mem |-> m]
    BY <2>1
  <2> QED BY <2>1, <2>2, <2>3
<1> HIDE DEF c, m
<1>13. m \in [Addr -> Cells]
  <2>1. old \in [Addr -> Cells]
    BY <1>2, <1>4
  <2> HIDE DEF old
  <2> SUFFICES ASSUME NEW a \in Addr PROVE m[a] \in Cells
    BY <1>10
  <2>2. CASE a \in (b + SIZE_T_SIZE)..(b + SIZE_T_SIZE + c - 1)
    <3>1. ptr[id] + (a - (b + SIZE_T_SIZE)) \in Addr
      BY SMTT(40), <2>2, <1>2, <1>5, <1>6, <1>9 DEF Addr
    <3> QED BY <2>1, <2>2, <3>1, <1>10
  <2>3. CASE a \notin (b + SIZE_T_SIZE)..(b + SIZE_T_SIZE + c - 1)
    BY <2>1, <2>3, <1>10
  <2> QED BY <2>2, <2>3
<1>14. \A a \in 0..b : a \in Addr /\ a \notin (b + SIZE_T_SIZE)..(b + SIZE_T_SIZE + c - 1)
  BY <1>2, <1>3, <1>5, <1>9 DEF Addr
<1>15. m[b] = n
  BY <1>2, <1>3, <1>10, <1>14
<1>16. \A a \in 0..(b - 1) : m[a] = heap.mem[a]
  BY <1>2, <1>10, <1>14
<1>17. ASSUME NEW k \in 1..n, k <= size[id]
       PROVE  m[b + SIZE_T_SIZE + k - 1] = heap.mem[ptr[id] + k - 1]
  <2> DEFINE d == b + SIZE_T_SIZE
             a == d + k - 1
             o == ptr[id] + k - 1
  <2>1. d \in Nat /\ k \in Nat /\ 1 <= k /\ k <= c /\ d + n <= MAX_HEAP
    BY <1>2, <1>3, <1>4, <1>5, <1>9, <1>17
  <2>2. o \in Nat /\ o < b /\ o \in Addr
    BY <2>1, <1>2, <1>6, <1>17 DEF Addr
  <2>3. ptr[id] + (a - d) = o
    BY <2>1, <1>6
  <2> HIDE DEF d, o
  <2>4. a \in Addr /\ a \in d..(d + c - 1)
    BY <2>1, <1>4, <1>9 DEF Addr
  <2> HIDE DEF a
  <2>5. m[a] = old[ptr[id] + (a - d)]
    BY <2>4, <1>10 DEF d
  <2>6. old[o] = heap.mem[o]
    BY <2>2, <1>2
  <2> QED BY <2>3, <2>5, <2>6 DEF a, d, o
<1> QED BY <1>12, <1>13, <1>15, <1>16, <1>17

-------------------------------------------------------------------------------
(* mm.c and memlib.c: HeapInv holds initially.                             *)
LEMMA HeapInvInit == Init => HeapInv
<1> SUFFICES ASSUME Init PROVE HeapInv
  OBVIOUS
<1> USE HeapAssumption
<1>1. heap = [brk |-> 0, mem |-> [a \in Addr |-> JUNK]]
  BY DEF Init, mm_init, mem_init
<1>2. TypeOK
  BY <1>1 DEF TypeOK, Init, Cells
<1>3. Live = {}
  BY DEF Live, Init
<1>4. IS_ALIGNED(heap.brk)
  <2>1. 0 = ALIGNMENT * 0
    OBVIOUS
  <2>2. 0 % ALIGNMENT = 0
    BY <2>1, MultipleMod
  <2> QED BY <2>2, <1>1 DEF IS_ALIGNED
<1> QED BY <1>2, <1>3, <1>4 DEF HeapInv, BlocksApart, HeaderIntact

(* Every call of the package, and every write of its client, keeps it.     *)
LEMMA HeapInvStep == HeapInv /\ [Next]_vars => HeapInv'
<1> SUFFICES ASSUME HeapInv, [Next]_vars PROVE HeapInv'
  OBVIOUS
<1>1. TypeOK /\ BlocksApart /\ HeaderIntact /\ IS_ALIGNED(heap.brk)
  BY DEF HeapInv
<1>2. heap.brk \in 0..MAX_HEAP /\ heap.mem \in [Addr -> Cells]
      /\ heap = [brk |-> heap.brk, mem |-> heap.mem]
  BY <1>1, TypesOfHeap
<1>3. CASE UNCHANGED vars
  BY <1>1, <1>3 DEF vars, HeapInv, TypeOK, BlocksApart, HeaderIntact, Live, InHeap,
     Payload, Header
<1>4. CASE Reset
  <2>1. heap' = [brk |-> 0, mem |-> heap.mem]
    BY <1>2, <1>4 DEF Reset, mm_init, mem_reset_brk
  <2>2. Live' = {}
    BY <1>4 DEF Live, Reset
  <2>3. TypeOK'
    BY <2>1, <1>1, <1>2, <1>4, HeapAssumption DEF TypeOK, Reset, Cells
  <2>4. 0 % ALIGNMENT = 0
    <3>1. 0 = ALIGNMENT * 0
      BY HeapAssumption
    <3> QED BY <3>1, MultipleMod, HeapAssumption
  <2> QED BY <2>1, <2>2, <2>3, <2>4
          DEF HeapInv, BlocksApart, HeaderIntact, IS_ALIGNED
<1>5. ASSUME NEW id \in Ids, NEW n \in Sizes, Malloc(id, n) PROVE HeapInv'
  <2>1. CASE mm_malloc(heap, n).p = NULL
    BY <2>1, <1>3, <1>5 DEF Malloc
  <2>2. CASE mm_malloc(heap, n).p # NULL
    <3> DEFINE m == [heap.mem EXCEPT ![heap.brk] = n]
    <3>1. /\ mm_malloc(heap, n) =
               [p    |-> heap.brk + SIZE_T_SIZE,
                heap |-> [brk |-> heap.brk + newsize(n), mem |-> m]]
          /\ heap.brk \in Addr
      BY <2>2, MallocResult
    <3>2. n \in Cells
      BY DEF Cells
    <3>3. m \in [Addr -> Cells] /\ m[heap.brk] = n
          /\ \A a \in 0..(heap.brk - 1) : m[a] = heap.mem[a]
      <4>1. m \in [Addr -> Cells] /\ m[heap.brk] = n
        BY <1>2, <3>1, <3>2
      <4>2. ASSUME NEW a \in 0..(heap.brk - 1) PROVE m[a] = heap.mem[a]
        <5>1. a \in Addr /\ a # heap.brk
          BY <1>2, HeapAssumption DEF Addr
        <5> QED BY <5>1, <1>2
      <4> QED BY <4>1, <4>2
    <3> HIDE DEF m
    <3>4. /\ heap' = [brk |-> heap.brk + newsize(n), mem |-> m]
          /\ ptr'  = [ptr EXCEPT ![id] = heap.brk + SIZE_T_SIZE]
          /\ size' = [size EXCEPT ![id] = n]
      BY <2>2, <3>1, <1>5 DEF Malloc, Take
    <3> QED BY <2>2, <3>3, <3>4, TakeStep
  <2> QED BY <2>1, <2>2
<1>6. ASSUME NEW id \in Ids, NEW n \in Sizes, Realloc(id, n) PROVE HeapInv'
  <2>1. CASE mm_malloc(heap, n).p = NULL
    <3>1. mm_realloc(heap, ptr[id], n).p = NULL
      BY <2>1 DEF mm_realloc
    <3> QED BY <3>1, <1>3, <1>6 DEF Realloc
  <2>2. CASE mm_malloc(heap, n).p # NULL
    <3>1. id \in Live
      BY <1>6 DEF Realloc
    <3>2. PICK m \in [Addr -> Cells] :
            /\ mm_realloc(heap, ptr[id], n) =
                  [p    |-> heap.brk + SIZE_T_SIZE,
                   heap |-> [brk |-> heap.brk + newsize(n), mem |-> m]]
            /\ m[heap.brk] = n
            /\ \A a \in 0..(heap.brk - 1) : m[a] = heap.mem[a]
            /\ \A k \in 1..n : k <= size[id] =>
                  m[heap.brk + SIZE_T_SIZE + k - 1] = heap.mem[ptr[id] + k - 1]
      BY <2>2, <3>1, CopyStep
    <3>3. heap.brk + SIZE_T_SIZE # NULL
      BY <1>2, HeaderSize, HeapAssumption
    <3>4. /\ heap' = [brk |-> heap.brk + newsize(n), mem |-> m]
          /\ ptr'  = [ptr EXCEPT ![id] = heap.brk + SIZE_T_SIZE]
          /\ size' = [size EXCEPT ![id] = n]
      BY <3>2, <3>3, <1>6 DEF Realloc, Take
    <3> QED BY <2>2, <3>2, <3>4, TakeStep
  <2> QED BY <2>1, <2>2
<1>7. ASSUME NEW id \in Ids, Free(id) PROVE HeapInv'
  <2>1. heap' = heap /\ size' = size /\ ptr' = [ptr EXCEPT ![id] = FREE]
    BY <1>7 DEF Free, mm_free
  <2>2. TypeOK'
    BY <2>1, <1>1 DEF TypeOK, Cells
  <2>3. \A j \in Live' : j \in Live /\ ptr'[j] = ptr[j]
    BY <2>1, <1>1 DEF Live, TypeOK
  <2>4. BlocksApart'
    BY <2>1, <2>3, <1>1 DEF BlocksApart, InHeap, Payload, Header
  <2>5. HeaderIntact'
    BY <2>1, <2>3, <1>1 DEF HeaderIntact, Header
  <2> QED BY <2>1, <2>2, <2>4, <2>5, <1>1 DEF HeapInv
<1>8. ASSUME NEW id \in Ids, Write(id) PROVE HeapInv'
  <2>1. PICK k \in 0..(size[id] - 1), v \in Bytes :
          heap' = [heap EXCEPT !.mem[ptr[id] + k] = v]
    BY <1>8 DEF Write
  <2>2. id \in Live /\ ptr' = ptr /\ size' = size
    BY <1>8 DEF Write
  <2> DEFINE w == ptr[id] + k
  <2>3. heap' = [brk |-> heap.brk, mem |-> [heap.mem EXCEPT ![w] = v]]
    BY <2>1, <1>2
  <2>4. w \in Payload(id)
    BY <2>1, <2>2, <1>1, LiveTypes DEF Payload
  <2>5. Live' = Live
    BY <2>2 DEF Live
  <2>6. TypeOK'
    BY <2>2, <2>3, <1>1, <1>2 DEF TypeOK, Cells
  <2>7. BlocksApart'
    BY <2>2, <2>3, <2>5, <1>1 DEF BlocksApart, InHeap, Payload, Header
  <2>8. HeaderIntact'
    <3> SUFFICES ASSUME NEW j \in Live PROVE heap'.mem[Header(j)] = size[j]
      BY <2>2, <2>5 DEF HeaderIntact, Header
    <3>1. Header(j) # w
      <4>1. CASE j = id
        BY <4>1, <2>4, <2>2, <1>1, LiveTypes, HeaderSize DEF Header, Payload
      <4>2. CASE j # id
        BY <4>2, <2>4, <2>2, <1>1 DEF BlocksApart
      <4> QED BY <4>1, <4>2
    <3> QED BY <3>1, <2>3, <1>1, <1>2 DEF HeaderIntact
  <2>9. IS_ALIGNED(heap'.brk)
    BY <2>3, <1>1
  <2> QED BY <2>6, <2>7, <2>8, <2>9 DEF HeapInv
<1> QED BY <1>3, <1>4, <1>5, <1>6, <1>7, <1>8 DEF Next

(* mm.c hands out aligned blocks inside the heap that overlap neither each *)
(* other nor a header, and the header mm_realloc reads is always the size  *)
(* the block was asked for.                                                *)
THEOREM HeapInvariance == Spec => []HeapInv
  BY HeapInvInit, HeapInvStep, PTL DEF Spec

-------------------------------------------------------------------------------
(* What a block holds, as Allocator sees it.                               *)
LEMMA FunctionIsSeq ==
    ASSUME NEW n \in Nat, NEW R, NEW r \in [1..n -> R]
    PROVE  r \in Seq(R) /\ Len(r) = n
  OBVIOUS

(* The payload of a block is in memory, below mem_brk.                     *)
LEMMA PayloadAddr ==
    ASSUME HeapInv, NEW j \in Live, NEW k \in 1..size[j]
    PROVE  /\ ptr[j] + k - 1 \in Addr /\ ptr[j] + k - 1 \in 0..(heap.brk - 1)
           /\ ptr[j] + k - 1 \in Payload(j)
<1>1. heap.brk \in 0..MAX_HEAP
  BY TypesOfHeap DEF HeapInv
<1>2. ptr[j] \in Nat /\ size[j] \in Nat
  BY LiveTypes DEF HeapInv
<1>3. ptr[j] + size[j] <= heap.brk
  BY DEF HeapInv, BlocksApart, InHeap
<1> QED BY <1>1, <1>2, <1>3, HeapAssumption DEF Addr, Payload

(* The contents of a live block are an array of its size, and not FREE.    *)
LEMMA LiveContents ==
    ASSUME HeapInv, NEW j \in Live
    PROVE  /\ Contents[j] = [k \in 1..size[j] |-> heap.mem[ptr[j] + k - 1]]
           /\ Contents[j] \in [1..size[j] -> Cells]
           /\ Contents[j] # FREE
           /\ Len(Contents[j]) = size[j]
<1>1. j \in Ids /\ ptr[j] # FREE
  BY DEF Live
<1>2. Contents[j] = [k \in 1..size[j] |-> heap.mem[ptr[j] + k - 1]]
  BY <1>1 DEF Contents
<1>3. heap.mem \in [Addr -> Cells]
  BY TypesOfHeap DEF HeapInv
<1>4. \A k \in 1..size[j] : heap.mem[ptr[j] + k - 1] \in Cells
  BY <1>3, PayloadAddr
<1>5. Contents[j] \in [1..size[j] -> Cells]
  BY <1>2, <1>4
<1>6. size[j] \in Sizes \cup {0} /\ size[j] \in Nat
  BY <1>1, LiveTypes DEF HeapInv, TypeOK
<1>7. Contents[j] # FREE
  BY <1>5, <1>6, ClientAssumption DEF Cells
<1> QED BY <1>2, <1>5, <1>6, <1>7, FunctionIsSeq

(* The same for every block, in a form that can be primed.                 *)
ArraysOK ==
    \A j \in Live : /\ Contents[j] = [k \in 1..size[j] |-> heap.mem[ptr[j] + k - 1]]
                    /\ Contents[j] \in [1..size[j] -> Cells]

LEMMA ArraysNext == HeapInv' => ArraysOK'
<1>1. HeapInv => ArraysOK
  BY LiveContents DEF ArraysOK
<1> QED BY <1>1, PTL

(* The bytes of the blocks of other names stay as they are.                *)
SparesOthers(id) ==
    \A j \in Live : j # id => \A a \in Payload(j) : heap'.mem[a] = heap.mem[a]

(* The block is given n bytes at p.                                        *)
Placed(id, p, n) == Contents'[id] = [k \in 1..n |-> heap'.mem[p + k - 1]]

(* A step that leaves the bytes of the blocks of other names where and as  *)
(* they are changes the contents of one block only.                        *)
LEMMA OneBlock ==
    ASSUME HeapInv, HeapInv', NEW id \in Ids,
           NEW p \in Int, NEW n \in Nat,
           ptr' = [ptr EXCEPT ![id] = p],
           size' = [size EXCEPT ![id] = n],
           SparesOthers(id)
    PROVE  Abstract!Becomes(id, n) /\ Placed(id, p, n)
<1>1. ptr \in [Ids -> Addr \cup {FREE}] /\ size \in [Ids -> Sizes \cup {0}]
  BY DEF HeapInv, TypeOK
<1>2. ptr'[id] = p /\ size'[id] = n /\ p # FREE
  BY <1>1, ClientAssumption
<1>3. /\ Contents'[id] = [k \in 1..n |-> heap'.mem[p + k - 1]]
      /\ Contents'[id] \in [1..n -> Cells]
  <2>1. id \in Live'
    BY <1>2 DEF Live
  <2>2. /\ Contents'[id] = [k \in 1..size'[id] |-> heap'.mem[ptr'[id] + k - 1]]
        /\ Contents'[id] \in [1..size'[id] -> Cells]
    BY <2>1, ArraysNext DEF ArraysOK, Cells
  <2> QED BY <2>2, <1>2
<1>4. ASSUME NEW j \in Ids, j # id PROVE Contents'[j] = Contents[j]
  <2>1. ptr'[j] = ptr[j] /\ size'[j] = size[j]
    BY <1>1, <1>4
  <2>2. CASE ptr[j] = FREE
    BY <2>1, <2>2 DEF Contents
  <2>3. CASE ptr[j] # FREE
    <3>1. j \in Live
      BY <2>3 DEF Live
    <3>2. \A k \in 1..size[j] : heap'.mem[ptr[j] + k - 1] = heap.mem[ptr[j] + k - 1]
      BY <3>1, <1>4, PayloadAddr DEF SparesOthers
    <3>3. Contents[j] = [k \in 1..size[j] |-> heap.mem[ptr[j] + k - 1]]
      BY <3>1, LiveContents
    <3>4. Contents'[j] = [k \in 1..size[j] |-> heap'.mem[ptr[j] + k - 1]]
      <4>1. j \in Live'
        BY <2>1, <2>3 DEF Live
      <4>2. Contents'[j] = [k \in 1..size'[j] |-> heap'.mem[ptr'[j] + k - 1]]
        BY <4>1, ArraysNext DEF ArraysOK
      <4> QED BY <4>2, <2>1
    <3> QED BY <3>2, <3>3, <3>4
  <2> QED BY <2>2, <2>3
<1>5. Contents' = [Contents EXCEPT ![id] = Contents'[id]]
  <2>1. DOMAIN Contents = Ids /\ Contents = [j \in Ids |-> Contents[j]]
    BY DEF Contents
  <2>2. DOMAIN Contents' = Ids /\ Contents' = [j \in Ids |-> Contents'[j]]
    BY DEF Contents
  <2> QED BY <1>4, <2>1, <2>2
<1> QED BY <1>3, <1>5 DEF Abstract!Becomes, Placed

LEMMA InitRefines == Init => Abstract!Init
  BY DEF Init, Contents, Abstract!Init

(* What mm_malloc and mm_realloc write leaves the other blocks alone.      *)
LEMMA TakeRefines ==
    ASSUME HeapInv, HeapInv', NEW id \in Ids, NEW n \in Sizes,
           mm_malloc(heap, n).p # NULL,
           NEW m \in [Addr -> Cells],
           \A a \in 0..(heap.brk - 1) : m[a] = heap.mem[a],
           heap' = [brk |-> heap.brk + newsize(n), mem |-> m],
           ptr'  = [ptr EXCEPT ![id] = heap.brk + SIZE_T_SIZE],
           size' = [size EXCEPT ![id] = n]
    PROVE  /\ Abstract!Becomes(id, n)
           /\ Contents'[id] = [k \in 1..n |-> m[heap.brk + SIZE_T_SIZE + k - 1]]
<1> DEFINE p == heap.brk + SIZE_T_SIZE
<1>1. heap.brk \in 0..MAX_HEAP
  BY TypesOfHeap DEF HeapInv
<1>2. p \in Int /\ n \in Nat
  BY <1>1, HeaderSize, ClientAssumption DEF INT_MAX
<1>3. SparesOthers(id)
  <2> SUFFICES ASSUME NEW j \in Live, NEW a \in Payload(j) PROVE m[a] = heap.mem[a]
    BY DEF SparesOthers
  <2>1. ptr[j] \in Nat /\ size[j] \in Nat /\ ptr[j] + size[j] <= heap.brk
    BY LiveTypes DEF HeapInv, BlocksApart, InHeap
  <2>2. a \in 0..(heap.brk - 1)
    BY <1>1, <2>1 DEF Payload
  <2> QED BY <2>2
<1>4. ptr' = [ptr EXCEPT ![id] = p] /\ heap'.mem = m
  OBVIOUS
<1> HIDE DEF p
<1>5. Abstract!Becomes(id, n) /\ Placed(id, p, n)
  BY <1>2, <1>3, <1>4, OneBlock
<1> QED BY <1>4, <1>5 DEF p, Placed

(* A call of the package, and a write of its client, is a step of the      *)
(* abstract allocator; a refused call is none.                             *)
LEMMA StepRefines ==
    HeapInv /\ HeapInv' /\ [Next]_vars => [Abstract!Next]_Contents
<1> SUFFICES ASSUME HeapInv, HeapInv', [Next]_vars PROVE [Abstract!Next]_Contents
  OBVIOUS
<1>1. TypeOK /\ HeaderIntact
  BY DEF HeapInv
<1>2. heap.brk \in 0..MAX_HEAP /\ heap.mem \in [Addr -> Cells]
      /\ heap = [brk |-> heap.brk, mem |-> heap.mem]
  BY <1>1, TypesOfHeap
<1>3. CASE UNCHANGED vars
  BY <1>3 DEF vars, Contents
<1>4. CASE Reset
  <2>1. Contents' = [id \in Ids |-> FREE]
    BY <1>4 DEF Reset, Contents
  <2> QED BY <2>1 DEF Abstract!Next, Abstract!Reset
<1>5. ASSUME NEW id \in Ids, NEW n \in Sizes, Malloc(id, n)
      PROVE  [Abstract!Next]_Contents
  <2>1. CASE mm_malloc(heap, n).p = NULL
    BY <2>1, <1>3, <1>5 DEF Malloc
  <2>2. CASE mm_malloc(heap, n).p # NULL
    <3> DEFINE m == [heap.mem EXCEPT ![heap.brk] = n]
    <3>1. /\ mm_malloc(heap, n) =
               [p    |-> heap.brk + SIZE_T_SIZE,
                heap |-> [brk |-> heap.brk + newsize(n), mem |-> m]]
          /\ heap.brk \in Addr
      BY <2>2, MallocResult
    <3>2. m \in [Addr -> Cells]
      BY <1>2 DEF Cells
    <3>3. ASSUME NEW a \in 0..(heap.brk - 1) PROVE m[a] = heap.mem[a]
      <4>1. a \in Addr /\ a # heap.brk
        BY <1>2, HeapAssumption DEF Addr
      <4> QED BY <4>1, <1>2
    <3> HIDE DEF m
    <3>4. /\ heap' = [brk |-> heap.brk + newsize(n), mem |-> m]
          /\ ptr'  = [ptr EXCEPT ![id] = heap.brk + SIZE_T_SIZE]
          /\ size' = [size EXCEPT ![id] = n]
      BY <2>2, <3>1, <1>5 DEF Malloc, Take
    <3>5. Abstract!Becomes(id, n)
      BY <2>2, <3>2, <3>3, <3>4, TakeRefines
    <3>6. Contents[id] = FREE
      BY <1>5 DEF Malloc, Live, Contents
    <3> QED BY <3>5, <3>6 DEF Abstract!Next, Abstract!Malloc
  <2> QED BY <2>1, <2>2
<1>6. ASSUME NEW id \in Ids, NEW n \in Sizes, Realloc(id, n)
      PROVE  [Abstract!Next]_Contents
  <2>1. CASE mm_malloc(heap, n).p = NULL
    <3>1. mm_realloc(heap, ptr[id], n).p = NULL
      BY <2>1 DEF mm_realloc
    <3> QED BY <3>1, <1>3, <1>6 DEF Realloc
  <2>2. CASE mm_malloc(heap, n).p # NULL
    <3>1. id \in Live
      BY <1>6 DEF Realloc
    <3>2. PICK m \in [Addr -> Cells] :
            /\ mm_realloc(heap, ptr[id], n) =
                  [p    |-> heap.brk + SIZE_T_SIZE,
                   heap |-> [brk |-> heap.brk + newsize(n), mem |-> m]]
            /\ m[heap.brk] = n
            /\ \A a \in 0..(heap.brk - 1) : m[a] = heap.mem[a]
            /\ \A k \in 1..n : k <= size[id] =>
                  m[heap.brk + SIZE_T_SIZE + k - 1] = heap.mem[ptr[id] + k - 1]
      BY <2>2, <3>1, CopyStep
    <3>3. heap.brk + SIZE_T_SIZE # NULL
      BY <1>2, HeaderSize, HeapAssumption
    <3>4. /\ heap' = [brk |-> heap.brk + newsize(n), mem |-> m]
          /\ ptr'  = [ptr EXCEPT ![id] = heap.brk + SIZE_T_SIZE]
          /\ size' = [size EXCEPT ![id] = n]
      BY <3>2, <3>3, <1>6 DEF Realloc, Take
    <3>5. /\ Abstract!Becomes(id, n)
          /\ Contents'[id] = [k \in 1..n |-> m[heap.brk + SIZE_T_SIZE + k - 1]]
      BY <2>2, <3>2, <3>4, TakeRefines
    <3>6. /\ Contents[id] = [k \in 1..size[id] |-> heap.mem[ptr[id] + k - 1]]
          /\ Contents[id] # FREE /\ Len(Contents[id]) = size[id]
      BY <3>1, LiveContents
    <3>7. ASSUME NEW k \in 1..n, k <= Len(Contents[id])
          PROVE  Contents'[id][k] = Contents[id][k]
      <4>1. size[id] \in Nat
        BY <3>1, <1>1, LiveTypes
      <4>2. k \in 1..size[id] /\ k <= size[id]
        BY <4>1, <3>6, <3>7
      <4> QED BY <4>2, <3>2, <3>5, <3>6
    <3> QED BY <3>5, <3>6, <3>7 DEF Abstract!Next, Abstract!Realloc
  <2> QED BY <2>1, <2>2
<1>7. ASSUME NEW id \in Ids, Free(id) PROVE [Abstract!Next]_Contents
  <2>1. heap' = heap /\ size' = size /\ ptr' = [ptr EXCEPT ![id] = FREE]
    BY <1>7 DEF Free, mm_free
  <2>2. Contents[id] # FREE
    BY <1>7, LiveContents DEF Free
  <2>3. Contents' = [Contents EXCEPT ![id] = FREE]
    BY <2>1, <1>1 DEF Contents, TypeOK
  <2> QED BY <2>2, <2>3 DEF Abstract!Next, Abstract!Free
<1>8. ASSUME NEW id \in Ids, Write(id) PROVE [Abstract!Next]_Contents
  <2>1. PICK k \in 0..(size[id] - 1), v \in Bytes :
          heap' = [heap EXCEPT !.mem[ptr[id] + k] = v]
    BY <1>8 DEF Write
  <2>2. id \in Live /\ ptr' = ptr /\ size' = size
    BY <1>8 DEF Write
  <2> DEFINE w == ptr[id] + k
  <2>3. heap'.mem = [heap.mem EXCEPT ![w] = v]
    BY <2>1, <1>2
  <2>4. ptr[id] \in Nat /\ size[id] \in Nat
    BY <2>2, <1>1, LiveTypes
  <2>5. w \in Payload(id)
    BY <2>1, <2>4 DEF Payload
  <2> HIDE DEF w
  <2>6. SparesOthers(id)
    <3> SUFFICES ASSUME NEW j \in Live, j # id, NEW a \in Payload(j)
                 PROVE  heap'.mem[a] = heap.mem[a]
      BY DEF SparesOthers
    <3>1. a # w
      BY <2>2, <2>5 DEF HeapInv, BlocksApart
    <3> QED BY <3>1, <2>3, <1>2
  <2>7. ptr' = [ptr EXCEPT ![id] = ptr[id]] /\ size' = [size EXCEPT ![id] = size[id]]
    BY <2>2, <1>1 DEF TypeOK
  <2>8. Abstract!Becomes(id, size[id])
    <3>1. ptr[id] \in Int
      BY <2>4
    <3> QED BY <3>1, <2>4, <2>6, <2>7, OneBlock
  <2>9. Contents[id] # FREE /\ Len(Contents[id]) = size[id]
    BY <2>2, LiveContents
  <2> QED BY <2>8, <2>9 DEF Abstract!Next, Abstract!Write
<1> QED BY <1>3, <1>4, <1>5, <1>6, <1>7, <1>8 DEF Next

(* mm.c keeps the promises of a malloc package for every heap size and     *)
(* word width: blocks are independent of each other, a refused call has no *)
(* effect, and mm_realloc keeps the contents up to the lesser size.        *)
THEOREM Refinement == Spec => IsAnAllocator
  BY InitRefines, StepRefines, HeapInvariance, PTL DEF Spec, IsAnAllocator, Abstract!Spec
=============================================================================
