----------------------------- MODULE MDriverProofs -----------------------------
(***************************************************************************)
(* What the driver keeps track of and how it judges mm.c, for every heap   *)
(* size, word width, alignment, traces of any length and any payloads.     *)
(***************************************************************************)
EXTENDS MDriver, FiniteSetTheorems, SequenceTheorems, TLAPS

(* The extents of payloads, and the list of those of the blocks in S.      *)
RangeSet == [lo : Int, hi : Int]
RecordsOf(S, b, z) == {[lo |-> b[x], hi |-> Hi(b[x], z[x])] : x \in S}

Tracks(rs, S, b, z) ==
    /\ rs \in Seq(RangeSet)
    /\ IsFiniteSet(S) /\ S \subseteq Indices
    /\ \A x \in S : b[x] \in Int /\ z[x] \in TraceSizes
    /\ \A x, y \in S : b[x] = b[y] => x = y
    /\ Len(rs) = Cardinality(S)
    /\ ToSet(rs) = RecordsOf(S, b, z)

(* The payloads of a list lie below top and overlap only by containment.   *)
Contained(rs, top) ==
    /\ \A k \in DOMAIN rs :
          IS_ALIGNED(rs[k].lo) /\ 0 <= rs[k].lo /\ rs[k].hi <= top - 1
    /\ \A k, l \in DOMAIN rs :
          k < l /\ rs[k].lo <= rs[l].hi /\ rs[l].lo <= rs[k].hi
          => rs[k].lo < rs[l].lo /\ rs[l].hi < rs[k].hi

(* Every record is that of a block, and every block has one.               *)
RecordsOwned(rs, S, b, z) ==
    \A k \in 1..Len(rs) : \E x \in S : rs[k] = [lo |-> b[x], hi |-> Hi(b[x], z[x])]
BlocksListed(rs, S, b, z) ==
    \A x \in S : \E k \in 1..Len(rs) : rs[k] = [lo |-> b[x], hi |-> Hi(b[x], z[x])]

(* add_range has no complaint.                                             *)
Accepts(rs, h, lo, n) == RangeError(rs, h, lo, n) = ""

LEMMA SizeIsNat == ASSUME NEW n \in TraceSizes PROVE n \in Nat \ {0} /\ n \in 1..INT_MAX
<1>1. n \in 1..INT_MAX
  BY DriverAssumption
<1>2. INT_MAX \in Int
  BY HeapAssumption DEF INT_MAX
<1> HIDE DEF INT_MAX
<1> QED BY <1>1, <1>2

(* mdriver.c:412-423: add_range puts its record in front.                  *)
LEMMA AddedRange ==
    ASSUME NEW rs \in Seq(RangeSet), NEW lo \in Int, NEW n \in Int
    PROVE  /\ add_range(rs, lo, n) \in Seq(RangeSet)
           /\ Len(add_range(rs, lo, n)) = Len(rs) + 1
           /\ add_range(rs, lo, n)[1] = [lo |-> lo, hi |-> Hi(lo, n)]
           /\ \A k \in 1..Len(rs) : add_range(rs, lo, n)[k + 1] = rs[k]
<1> DEFINE e == [lo |-> lo, hi |-> Hi(lo, n)]
           new == add_range(rs, lo, n)
<1>1. e \in RangeSet
  BY DEF RangeSet, Hi
<1> HIDE DEF e
<1>2. <<e>> \in Seq(RangeSet) /\ Len(<<e>>) = 1 /\ <<e>>[1] = e
  BY <1>1
<1>3. new = <<e>> \o rs
  BY DEF add_range, e
<1>4. Len(rs) \in Nat
  BY LenProperties
<1>5. /\ new \in Seq(RangeSet) /\ Len(new) = 1 + Len(rs)
      /\ \A k \in 1..1 + Len(rs) : new[k] = IF k <= 1 THEN <<e>>[k] ELSE rs[k - 1]
  BY <1>2, <1>3, ConcatProperties
<1> HIDE DEF new
<1>6. new[1] = e
  BY <1>2, <1>4, <1>5
<1>7. ASSUME NEW k \in 1..Len(rs) PROVE new[k + 1] = rs[k]
  <2>1. k + 1 \in 1..1 + Len(rs) /\ ~(k + 1 <= 1) /\ (k + 1) - 1 = k
    BY <1>4
  <2> QED BY <2>1, <1>5
<1>8. Len(new) = Len(rs) + 1
  BY <1>4, <1>5
<1> QED BY <1>5, <1>6, <1>7, <1>8 DEF new, e

(* mdriver.c:425-443: remove_range takes out the first record that starts  *)
(* at lo; here, the only one.                                              *)
LEMMA RemovedRange ==
    ASSUME NEW rs \in Seq(RangeSet), NEW lo \in Int,
           NEW p \in 1..Len(rs), rs[p].lo = lo,
           \A k \in 1..Len(rs) : rs[k].lo = lo => k = p
    PROVE  /\ remove_range(rs, lo) \in Seq(RangeSet)
           /\ Len(remove_range(rs, lo)) = Len(rs) - 1
           /\ \A k \in 1..(Len(rs) - 1) :
                 remove_range(rs, lo)[k] = rs[IF k < p THEN k ELSE k + 1]
<1> DEFINE I == {k \in 1..Len(rs) : rs[k].lo = lo}
           new == remove_range(rs, lo)
           a == SubSeq(rs, 1, p - 1)
           b == SubSeq(rs, p + 1, Len(rs))
<1>1. Len(rs) \in Nat /\ p \in Nat /\ \A k \in 1..Len(rs) : rs[k] \in RangeSet
  BY LenProperties, ElementOfSeq
<1>2. I = {p}
  OBVIOUS
<1>3. Min(I) = p
  BY <1>1, <1>2 DEF Min
<1>4. new = RemoveAt(rs, Min(I))
  BY <1>2 DEF remove_range, RemoveFirstMatch, SelectInSeq
<1>5. new = a \o b
  BY <1>3, <1>4 DEF RemoveAt
<1>6. a \in Seq(RangeSet) /\ Len(a) = p - 1 /\ \A k \in 1..(p - 1) : a[k] = rs[k]
  <2>1. 1 \in Int /\ p - 1 \in Int /\ \A k \in 1..(p - 1) : rs[k] \in RangeSet
    BY <1>1
  <2>2. /\ a \in Seq(RangeSet) /\ Len(a) = IF 1 <= p - 1 THEN p - 1 - 1 + 1 ELSE 0
        /\ \A k \in 1..(p - 1) - 1 + 1 : a[k] = rs[1 + k - 1]
    BY <2>1, SubSeqProperties
  <2> HIDE DEF a
  <2> QED BY <2>2, <1>1
<1>7. /\ b \in Seq(RangeSet) /\ Len(b) = Len(rs) - p
      /\ \A k \in 1..(Len(rs) - p) : b[k] = rs[p + k]
  <2>1. p + 1 \in Int /\ Len(rs) \in Int /\ \A k \in (p + 1)..Len(rs) : rs[k] \in RangeSet
    BY <1>1
  <2>2. /\ b \in Seq(RangeSet)
        /\ Len(b) = IF p + 1 <= Len(rs) THEN Len(rs) - (p + 1) + 1 ELSE 0
        /\ \A k \in 1..Len(rs) - (p + 1) + 1 : b[k] = rs[(p + 1) + k - 1]
    BY <2>1, SubSeqProperties
  <2> HIDE DEF b
  <2>3. Len(b) = Len(rs) - p
    BY <2>2, <1>1
  <2>4. ASSUME NEW k \in 1..(Len(rs) - p) PROVE b[k] = rs[p + k]
    <3>1. k \in 1..Len(rs) - (p + 1) + 1 /\ (p + 1) + k - 1 = p + k
      BY <1>1
    <3> QED BY <3>1, <2>2
  <2> QED BY <2>2, <2>3, <2>4
<1> HIDE DEF a, b
<1>8. /\ new \in Seq(RangeSet) /\ Len(new) = Len(a) + Len(b)
      /\ \A k \in 1..Len(a) + Len(b) : new[k] = IF k <= Len(a) THEN a[k] ELSE b[k - Len(a)]
  <2>1. a \in Seq(RangeSet) /\ b \in Seq(RangeSet)
    BY <1>6, <1>7
  <2>2. /\ a \o b \in Seq(RangeSet) /\ Len(a \o b) = Len(a) + Len(b)
        /\ \A k \in 1..Len(a) + Len(b) : (a \o b)[k] = IF k <= Len(a) THEN a[k] ELSE b[k - Len(a)]
    BY <2>1, ConcatProperties
  <2> HIDE DEF new
  <2> QED BY <2>2, <1>5
<1> HIDE DEF new
<1>9. Len(new) = Len(rs) - 1
  BY <1>1, <1>6, <1>7, <1>8
<1>10. ASSUME NEW k \in 1..(Len(rs) - 1) PROVE new[k] = rs[IF k < p THEN k ELSE k + 1]
  <2>1. k \in 1..Len(a) + Len(b) /\ k \in Nat
    BY <1>1, <1>6, <1>7
  <2>2. CASE k < p
    <3>1. k <= Len(a) /\ k \in 1..(p - 1)
      BY <2>1, <2>2, <1>1, <1>6
    <3> QED BY <3>1, <2>1, <2>2, <1>6, <1>8
  <2>3. CASE ~(k < p)
    <3>1. ~(k <= Len(a)) /\ k - Len(a) \in 1..(Len(rs) - p) /\ p + (k - Len(a)) = k + 1
      BY <2>1, <2>3, <1>1, <1>6
    <3>2. new[k] = b[k - Len(a)]
      BY <3>1, <2>1, <1>8
    <3> QED BY <3>1, <3>2, <2>3, <1>7
  <2> QED BY <2>2, <2>3
<1> QED BY <1>8, <1>9, <1>10 DEF new

LEMMA Listed ==
    ASSUME NEW rs, NEW S, NEW b, NEW z, Tracks(rs, S, b, z)
    PROVE  /\ rs \in Seq(RangeSet) /\ Len(rs) \in Nat /\ DOMAIN rs = 1..Len(rs)
           /\ \A k \in 1..Len(rs) : /\ rs[k] \in RangeSet
                                    /\ rs[k].lo \in Int /\ rs[k].hi \in Int
                                    /\ rs[k].lo <= rs[k].hi
           /\ RecordsOwned(rs, S, b, z) /\ BlocksListed(rs, S, b, z)
<1>1. rs \in Seq(RangeSet) /\ Len(rs) \in Nat /\ DOMAIN rs = 1..Len(rs)
  BY LenProperties DEF Tracks
<1>2. ToSet(rs) = RecordsOf(S, b, z)
  BY DEF Tracks
<1>3. \A k \in 1..Len(rs) : rs[k] \in RangeSet
  BY <1>1, ElementOfSeq
<1>4. ASSUME NEW k \in 1..Len(rs)
      PROVE  /\ \E x \in S : rs[k] = [lo |-> b[x], hi |-> Hi(b[x], z[x])]
             /\ rs[k].lo \in Int /\ rs[k].hi \in Int /\ rs[k].lo <= rs[k].hi
  <2>1. rs[k] \in RecordsOf(S, b, z)
    BY <1>1, <1>2 DEF ToSet
  <2>2. PICK x \in S : rs[k] = [lo |-> b[x], hi |-> Hi(b[x], z[x])]
    BY <2>1 DEF RecordsOf
  <2>3. b[x] \in Int /\ z[x] \in Nat \ {0}
    BY SizeIsNat DEF Tracks
  <2>4. rs[k].lo = b[x] /\ rs[k].hi = b[x] + z[x] - 1
    BY <2>2 DEF Hi
  <2> QED BY <2>2, <2>3, <2>4
<1>5. ASSUME NEW x \in S
      PROVE  \E k \in 1..Len(rs) : rs[k] = [lo |-> b[x], hi |-> Hi(b[x], z[x])]
  <2>1. [lo |-> b[x], hi |-> Hi(b[x], z[x])] \in ToSet(rs)
    BY <1>2 DEF RecordsOf
  <2> QED BY <2>1, <1>1 DEF ToSet
<1> QED BY <1>1, <1>3, <1>4, <1>5 DEF RecordsOwned, BlocksListed

(* A payload that passes add_range's tests meets the others only by        *)
(* containing them.                                                        *)
LEMMA AddContained ==
    ASSUME NEW rs, NEW S, NEW b, NEW z, Tracks(rs, S, b, z),
           NEW h, NEW top \in Int, h.brk \in Int, top <= h.brk, Contained(rs, top),
           NEW lo \in Int, NEW n \in TraceSizes, Accepts(rs, h, lo, n)
    PROVE  /\ Contained(add_range(rs, lo, n), h.brk)
           /\ \A k \in 1..Len(rs) : rs[k].lo # lo
<1> DEFINE new == add_range(rs, lo, n)
           hi == lo + n - 1
           lst == h.brk
<1>1. /\ rs \in Seq(RangeSet) /\ Len(rs) \in Nat /\ DOMAIN rs = 1..Len(rs)
      /\ \A k \in 1..Len(rs) : /\ rs[k].lo \in Int /\ rs[k].hi \in Int
                               /\ rs[k].lo <= rs[k].hi
  BY Listed
<1>2. n \in Nat \ {0}
  BY SizeIsNat
<1>3. /\ IS_ALIGNED(lo) /\ ~OutsideHeap(h, lo, Hi(lo, n))
      /\ \A k \in 1..Len(rs) : ~Overlaps(lo, Hi(lo, n), rs[k])
  BY <1>1, Zenon DEF RangeError, Accepts
<1>4. 0 <= lo /\ hi <= lst - 1
  BY <1>2, <1>3 DEF OutsideHeap, Hi, mem_heap_lo, mem_heap_hi
<1>5. \A k \in 1..Len(rs) : /\ ~(rs[k].lo <= lo /\ lo <= rs[k].hi)
                            /\ ~(rs[k].lo <= hi /\ hi <= rs[k].hi)
  BY <1>3 DEF Overlaps, Hi
<1>6. /\ Len(new) = Len(rs) + 1 /\ DOMAIN new = 1..Len(new)
      /\ new[1].lo = lo /\ new[1].hi = hi
      /\ \A k \in 1..Len(rs) : new[k + 1] = rs[k]
  <2>1. n \in Int
    BY <1>2
  <2>2. new \in Seq(RangeSet) /\ Len(new) = Len(rs) + 1 /\ new[1] = [lo |-> lo, hi |-> Hi(lo, n)]
        /\ \A k \in 1..Len(rs) : new[k + 1] = rs[k]
    BY <1>1, <2>1, AddedRange
  <2>3. new[1].lo = lo /\ new[1].hi = Hi(lo, n)
    BY <2>2
  <2> HIDE DEF new
  <2> QED BY <2>2, <2>3, LenProperties DEF Hi
<1> HIDE DEF new, hi, lst
<1>7. ASSUME NEW k \in DOMAIN new PROVE k = 1 \/ (k - 1 \in 1..Len(rs) /\ new[k] = rs[k - 1])
  <2>1. k = 1 \/ k - 1 \in 1..Len(rs)
    BY <1>1, <1>6
  <2>2. ASSUME k - 1 \in 1..Len(rs) PROVE new[k] = rs[k - 1]
    <3>1. k = (k - 1) + 1
      BY <1>6, <1>1
    <3> QED BY <3>1, <2>2, <1>6
  <2> QED BY <2>1, <2>2
<1>8. hi \in Int /\ lst \in Int /\ top <= lst
  BY <1>2 DEF hi, lst
<1>9. ASSUME NEW k \in DOMAIN new
      PROVE  IS_ALIGNED(new[k].lo) /\ 0 <= new[k].lo /\ new[k].hi <= lst - 1
  <2>1. CASE k = 1
    BY <2>1, <1>3, <1>4, <1>6
  <2>2. CASE k - 1 \in 1..Len(rs) /\ new[k] = rs[k - 1]
    <3>1. IS_ALIGNED(rs[k - 1].lo) /\ 0 <= rs[k - 1].lo /\ rs[k - 1].hi <= top - 1
      BY <2>2, <1>1 DEF Contained
    <3>2. rs[k - 1].hi \in Int
      BY <2>2, <1>1
    <3> QED BY <2>2, <3>1, <3>2, <1>8
  <2> QED BY <2>1, <2>2, <1>7
<1>10. ASSUME NEW k \in DOMAIN new, NEW l \in DOMAIN new, k < l,
              new[k].lo <= new[l].hi, new[l].lo <= new[k].hi
       PROVE  new[k].lo < new[l].lo /\ new[l].hi < new[k].hi
  <2>1. k \in Int /\ l \in Int /\ k >= 1
    BY <1>1, <1>6
  <2>2. l - 1 \in 1..Len(rs) /\ new[l] = rs[l - 1]
    BY <1>7, <1>10, <2>1
  <2>3. CASE k = 1
    <3>1. rs[l - 1].lo \in Int /\ rs[l - 1].hi \in Int /\ rs[l - 1].lo <= rs[l - 1].hi
      BY <2>2, <1>1
    <3>2. /\ ~(rs[l - 1].lo <= lo /\ lo <= rs[l - 1].hi)
          /\ ~(rs[l - 1].lo <= hi /\ hi <= rs[l - 1].hi)
      BY <2>2, <1>5
    <3>3. lo <= rs[l - 1].hi /\ rs[l - 1].lo <= hi
      BY <1>10, <2>2, <2>3, <1>6
    <3>4. lo < rs[l - 1].lo /\ rs[l - 1].hi < hi
      BY <3>1, <3>2, <3>3, <1>8
    <3> QED BY <3>4, <2>2, <2>3, <1>6
  <2>4. CASE k # 1
    <3>1. k - 1 \in 1..Len(rs) /\ new[k] = rs[k - 1] /\ k - 1 < l - 1
      BY <1>7, <1>10, <2>1, <2>4
    <3> QED BY <3>1, <2>2, <1>1, <1>10 DEF Contained
  <2> QED BY <2>3, <2>4
<1>11. Contained(new, lst)
  BY <1>9, <1>10 DEF Contained
<1>12. ASSUME NEW k \in 1..Len(rs), rs[k].lo = lo PROVE FALSE
  BY <1>12, <1>1, <1>5
<1> QED BY <1>11, <1>12 DEF new, lst

LEMMA AddTracks ==
    ASSUME NEW rs, NEW S, NEW b, NEW z, Tracks(rs, S, b, z),
           b = [y \in Indices |-> b[y]], z = [y \in Indices |-> z[y]],
           NEW x \in Indices, x \notin S,
           NEW lo \in Int, NEW n \in TraceSizes, \A k \in 1..Len(rs) : rs[k].lo # lo
    PROVE  Tracks(add_range(rs, lo, n), S \cup {x}, [b EXCEPT ![x] = lo], [z EXCEPT ![x] = n])
<1> DEFINE new == add_range(rs, lo, n)
           e == [lo |-> lo, hi |-> Hi(lo, n)]
           c == [b EXCEPT ![x] = lo]
           y == [z EXCEPT ![x] = n]
           T == S \cup {x}
<1>1. /\ rs \in Seq(RangeSet) /\ Len(rs) \in Nat /\ DOMAIN rs = 1..Len(rs)
      /\ \A a \in S : \E k \in 1..Len(rs) : rs[k] = [lo |-> b[a], hi |-> Hi(b[a], z[a])]
      /\ \A k \in 1..Len(rs) : \E a \in S : rs[k] = [lo |-> b[a], hi |-> Hi(b[a], z[a])]
  <2>1. RecordsOwned(rs, S, b, z) /\ BlocksListed(rs, S, b, z)
    BY Listed
  <2>2. rs \in Seq(RangeSet) /\ Len(rs) \in Nat /\ DOMAIN rs = 1..Len(rs)
    BY Listed
  <2> QED BY <2>1, <2>2 DEF RecordsOwned, BlocksListed
<1>2. IsFiniteSet(S) /\ S \subseteq Indices /\ Len(rs) = Cardinality(S)
  BY DEF Tracks
<1>3. n \in Int
  BY SizeIsNat
<1>4. /\ new \in Seq(RangeSet) /\ Len(new) = Len(rs) + 1
      /\ new[1] = e
      /\ \A k \in 1..Len(rs) : new[k + 1] = rs[k]
  BY <1>1, <1>3, AddedRange
<1>5. /\ c[x] = lo /\ y[x] = n
      /\ \A a \in S : c[a] = b[a] /\ y[a] = z[a]
  BY <1>2
<1> HIDE DEF new, c, y
<1>6. DOMAIN new = 1..(Len(rs) + 1)
  BY <1>4, LenProperties
<1>7. IsFiniteSet(T) /\ T \subseteq Indices /\ Len(new) = Cardinality(T)
  BY <1>2, <1>4, FS_AddElement
<1>8. \A a \in T : c[a] \in Int /\ y[a] \in TraceSizes
  BY <1>5 DEF Tracks
<1>9. \A a \in S : b[a] # lo
  <2> SUFFICES ASSUME NEW a \in S PROVE b[a] # lo
    OBVIOUS
  <2>1. PICK k \in 1..Len(rs) : rs[k] = [lo |-> b[a], hi |-> Hi(b[a], z[a])]
    BY <1>1
  <2>2. rs[k].lo = b[a]
    BY <2>1
  <2> QED BY <2>2
<1>10. \A a, d \in T : c[a] = c[d] => a = d
  BY <1>5, <1>9 DEF Tracks
<1>11. ToSet(new) = RecordsOf(T, c, y)
  <2>1. e = [lo |-> c[x], hi |-> Hi(c[x], y[x])]
    BY <1>5
  <2> HIDE DEF e
  <2>2. ASSUME NEW k \in DOMAIN new PROVE new[k] \in RecordsOf(T, c, y)
    <3>1. CASE k = 1
      BY <3>1, <2>1, <1>4 DEF RecordsOf
    <3>2. CASE k # 1
      <4>1. k - 1 \in 1..Len(rs) /\ k = (k - 1) + 1
        BY <3>2, <1>1, <1>6
      <4>2. new[k] = rs[k - 1]
        BY <4>1, <1>4
      <4>3. PICK a \in S : rs[k - 1] = [lo |-> b[a], hi |-> Hi(b[a], z[a])]
        BY <4>1, <1>1
      <4>4. new[k] = [lo |-> c[a], hi |-> Hi(c[a], y[a])]
        BY <4>2, <4>3, <1>5
      <4> QED BY <4>4 DEF RecordsOf
    <3> QED BY <3>1, <3>2
  <2>3. ASSUME NEW a \in T
        PROVE  [lo |-> c[a], hi |-> Hi(c[a], y[a])] \in ToSet(new)
    <3>1. CASE a = x
      <4>1. 1 \in DOMAIN new
        BY <1>1, <1>6
      <4> QED BY <4>1, <3>1, <2>1, <1>4 DEF ToSet
    <3>2. CASE a \in S
      <4>1. PICK k \in 1..Len(rs) : rs[k] = [lo |-> b[a], hi |-> Hi(b[a], z[a])]
        BY <3>2, <1>1
      <4>2. k + 1 \in DOMAIN new /\ new[k + 1] = rs[k]
        BY <1>1, <1>4, <1>6
      <4>3. new[k + 1] = [lo |-> c[a], hi |-> Hi(c[a], y[a])]
        BY <4>1, <4>2, <3>2, <1>5
      <4> QED BY <4>2, <4>3 DEF ToSet
    <3> QED BY <3>1, <3>2
  <2>4. \A r : r \in ToSet(new) => r \in RecordsOf(T, c, y)
    BY <2>2 DEF ToSet
  <2>5. \A r : r \in RecordsOf(T, c, y) => r \in ToSet(new)
    BY <2>3 DEF RecordsOf
  <2> QED BY <2>4, <2>5
<1>12. Tracks(new, T, c, y)
  BY <1>4, <1>7, <1>8, <1>10, <1>11 DEF Tracks
<1> QED BY <1>12 DEF new, c, y

(* The two steps together: what a call gets past add_range.                *)
LEMMA RangeAdded ==
    ASSUME NEW rs, NEW S, NEW b, NEW z, Tracks(rs, S, b, z),
           b = [y \in Indices |-> b[y]], z = [y \in Indices |-> z[y]],
           NEW h, NEW top \in Int, h.brk \in Int, top <= h.brk, Contained(rs, top),
           NEW x \in Indices, x \notin S,
           NEW lo \in Int, NEW n \in TraceSizes, Accepts(rs, h, lo, n)
    PROVE  /\ Tracks(add_range(rs, lo, n), S \cup {x}, [b EXCEPT ![x] = lo], [z EXCEPT ![x] = n])
           /\ Contained(add_range(rs, lo, n), h.brk)
  BY AddContained, AddTracks

(* mdriver.c:425-443: the record of a block that is given up goes, and     *)
(* those of the others stay, in their order.                               *)
LEMMA RangeRemoved ==
    ASSUME NEW rs, NEW S, NEW b, NEW z, Tracks(rs, S, b, z),
           NEW top \in Int, Contained(rs, top), NEW x \in S
    PROVE  /\ Tracks(remove_range(rs, b[x]), S \ {x}, b, z)
           /\ Contained(remove_range(rs, b[x]), top)
<1> DEFINE new == remove_range(rs, b[x])
           T == S \ {x}
           R(a) == [lo |-> b[a], hi |-> Hi(b[a], z[a])]
<1>1. /\ rs \in Seq(RangeSet) /\ Len(rs) \in Nat /\ DOMAIN rs = 1..Len(rs)
      /\ \A k \in 1..Len(rs) : rs[k].lo \in Int /\ rs[k].hi \in Int /\ rs[k].lo <= rs[k].hi
  BY Listed
<1>2. \A k \in 1..Len(rs) : \E a \in S : rs[k] = R(a)
  <2>1. RecordsOwned(rs, S, b, z) /\ BlocksListed(rs, S, b, z)
    BY Listed
  <2> QED BY <2>1 DEF RecordsOwned, BlocksListed
<1>3. \A a \in S : \E k \in 1..Len(rs) : rs[k] = R(a)
  <2>1. RecordsOwned(rs, S, b, z) /\ BlocksListed(rs, S, b, z)
    BY Listed
  <2> QED BY <2>1 DEF RecordsOwned, BlocksListed
<1>4. \A a \in S : R(a).lo = b[a]
  OBVIOUS
<1> HIDE DEF R
<1>5. PICK p \in 1..Len(rs) : rs[p] = R(x)
  BY <1>3
<1>6. \A a, d \in S : b[a] = b[d] => a = d
  BY DEF Tracks
<1>7. ASSUME NEW k \in 1..Len(rs), rs[k].lo = b[x] PROVE k = p
  <2>1. rs[p].lo = b[x]
    BY <1>4, <1>5
  <2>2. k \in DOMAIN rs /\ p \in DOMAIN rs /\ k \in Int /\ p \in Int
    BY <1>1
  <2>3. /\ rs[k].lo \in Int /\ rs[k].lo <= rs[k].hi
        /\ rs[p].lo \in Int /\ rs[p].lo <= rs[p].hi
    BY <1>1
  <2>4. ~(k < p)
    BY <1>7, <2>1, <2>2, <2>3 DEF Contained
  <2>5. ~(p < k)
    BY <1>7, <2>1, <2>2, <2>3 DEF Contained
  <2> QED BY <2>2, <2>4, <2>5
<1>8. /\ new \in Seq(RangeSet) /\ Len(new) = Len(rs) - 1
      /\ \A k \in 1..(Len(rs) - 1) : new[k] = rs[IF k < p THEN k ELSE k + 1]
  <2>1. b[x] \in Int /\ rs[p].lo = b[x]
    BY <1>4, <1>5 DEF Tracks
  <2>2. \A k \in 1..Len(rs) : rs[k].lo = b[x] => k = p
    BY <1>7
  <2> QED BY <1>1, <2>1, <2>2, RemovedRange
<1> HIDE DEF new
<1> DEFINE pos(k) == IF k < p THEN k ELSE k + 1
<1>9. DOMAIN new = 1..(Len(rs) - 1)
  BY <1>8, LenProperties
<1>10. ASSUME NEW k \in DOMAIN new
       PROVE  /\ pos(k) \in 1..Len(rs) /\ pos(k) # p /\ new[k] = rs[pos(k)]
              /\ \A l \in DOMAIN new : k < l => pos(k) < pos(l)
  <2>1. k \in Int /\ p \in Int /\ \A l \in DOMAIN new : l \in Int
    BY <1>1, <1>9
  <2> QED BY <2>1, <1>1, <1>8, <1>9
<1>11. ASSUME NEW m \in 1..Len(rs), m # p PROVE \E k \in DOMAIN new : pos(k) = m
  <2>1. m \in Int /\ p \in Int
    BY <1>1
  <2>2. CASE m < p
    <3>1. m \in DOMAIN new
      BY <2>1, <2>2, <1>1, <1>9
    <3> QED BY <3>1, <2>2
  <2>3. CASE m > p
    <3>1. m - 1 \in DOMAIN new /\ ~(m - 1 < p) /\ (m - 1) + 1 = m
      BY <2>1, <2>3, <1>1, <1>9
    <3> QED BY <3>1
  <2> QED BY <2>1, <2>2, <2>3, <1>11
<1> HIDE DEF pos
<1>12. Contained(new, top)
  <2>1. ASSUME NEW k \in DOMAIN new
        PROVE  IS_ALIGNED(new[k].lo) /\ 0 <= new[k].lo /\ new[k].hi <= top - 1
    BY <1>1, <1>10 DEF Contained
  <2>2. ASSUME NEW k \in DOMAIN new, NEW l \in DOMAIN new, k < l,
               new[k].lo <= new[l].hi, new[l].lo <= new[k].hi
        PROVE  new[k].lo < new[l].lo /\ new[l].hi < new[k].hi
    <3>1. /\ pos(k) \in DOMAIN rs /\ new[k] = rs[pos(k)]
          /\ pos(l) \in DOMAIN rs /\ new[l] = rs[pos(l)] /\ pos(k) < pos(l)
      BY <1>1, <1>10, <2>2
    <3> QED BY <3>1, <2>2 DEF Contained
  <2> QED BY <2>1, <2>2 DEF Contained
<1>13. IsFiniteSet(T) /\ T \subseteq Indices /\ Len(new) = Cardinality(T)
  <2>1. IsFiniteSet(S) /\ S \subseteq Indices /\ Len(rs) = Cardinality(S)
    BY DEF Tracks
  <2> QED BY <2>1, <1>8, FS_RemoveElement
<1>14. ToSet(new) = RecordsOf(T, b, z)
  <2>1. ASSUME NEW k \in DOMAIN new PROVE \E a \in T : new[k] = R(a)
    <3>1. pos(k) \in 1..Len(rs) /\ pos(k) # p /\ new[k] = rs[pos(k)]
      BY <1>10
    <3>2. PICK a \in S : rs[pos(k)] = R(a)
      BY <3>1, <1>2
    <3>3. a # x
      <4> SUFFICES ASSUME a = x PROVE FALSE
        OBVIOUS
      <4>1. rs[pos(k)].lo = b[x]
        BY <3>2, <1>4
      <4> QED BY <4>1, <3>1, <1>7
    <3> QED BY <3>1, <3>2, <3>3
  <2>2. ASSUME NEW a \in T PROVE \E k \in DOMAIN new : new[k] = R(a)
    <3>1. PICK m \in 1..Len(rs) : rs[m] = R(a)
      BY <1>3
    <3>2. m # p
      <4> SUFFICES ASSUME m = p PROVE FALSE
        OBVIOUS
      <4>1. R(a).lo = R(x).lo
        BY <3>1, <1>5
      <4>2. b[a] = b[x]
        BY <4>1, <1>4
      <4> QED BY <4>2, <1>6
    <3>3. PICK k \in DOMAIN new : pos(k) = m
      BY <3>2, <1>11
    <3> QED BY <3>1, <3>3, <1>10
  <2>3. \A r : r \in ToSet(new) => r \in RecordsOf(T, b, z)
    BY <2>1 DEF ToSet, RecordsOf, R
  <2>4. \A r : r \in RecordsOf(T, b, z) => r \in ToSet(new)
    BY <2>2 DEF ToSet, RecordsOf, R
  <2> QED BY <2>3, <2>4
<1>15. \A a \in T : b[a] \in Int /\ z[a] \in TraceSizes
  BY DEF Tracks
<1>16. \A a, d \in T : b[a] = b[d] => a = d
  BY <1>6
<1>17. Tracks(new, T, b, z)
  BY <1>8, <1>13, <1>14, <1>15, <1>16 DEF Tracks
<1> QED BY <1>12, <1>17 DEF new

-------------------------------------------------------------------------------
(* What MMProofs shows of mm.c's arithmetic, for a client with no names.   *)
Nothing == CHOOSE x : x \notin Int \cup [1..0 -> {JUNK}]
Client == INSTANCE MMProofs WITH
    Ids <- {}, Bytes <- {}, Sizes <- {}, FREE <- Nothing,
    ptr <- blocks, size <- block_sizes

ClientOK ==
    /\ {} \subseteq 1..Client!INT_MAX
    /\ {} \subseteq Int
    /\ Nothing \notin Int
    /\ \A n \in {} \cup {0} : Nothing \notin [1..n -> {} \cup {JUNK} \cup {}]

LEMMA ClientIsOK == ClientOK
<1>1. \E x : x \notin Int \cup [1..0 -> {JUNK}]
  BY NoSetContainsEverything
<1>2. Nothing \notin Int /\ Nothing \notin [1..0 -> {JUNK}]
  BY <1>1 DEF Nothing
<1>3. {} \cup {JUNK} \cup {} = {JUNK} /\ \A n \in {} \cup {0} : n = 0
  OBVIOUS
<1> HIDE DEF Nothing
<1>4. \A n \in {} \cup {0} : Nothing \notin [1..n -> {} \cup {JUNK} \cup {}]
  BY <1>2, <1>3
<1> QED BY <1>2, <1>4 DEF ClientOK

LEMMA SameOperators ==
    /\ INT_MAX = Client!INT_MAX /\ SIZE_T_SIZE = Client!SIZE_T_SIZE
    /\ \A n : newsize(n) = Client!newsize(n) /\ IS_ALIGNED(n) = Client!IS_ALIGNED(n)
  BY DEF newsize, Client!newsize, ToInt, Client!ToInt, ALIGN, Client!ALIGN,
         SIZE_T_SIZE, Client!SIZE_T_SIZE, INT_MAX, Client!INT_MAX,
         IS_ALIGNED, Client!IS_ALIGNED

LEMMA HeaderSize ==
    SIZE_T_SIZE \in Nat \ {0} /\ IS_ALIGNED(SIZE_T_SIZE)
<1>1. Client!SIZE_T_SIZE \in Nat \ {0} /\ Client!IS_ALIGNED(Client!SIZE_T_SIZE)
  BY Client!HeaderSize, HeapAssumption, ClientIsOK DEF ClientOK
<1> QED BY <1>1, SameOperators

LEMMA SizesAreInts ==
    ASSUME NEW n \in 1..INT_MAX
    PROVE  n \in Nat /\ newsize(n) \in Int
<1>1. n \in 1..Client!INT_MAX
  BY SameOperators
<1>2. n \in Nat /\ Client!newsize(n) \in Int
  BY <1>1, Client!SizesAreInts, HeapAssumption, ClientIsOK DEF ClientOK
<1> QED BY <1>2, SameOperators

LEMMA Increment ==
    ASSUME NEW n \in 1..INT_MAX, newsize(n) >= 0
    PROVE  newsize(n) \in Nat /\ newsize(n) >= n + SIZE_T_SIZE /\ IS_ALIGNED(newsize(n))
<1>1. n \in 1..Client!INT_MAX /\ Client!newsize(n) >= 0
  BY SameOperators
<1>2. /\ Client!newsize(n) \in Nat /\ Client!newsize(n) >= n + Client!SIZE_T_SIZE
      /\ Client!IS_ALIGNED(Client!newsize(n))
  BY <1>1, Client!Increment, HeapAssumption, ClientIsOK DEF ClientOK
<1> QED BY <1>2, SameOperators

LEMMA AlignedSum ==
    ASSUME NEW m \in Int, NEW n \in Int, IS_ALIGNED(m), IS_ALIGNED(n)
    PROVE  IS_ALIGNED(m + n)
<1>1. Client!IS_ALIGNED(m) /\ Client!IS_ALIGNED(n)
  BY SameOperators
<1>2. Client!IS_ALIGNED(m + n)
  BY <1>1, Client!AlignedSum, HeapAssumption, ClientIsOK DEF ClientOK
<1> QED BY <1>2, SameOperators

-------------------------------------------------------------------------------
(* Traces and the blocks they hold.                                        *)
LEMMA TraceFacts ==
    ASSUME trace \in Traces
    PROVE  /\ Len(trace) \in Nat \ {0} /\ DOMAIN trace = 1..Len(trace)
           /\ \A k \in 1..Len(trace) : trace[k] \in Request
           /\ WellFormed(trace)
<1>1. PICK n \in 1..MaxOps : trace \in [1..n -> Request]
  BY DEF Traces
<1>2. n \in Nat \ {0}
  BY DriverAssumption
<1>3. Len(trace) = n
  BY <1>1, <1>2
<1> QED BY <1>1, <1>2, <1>3 DEF Traces

LEMMA RequestFacts ==
    ASSUME NEW r \in Request
    PROVE  /\ r.type \in {"ALLOC", "REALLOC", "FREE"} /\ r.index \in Indices
           /\ r.type # "FREE" => r.size \in TraceSizes
  BY DEF Request

(* A request allocates a block the trace does not hold, or it is about one *)
(* it holds.                                                               *)
LEMMA NextRequest ==
    ASSUME trace \in Traces, i \in Nat, i < Len(trace)
    PROVE  /\ op.type \in {"ALLOC", "REALLOC", "FREE"} /\ op.index \in Indices
           /\ op.type # "FREE" => op.size \in TraceSizes
           /\ op.type = "ALLOC" <=> op.index \notin Held
           /\ HeldAfter(trace, i + 1) =
                 IF op.type = "FREE" THEN Held \ {op.index} ELSE Held \cup {op.index}
<1>1. /\ i + 1 \in 1..Len(trace) /\ DOMAIN trace = 1..Len(trace) /\ (i + 1) - 1 = i
      /\ Len(trace) \in Nat /\ trace[i + 1] \in Request /\ WellFormed(trace)
      /\ \A k \in 1..Len(trace) : trace[k] \in Request
  BY TraceFacts
<1>2. /\ op.type \in {"ALLOC", "REALLOC", "FREE"} /\ op.index \in Indices
      /\ op.type # "FREE" => op.size \in TraceSizes
  BY <1>1, RequestFacts DEF op
<1>3. op.type = "ALLOC" <=> op.index \notin Held
  <2>1. op.type = "ALLOC" <=> op.index \notin HeldAfter(trace, (i + 1) - 1)
    BY <1>1 DEF WellFormed, op
  <2> QED BY <2>1, <1>1 DEF Held
<1> DEFINE W(x, n, k) == /\ trace[k].index = x /\ trace[k].type # "FREE"
                         /\ \A l \in (k + 1)..n : trace[l].index = x => trace[l].type # "FREE"
<1>4. \A n : HeldAfter(trace, n) = {x \in Indices : \E k \in 1..n : W(x, n, k)}
  BY DEF HeldAfter
<1>5. ASSUME NEW x \in Indices
      PROVE  x \in HeldAfter(trace, i + 1) <=>
                IF op.type = "FREE" THEN x \in Held /\ x # op.index
                ELSE x \in Held \/ x = op.index
  <2>1. ASSUME NEW k \in 1..i
        PROVE  W(x, i + 1, k) <=> W(x, i, k) /\ (op.index = x => op.type # "FREE")
    <3>1. i \in Int /\ k \in Int /\ k + 1 <= i + 1
      OBVIOUS
    <3>2. (k + 1)..(i + 1) = ((k + 1)..i) \cup {i + 1}
      BY <3>1
    <3> QED BY <3>2 DEF op
  <2>2. W(x, i + 1, i + 1) <=> op.index = x /\ op.type # "FREE"
    <3>1. ((i + 1) + 1)..(i + 1) = {}
      OBVIOUS
    <3> QED BY <3>1 DEF op
  <2>3. 1..(i + 1) = (1..i) \cup {i + 1}
    OBVIOUS
  <2> HIDE DEF W
  <2>4. (\E k \in 1..(i + 1) : W(x, i + 1, k)) <=>
           \/ \E k \in 1..i : W(x, i + 1, k)
           \/ W(x, i + 1, i + 1)
    BY <2>3
  <2>5. (\E k \in 1..(i + 1) : W(x, i + 1, k)) <=>
           \/ (\E k \in 1..i : W(x, i, k)) /\ (op.index = x => op.type # "FREE")
           \/ op.index = x /\ op.type # "FREE"
    BY <2>1, <2>2, <2>4
  <2>6. x \in Held <=> \E k \in 1..i : W(x, i, k)
    BY <1>4 DEF Held
  <2>7. x \in HeldAfter(trace, i + 1) <=> \E k \in 1..(i + 1) : W(x, i + 1, k)
    BY <1>4
  <2> QED BY <2>5, <2>6, <2>7
<1> HIDE DEF W
<1>6. HeldAfter(trace, i + 1) \subseteq Indices /\ Held \subseteq Indices
  BY <1>4 DEF Held
<1>7. HeldAfter(trace, i + 1) =
         IF op.type = "FREE" THEN Held \ {op.index} ELSE Held \cup {op.index}
  BY <1>2, <1>5, <1>6
<1> QED BY <1>2, <1>3, <1>7

(* Before its first request a trace holds nothing.                         *)
LEMMA NothingHeld == HeldAfter(trace, 0) = {}
<1>1. 1..0 = {}
  OBVIOUS
<1> QED BY <1>1 DEF HeldAfter

-------------------------------------------------------------------------------
(* The types of the variables, as far as the driver relies on them.        *)
Starts == {"start valid", "start util", "start speed"}
Passes == {"valid", "util", "speed"}

HeapOK(h) ==
    /\ h = [brk |-> h.brk, mem |-> h.mem]
    /\ h.brk \in 0..MAX_HEAP
    /\ h.mem = [a \in Addr |-> h.mem[a]]

Types ==
    /\ setup \in Setups
    /\ pc \in {"read", "done", "exit"} \cup Starts \cup Passes
    /\ tracenum \in Nat \ {0}
    /\ pc \in Starts \cup Passes => trace \in Traces /\ tracenum <= num_tracefiles
    /\ i \in Nat
    /\ pc \in Passes => i <= Len(trace)
    /\ HeapOK(heap)
    /\ blocks = [x \in Indices |-> blocks[x]]
    /\ block_sizes = [x \in Indices |-> block_sizes[x]]

(* Whatever the package, a call leaves a heap that has not shrunk.         *)
ResultOK(h, r) ==
    /\ r.p # NULL => r.p \in Int
    /\ HeapOK(r.heap)
    /\ h.brk <= r.heap.brk

LEMMA MMMalloc ==
    ASSUME NEW h, HeapOK(h), NEW n \in TraceSizes
    PROVE  \/ /\ CannotExtend(h, newsize(n))
              /\ mm_malloc(h, n) = [p |-> NULL, heap |-> h]
           \/ /\ ~CannotExtend(h, newsize(n))
              /\ newsize(n) \in Nat /\ h.brk + newsize(n) <= MAX_HEAP
              /\ newsize(n) >= n + SIZE_T_SIZE /\ IS_ALIGNED(newsize(n))
              /\ h.brk \in Addr
              /\ mm_malloc(h, n) =
                    [p |-> h.brk + SIZE_T_SIZE,
                     heap |-> [brk |-> h.brk + newsize(n),
                               mem |-> [h.mem EXCEPT ![h.brk] = n]]]
<1>1. n \in 1..INT_MAX /\ n \in Nat \ {0} /\ newsize(n) \in Int /\ SIZE_T_SIZE \in Nat \ {0}
  BY SizeIsNat, SizesAreInts, HeaderSize
<1>2. h.brk \in 0..MAX_HEAP /\ MAX_HEAP \in Nat /\ NULL \notin Int
  BY HeapAssumption DEF HeapOK
<1>3. CASE CannotExtend(h, newsize(n))
  <2>1. mem_sbrk(h, newsize(n)) = [p |-> NULL, heap |-> h]
    BY <1>3 DEF mem_sbrk
  <2>2. mm_malloc(h, n) = [p |-> NULL, heap |-> h]
    BY <2>1 DEF mm_malloc
  <2> QED BY <1>3, <2>2
<1>4. CASE ~CannotExtend(h, newsize(n))
  <2>1. newsize(n) >= 0 /\ h.brk + newsize(n) <= MAX_HEAP
    BY <1>1, <1>2, <1>4 DEF CannotExtend
  <2>2. /\ newsize(n) \in Nat /\ newsize(n) >= n + SIZE_T_SIZE /\ IS_ALIGNED(newsize(n))
    BY <1>1, <2>1, Increment
  <2>3. h.brk \in Addr
    BY <1>1, <1>2, <2>1, <2>2 DEF Addr
  <2> DEFINE g == [h EXCEPT !.brk = @ + newsize(n)]
  <2>4. g = [brk |-> h.brk + newsize(n), mem |-> h.mem]
    BY DEF HeapOK
  <2>5. mem_sbrk(h, newsize(n)) = [p |-> h.brk, heap |-> g]
    BY <1>4 DEF mem_sbrk
  <2>6. h.brk # NULL
    BY <1>2
  <2> HIDE DEF g
  <2>7. mm_malloc(h, n) = [p |-> h.brk + SIZE_T_SIZE, heap |-> [g EXCEPT !.mem[h.brk] = n]]
    BY <2>5, <2>6 DEF mm_malloc
  <2>8. [g EXCEPT !.mem[h.brk] = n] =
           [brk |-> h.brk + newsize(n), mem |-> [h.mem EXCEPT ![h.brk] = n]]
    BY <2>4
  <2> QED BY <1>4, <2>1, <2>2, <2>3, <2>7, <2>8
<1> QED BY <1>3, <1>4

LEMMA MMRealloc ==
    ASSUME NEW h, HeapOK(h), NEW n \in TraceSizes, NEW q
    PROVE  \/ /\ CannotExtend(h, newsize(n))
              /\ mm_realloc(h, q, n) = [p |-> NULL, heap |-> h]
           \/ /\ ~CannotExtend(h, newsize(n))
              /\ mm_realloc(h, q, n) =
                    [p |-> h.brk + SIZE_T_SIZE,
                     heap |-> [brk |-> h.brk + newsize(n),
                               mem |-> memcpy([h.mem EXCEPT ![h.brk] = n],
                                              h.brk + SIZE_T_SIZE, q,
                                              copySize(mm_malloc(h, n).heap, q, n))]]
<1>1. CASE CannotExtend(h, newsize(n))
  <2>1. mm_malloc(h, n) = [p |-> NULL, heap |-> h]
    BY <1>1, MMMalloc
  <2> QED BY <1>1, <2>1 DEF mm_realloc
<1>2. CASE ~CannotExtend(h, newsize(n))
  <2> DEFINE m == [h.mem EXCEPT ![h.brk] = n]
             c == copySize(mm_malloc(h, n).heap, q, n)
             p == h.brk + SIZE_T_SIZE
             b == h.brk + newsize(n)
             new == mm_malloc(h, n)
  <2>1. new = [p |-> p, heap |-> [brk |-> b, mem |-> m]] /\ h.brk \in Addr
    BY <1>2, MMMalloc
  <2>2. p # NULL
    BY <2>1, HeaderSize, HeapAssumption DEF Addr
  <2> HIDE DEF m, c, p, b
  <2>3. new.p = p /\ new.heap = [brk |-> b, mem |-> m]
    BY <2>1
  <2>4. mm_realloc(h, q, n) = [p |-> new.p, heap |-> [new.heap EXCEPT !.mem = memcpy(@, new.p, q, c)]]
    BY <2>2, <2>3 DEF mm_realloc, mm_free, c
  <2> HIDE DEF new
  <2>5. mm_realloc(h, q, n) = [p |-> p, heap |-> [brk |-> b, mem |-> memcpy(m, p, q, c)]]
    BY <2>3, <2>4
  <2> QED BY <1>2, <2>5 DEF m, c, p, b
<1> QED BY <1>1, <1>2

LEMMA AnyResultOK ==
    ASSUME NEW h, HeapOK(h), NEW r \in AnyResult(h)
    PROVE  ResultOK(h, r) /\ r = [p |-> r.p, heap |-> r.heap]
<1>1. h.brk \in 0..MAX_HEAP /\ MAX_HEAP \in Nat /\ Answers \subseteq Int /\ Breaks \subseteq 0..MAX_HEAP
  BY HeapAssumption, DriverAssumption DEF HeapOK
<1>2. CASE r = [p |-> NULL, heap |-> h]
  <2>1. r.p = NULL /\ r.heap = h
    BY <1>2
  <2>2. h.brk <= h.brk
    BY <1>1
  <2> QED BY <1>2, <2>1, <2>2 DEF ResultOK
<1>3. ASSUME NEW q \in Answers, NEW b \in Breaks \cup {h.brk}, b >= h.brk,
             r = [p |-> q, heap |-> [h EXCEPT !.brk = b]]
      PROVE  ResultOK(h, r) /\ r = [p |-> r.p, heap |-> r.heap]
  <2> DEFINE g == [h EXCEPT !.brk = b]
  <2>1. g = [brk |-> b, mem |-> h.mem]
    BY DEF HeapOK
  <2> HIDE DEF g
  <2>2. r.p = q /\ r.heap = g
    BY <1>3 DEF g
  <2>3. b \in 0..MAX_HEAP /\ h.brk <= b /\ q \in Int
    BY <1>1, <1>3
  <2>4. g.brk = b /\ g.mem = h.mem
    BY <2>1
  <2>5. HeapOK(g)
    BY <2>1, <2>3, <2>4 DEF HeapOK
  <2>6. r = [p |-> r.p, heap |-> r.heap]
    BY <1>3
  <2> QED BY <2>2, <2>3, <2>4, <2>5, <2>6 DEF ResultOK
<1> QED BY <1>2, <1>3 DEF AnyResult

LEMMA CopyOK ==
    ASSUME NEW g, HeapOK(g), NEW p, NEW q, NEW n
    PROVE  /\ HeapOK([g EXCEPT !.mem = memcpy(@, p, q, n)])
           /\ [g EXCEPT !.mem = memcpy(@, p, q, n)].brk = g.brk
<1> DEFINE m == memcpy(g.mem, p, q, n)
           c == [g EXCEPT !.mem = memcpy(@, p, q, n)]
<1>1. DOMAIN g.mem = Addr
  BY DEF HeapOK
<1>2. m = [a \in Addr |-> IF a \in p..(p + n - 1) THEN g.mem[q + (a - p)] ELSE g.mem[a]]
  BY <1>1 DEF memcpy
<1>3. m = [a \in Addr |-> m[a]]
  BY <1>2
<1> HIDE DEF m
<1>4. c = [brk |-> g.brk, mem |-> m]
  BY DEF HeapOK, m
<1> HIDE DEF c
<1>5. c.brk = g.brk /\ c.mem = m
  BY <1>4
<1>6. HeapOK(c) /\ c.brk = g.brk
  BY <1>3, <1>4, <1>5 DEF HeapOK
<1> QED BY <1>6 DEF c

LEMMA SetOK ==
    ASSUME NEW g, HeapOK(g), NEW p, NEW b, NEW n
    PROVE  /\ HeapOK([g EXCEPT !.mem = memset(@, p, b, n)])
           /\ [g EXCEPT !.mem = memset(@, p, b, n)] =
                 [brk |-> g.brk, mem |-> memset(g.mem, p, b, n)]
           /\ [g EXCEPT !.mem = memset(@, p, b, n)].brk = g.brk
<1> DEFINE m == memset(g.mem, p, b, n)
           c == [g EXCEPT !.mem = memset(@, p, b, n)]
<1>1. DOMAIN g.mem = Addr
  BY DEF HeapOK
<1>2. m = [a \in Addr |-> IF a \in p..(p + n - 1) THEN b ELSE g.mem[a]]
  BY <1>1 DEF memset
<1>3. m = [a \in Addr |-> m[a]]
  BY <1>2
<1> HIDE DEF m
<1>4. c = [brk |-> g.brk, mem |-> m]
  BY DEF HeapOK, m
<1> HIDE DEF c
<1>5. c.brk = g.brk /\ c.mem = m
  BY <1>4
<1>6. HeapOK(c) /\ c.brk = g.brk
  BY <1>3, <1>4, <1>5 DEF HeapOK
<1> QED BY <1>4, <1>6 DEF c, m

LEMMA MallocOK ==
    ASSUME NEW h, HeapOK(h), NEW n \in TraceSizes, NEW r \in MallocResults(h, n)
    PROVE  ResultOK(h, r)
<1>1. h.brk \in 0..MAX_HEAP /\ MAX_HEAP \in Nat
  BY HeapAssumption DEF HeapOK
<1>2. CASE Arbitrary
  BY <1>2, AnyResultOK DEF MallocResults
<1>3. CASE ~Arbitrary
  <2>1. r = mm_malloc(h, n)
    BY <1>3 DEF MallocResults
  <2>2. CASE r = [p |-> NULL, heap |-> h]
    <3>1. r.p = NULL /\ r.heap = h
      BY <2>2
    <3> QED BY <3>1, <1>1 DEF ResultOK
  <2>3. CASE /\ newsize(n) \in Nat /\ h.brk + newsize(n) <= MAX_HEAP
             /\ r = [p |-> h.brk + SIZE_T_SIZE,
                     heap |-> [brk |-> h.brk + newsize(n),
                               mem |-> [h.mem EXCEPT ![h.brk] = n]]]
    <3> DEFINE m == [h.mem EXCEPT ![h.brk] = n]
               b == h.brk + newsize(n)
    <3>1. m = [a \in Addr |-> m[a]]
      BY DEF HeapOK
    <3>2. b \in 0..MAX_HEAP /\ h.brk <= b
      BY <1>1, <2>3
    <3> HIDE DEF m, b
    <3>3. r.p = h.brk + SIZE_T_SIZE /\ r.heap = [brk |-> b, mem |-> m]
      BY <2>3 DEF m, b
    <3>4. r.heap.brk = b /\ r.heap.mem = m
      BY <3>3
    <3>5. r.p \in Int
      BY <3>3, <1>1, HeaderSize
    <3> QED BY <3>1, <3>2, <3>3, <3>4, <3>5 DEF ResultOK, HeapOK
  <2> QED BY <2>1, <2>2, <2>3, MMMalloc
<1> QED BY <1>2, <1>3

LEMMA ReallocOK ==
    ASSUME NEW h, HeapOK(h), NEW n \in TraceSizes, NEW q, NEW r \in ReallocResults(h, q, n)
    PROVE  ResultOK(h, r)
<1>1. h.brk \in 0..MAX_HEAP /\ MAX_HEAP \in Nat
  BY HeapAssumption DEF HeapOK
<1>2. CASE Arbitrary
  <2>1. CASE r \in AnyResult(h)
    BY <2>1, AnyResultOK
  <2>2. ASSUME NEW s \in AnyResult(h), NEW c \in 1..n,
               r = [s EXCEPT !.heap.mem = memcpy(@, s.p, q, c)]
        PROVE  ResultOK(h, r)
    <3>1. ResultOK(h, s) /\ s = [p |-> s.p, heap |-> s.heap]
      BY AnyResultOK
    <3> DEFINE g == [s.heap EXCEPT !.mem = memcpy(@, s.p, q, c)]
    <3>2. r = [p |-> s.p, heap |-> g]
      BY <2>2, <3>1
    <3>3. HeapOK(g) /\ g.brk = s.heap.brk
      BY <3>1, CopyOK DEF ResultOK
    <3> HIDE DEF g
    <3>4. r.p = s.p /\ r.heap = g
      BY <3>2
    <3> QED BY <3>1, <3>3, <3>4 DEF ResultOK
  <2> QED BY <1>2, <2>1, <2>2 DEF ReallocResults
<1>3. CASE ~Arbitrary
  <2>1. r = mm_realloc(h, q, n)
    BY <1>3 DEF ReallocResults
  <2>2. mm_malloc(h, n) \in MallocResults(h, n)
    BY <1>3 DEF MallocResults
  <2> DEFINE new == mm_malloc(h, n)
  <2>3. ResultOK(h, new)
    BY <2>2, MallocOK
  <2>4. CASE new.p = NULL
    BY <2>1, <2>3, <2>4 DEF mm_realloc
  <2>5. CASE new.p # NULL
    <3> DEFINE c == copySize(new.heap, q, n)
               g == [new.heap EXCEPT !.mem = memcpy(@, new.p, q, c)]
    <3>1. r = [p |-> new.p, heap |-> g]
      BY <2>1, <2>5 DEF mm_realloc, mm_free
    <3> HIDE DEF new, c
    <3>2. HeapOK(g) /\ g.brk = new.heap.brk
      BY <2>3, CopyOK DEF ResultOK
    <3> HIDE DEF g
    <3>3. r.p = new.p /\ r.heap = g
      BY <3>1
    <3> QED BY <2>3, <3>2, <3>3 DEF ResultOK
  <2> QED BY <2>4, <2>5
<1> QED BY <1>2, <1>3

-------------------------------------------------------------------------------
(* Every action keeps the types.                                           *)
LEMMA Updated ==
    ASSUME NEW f, f = [x \in Indices |-> f[x]], NEW a, NEW v,
           NEW g, g = [f EXCEPT ![a] = v]
    PROVE  g = [x \in Indices |-> g[x]]
  OBVIOUS

(* The heap is emptied, not cleared, before a pass.                        *)
LEMMA Emptied ==
    ASSUME NEW h, HeapOK(h)
    PROVE  /\ HeapOK(mm_init(mem_reset_brk(h)))
           /\ mm_init(mem_reset_brk(h)).brk = 0
           /\ mm_init(mem_reset_brk(h)).mem = h.mem
<1> DEFINE g == mm_init(mem_reset_brk(h))
<1>1. g = [brk |-> 0, mem |-> h.mem]
  BY DEF mm_init, mem_reset_brk, HeapOK
<1>2. 0 \in 0..MAX_HEAP
  BY HeapAssumption
<1> HIDE DEF g
<1>3. g.brk = 0 /\ g.mem = h.mem
  BY <1>1
<1>4. HeapOK(g) /\ g.brk = 0 /\ g.mem = h.mem
  BY <1>1, <1>2, <1>3 DEF HeapOK
<1> QED BY <1>4 DEF g

(* The next request of a pass, and where it leads.                         *)
LEMMA PassFacts ==
    ASSUME Types, pc \in Passes, More
    PROVE  /\ trace \in Traces /\ i \in Nat /\ i < Len(trace) /\ Len(trace) \in Nat
           /\ op.index \in Indices /\ (op.type # "FREE" => op.size \in TraceSizes)
           /\ i + 1 \in Nat /\ i + 1 <= Len(trace)
<1>1. trace \in Traces /\ i \in Nat /\ i < Len(trace)
  BY DEF Types, More
<1>2. Len(trace) \in Nat
  BY <1>1, TraceFacts
<1> QED BY <1>1, <1>2, NextRequest

LEMMA InitTypes == Init => Types
<1> SUFFICES ASSUME Init PROVE Types
  OBVIOUS
<1>1. heap = [brk |-> 0, mem |-> [a \in Addr |-> JUNK]]
  BY DEF Init, mem_init
<1>2. 0 \in 0..MAX_HEAP
  BY HeapAssumption
<1>3. heap.brk = 0 /\ heap.mem = [a \in Addr |-> JUNK]
  BY <1>1
<1>4. heap.mem = [a \in Addr |-> heap.mem[a]]
  BY <1>3
<1>5. HeapOK(heap)
  BY <1>1, <1>2, <1>3, <1>4 DEF HeapOK
<1>6. /\ setup \in Setups /\ pc = "read" /\ tracenum = 1 /\ i = 0
      /\ blocks = [x \in Indices |-> JUNK] /\ block_sizes = [x \in Indices |-> JUNK]
  BY Zenon DEF Init
<1> QED BY <1>5, <1>6 DEF Types, Starts, Passes

(* What an action has to show.                                             *)
Moves ==
    /\ pc' \in {"read", "done", "exit"} \cup Starts \cup Passes
    /\ tracenum' \in Nat \ {0}
    /\ pc' \in Starts \cup Passes => trace' \in Traces /\ tracenum' <= num_tracefiles
    /\ i' \in Nat
    /\ pc' \in Passes => i' <= Len(trace')
    /\ HeapOK(heap')
    /\ blocks' = [x \in Indices |-> blocks'[x]]
    /\ block_sizes' = [x \in Indices |-> block_sizes'[x]]

LEMMA StartsMove ==
    ASSUME Types
    PROVE  ReadTrace \/ Finish \/ Exited \/ StartValid \/ StartUtil \/ StartSpeed
              \/ ValidEnd \/ UtilEnd \/ SpeedEnd => Moves
<1>1. CASE ReadTrace
  BY <1>1 DEF ReadTrace, Types, Moves, Starts, Passes
<1>2. CASE Finish
  BY <1>2 DEF Finish, Types, Moves, Starts, Passes
<1>3. CASE Exited
  BY <1>3 DEF Exited, vars, Types, Moves, Starts, Passes
<1>4. HeapOK(mm_init(mem_reset_brk(heap)))
  BY Emptied DEF Types
<1>5. /\ pc \in Starts => trace \in Traces /\ Len(trace) \in Nat /\ 0 <= Len(trace)
      /\ tracenum + 1 \in Nat \ {0}
  BY TraceFacts DEF Types
<1>6. CASE StartValid
  <2>1. /\ heap' = mm_init(mem_reset_brk(heap)) /\ i' = 0 /\ pc = "start valid"
        /\ \/ pc' = "valid" /\ tracenum' = tracenum
           \/ pc' = "read" /\ tracenum' = tracenum + 1
        /\ UNCHANGED <<trace, blocks, block_sizes>>
    BY <1>6 DEF StartValid, malloc_error, NextTrace
  <2> QED BY <1>4, <1>5, <2>1 DEF Types, Moves, Starts, Passes
<1>7. CASE StartUtil \/ StartSpeed
  <2>1. /\ heap' = mm_init(mem_reset_brk(heap)) /\ i' = 0
        /\ pc \in Starts /\ pc' \in {"util", "speed", "exit"} /\ tracenum' = tracenum
        /\ UNCHANGED <<trace, blocks, block_sizes>>
    BY <1>7 DEF StartUtil, StartSpeed, ResetForPass, app_error, Starts
  <2> QED BY <1>4, <1>5, <2>1 DEF Types, Moves, Starts, Passes
<1>8. CASE ValidEnd \/ UtilEnd
  BY <1>8 DEF ValidEnd, UtilEnd, Types, Moves, Starts, Passes
<1>9. CASE SpeedEnd
  <2>1. /\ pc = "speed"
        /\ \/ pc' = "start speed" /\ tracenum' = tracenum
           \/ pc' = "read" /\ tracenum' = tracenum + 1
        /\ UNCHANGED <<trace, i, heap, blocks, block_sizes>>
    BY <1>9 DEF SpeedEnd, NextTrace
  <2> QED BY <1>5, <2>1 DEF Types, Moves, Starts, Passes
<1> QED BY <1>1, <1>2, <1>3, <1>6, <1>7, <1>8, <1>9

(* A call of the package: the request is done or the pass is given up.     *)
LEMMA CallMoves ==
    ASSUME Types, pc \in Passes, More, HeapOK(heap'), trace' = trace,
           \/ /\ i' = i + 1 /\ UNCHANGED <<pc, tracenum>>
              /\ \/ UNCHANGED blocks
                 \/ \E p : blocks' = [blocks EXCEPT ![op.index] = p]
              /\ \/ UNCHANGED block_sizes
                 \/ \E n : block_sizes' = [block_sizes EXCEPT ![op.index] = n]
           \/ /\ UNCHANGED <<i, blocks, block_sizes>>
              /\ \/ pc' = "read" /\ tracenum' = tracenum + 1
                 \/ pc' = "exit" /\ tracenum' = tracenum
    PROVE  Moves
<1>1. /\ blocks = [x \in Indices |-> blocks[x]] /\ block_sizes = [x \in Indices |-> block_sizes[x]]
      /\ tracenum \in Nat \ {0} /\ tracenum <= num_tracefiles /\ tracenum + 1 \in Nat \ {0}
  BY DEF Types
<1>2. i \in Nat /\ i + 1 \in Nat /\ i + 1 <= Len(trace) /\ trace \in Traces
  BY PassFacts
<1>3. /\ blocks' = [x \in Indices |-> blocks'[x]]
      /\ block_sizes' = [x \in Indices |-> block_sizes'[x]]
  BY <1>1, Updated
<1>4. CASE i' = i + 1 /\ UNCHANGED <<pc, tracenum>>
  BY <1>1, <1>2, <1>3, <1>4 DEF Moves, Passes
<1>5. CASE i' = i /\ \/ pc' = "read" /\ tracenum' = tracenum + 1
                     \/ pc' = "exit" /\ tracenum' = tracenum
  BY <1>1, <1>2, <1>3, <1>5 DEF Moves, Passes, Starts
<1> QED BY <1>4, <1>5

LEMMA CallsMove ==
    ASSUME Types
    PROVE  ValidAlloc \/ ValidRealloc \/ ValidFree \/ UtilAlloc \/ UtilRealloc \/ UtilFree
              \/ SpeedAlloc \/ SpeedRealloc \/ SpeedFree => Moves
<1>0. HeapOK(heap)
  BY DEF Types
<1> DEFINE Continues ==
              /\ i' = i + 1 /\ UNCHANGED <<pc, tracenum>>
              /\ \/ UNCHANGED blocks
                 \/ \E p : blocks' = [blocks EXCEPT ![op.index] = p]
              /\ \/ UNCHANGED block_sizes
                 \/ \E n : block_sizes' = [block_sizes EXCEPT ![op.index] = n]
           GivesUp ==
              /\ UNCHANGED <<i, blocks, block_sizes>>
              /\ \/ pc' = "read" /\ tracenum' = tracenum + 1
                 \/ pc' = "exit" /\ tracenum' = tracenum
<1>1. ASSUME NEW p PROVE Goes(p) => Continues
  BY DEF Goes, Remember, NextOp
<1>2. ASSUME NEW m PROVE Stops(m) => GivesUp
  BY DEF Stops, malloc_error, NextTrace
<1>3. ASSUME NEW m PROVE app_error(m) /\ UNCHANGED <<i, blocks, block_sizes>> => GivesUp
  BY DEF app_error
<1>4. ASSUME pc \in Passes, More, HeapOK(heap'), trace' = trace, Continues \/ GivesUp
      PROVE  Moves
  BY <1>4, CallMoves
<1>5. ASSUME pc \in Passes, More, op.type = "ALLOC", NEW r \in MallocResults(heap, op.size)
      PROVE  HeapOK(r.heap)
  BY <1>0, <1>5, PassFacts, MallocOK DEF ResultOK
<1>6. ASSUME pc \in Passes, More, op.type = "REALLOC",
             NEW r \in ReallocResults(heap, blocks[op.index], op.size)
      PROVE  HeapOK(r.heap)
  BY <1>0, <1>6, PassFacts, ReallocOK DEF ResultOK
<1>7. \A g : HeapOK(g) =>
         HeapOK([g EXCEPT !.mem = memset(@, g.brk, LowByte(op.index), op.size)])
  BY SetOK
<1> HIDE DEF Continues, GivesUp
<1>8. CASE ValidAlloc
  <2>1. pc \in Passes /\ More /\ trace' = trace /\ op.type = "ALLOC"
    BY <1>8 DEF ValidAlloc, Passes
  <2>2. PICK r \in MallocResults(heap, op.size) :
           \/ /\ heap' = r.heap
              /\ \E m : Stops(m)
           \/ /\ heap' = [r.heap EXCEPT !.mem = memset(@, r.p, LowByte(op.index), op.size)]
              /\ Goes(r.p)
    BY <1>8, Zenon DEF ValidAlloc
  <2>3. HeapOK(r.heap)
    BY <1>5, <2>1
  <2>4. HeapOK([r.heap EXCEPT !.mem = memset(@, r.p, LowByte(op.index), op.size)])
    BY <2>3, SetOK
  <2>5. HeapOK(heap') /\ (Continues \/ GivesUp)
    BY <2>2, <2>3, <2>4, <1>1, <1>2, Zenon
  <2> QED BY <1>4, <2>1, <2>5
<1>9. CASE ValidRealloc
  <2>1. pc \in Passes /\ More /\ trace' = trace /\ op.type = "REALLOC"
    BY <1>9 DEF ValidRealloc, Passes
  <2>2. PICK r \in ReallocResults(heap, blocks[op.index], op.size) :
           \/ /\ heap' = r.heap
              /\ \E m : Stops(m)
           \/ /\ heap' = [r.heap EXCEPT !.mem = memset(@, r.p, LowByte(op.index), op.size)]
              /\ Goes(r.p)
    BY <1>9, Zenon DEF ValidRealloc
  <2>3. HeapOK(r.heap)
    BY <1>6, <2>1
  <2>4. HeapOK([r.heap EXCEPT !.mem = memset(@, r.p, LowByte(op.index), op.size)])
    BY <2>3, SetOK
  <2>5. HeapOK(heap') /\ (Continues \/ GivesUp)
    BY <2>2, <2>3, <2>4, <1>1, <1>2, Zenon
  <2> QED BY <1>4, <2>1, <2>5
<1>10. CASE ValidFree \/ UtilFree \/ SpeedFree
  <2>1. pc \in Passes /\ More /\ trace' = trace /\ heap' = heap /\ Continues
    BY <1>10 DEF ValidFree, UtilFree, SpeedFree, Passes, mm_free, NextOp, Continues
  <2> QED BY <1>0, <1>4, <2>1
<1>11. CASE UtilAlloc
  <2>1. pc \in Passes /\ More /\ trace' = trace /\ op.type = "ALLOC"
    BY <1>11 DEF UtilAlloc, Passes
  <2>2. PICK r \in MallocResults(heap, op.size) :
           /\ heap' = r.heap
           /\ \/ \E m : app_error(m) /\ UNCHANGED <<i, blocks, block_sizes>>
              \/ Goes(r.p)
    BY <1>11 DEF UtilAlloc
  <2>3. HeapOK(heap') /\ (Continues \/ GivesUp)
    BY <2>1, <2>2, <1>5, <1>1, <1>3
  <2> QED BY <1>4, <2>1, <2>3
<1>12. CASE UtilRealloc
  <2>1. pc \in Passes /\ More /\ trace' = trace /\ op.type = "REALLOC"
    BY <1>12 DEF UtilRealloc, Passes
  <2>2. PICK r \in ReallocResults(heap, blocks[op.index], op.size) :
           /\ heap' = r.heap
           /\ \/ \E m : app_error(m) /\ UNCHANGED <<i, blocks, block_sizes>>
              \/ Goes(r.p)
    BY <1>12 DEF UtilRealloc
  <2>3. HeapOK(heap') /\ (Continues \/ GivesUp)
    BY <2>1, <2>2, <1>6, <1>1, <1>3
  <2> QED BY <1>4, <2>1, <2>3
<1>13. CASE SpeedAlloc
  <2>1. pc \in Passes /\ More /\ trace' = trace /\ op.type = "ALLOC"
    BY <1>13 DEF SpeedAlloc, SpeedCall, Passes
  <2>2. PICK r \in MallocResults(heap, op.size) : heap' = r.heap /\ (Continues \/ GivesUp)
    BY <1>13 DEF SpeedAlloc, SpeedCall, app_error, NextOp, Continues, GivesUp
  <2> QED BY <1>4, <1>5, <2>1, <2>2
<1>14. CASE SpeedRealloc
  <2>1. pc \in Passes /\ More /\ trace' = trace /\ op.type = "REALLOC"
    BY <1>14 DEF SpeedRealloc, SpeedCall, Passes
  <2>2. PICK r \in ReallocResults(heap, blocks[op.index], op.size) :
           heap' = r.heap /\ (Continues \/ GivesUp)
    BY <1>14 DEF SpeedRealloc, SpeedCall, app_error, NextOp, Continues, GivesUp
  <2> QED BY <1>4, <1>6, <2>1, <2>2
<1> QED BY <1>8, <1>9, <1>10, <1>11, <1>12, <1>13, <1>14

LEMMA NextTypes == Types /\ [Next]_vars => Types'
<1> SUFFICES ASSUME Types, [Next]_vars PROVE Types'
  OBVIOUS
<1>1. CASE UNCHANGED vars
  BY <1>1 DEF vars, Types, num_tracefiles
<1>2. CASE Next
  <2>1. setup' = setup
    BY <1>2 DEF Next
  <2>2. Moves
    BY <1>2, StartsMove, CallsMove DEF Next
  <2> QED BY <2>1, <2>2 DEF Types, Moves, num_tracefiles
<1> QED BY <1>1, <1>2

(* Type correctness of the driver.                                         *)
THEOREM TypeCorrect == Spec => []Types
  BY InitTypes, NextTypes, PTL DEF Spec

-------------------------------------------------------------------------------
(* The range list of a pass of eval_mm_valid, whatever the package: one    *)
(* record for each block, and no overlap but by containment.               *)
RangesInv ==
    pc = "valid" =>
        /\ Tracks(ranges, Held, blocks, block_sizes)
        /\ Contained(ranges, heap.brk)

LEMMA EmptyList ==
    ASSUME NEW b, NEW z
    PROVE  Tracks(<<>>, {}, b, z) /\ Contained(<<>>, 0)
<1>1. <<>> \in Seq(RangeSet) /\ Len(<<>>) = 0 /\ DOMAIN <<>> = {}
  OBVIOUS
<1>2. IsFiniteSet({}) /\ Cardinality({}) = 0
  BY FS_EmptySet
<1>3. ToSet(<<>>) = {} /\ RecordsOf({}, b, z) = {}
  BY <1>1 DEF ToSet, RecordsOf
<1> QED BY <1>1, <1>2, <1>3 DEF Tracks, Contained

LEMMA RangesAtStart ==
    ASSUME Types, StartValid
    PROVE  RangesInv'
<1> SUFFICES ASSUME pc' = "valid"
             PROVE  /\ Tracks(ranges', Held', blocks', block_sizes')
                    /\ Contained(ranges', heap'.brk)
  BY DEF RangesInv
<1>1. ranges' = <<>> /\ i' = 0 /\ trace' = trace /\ heap' = mm_init(mem_reset_brk(heap))
  BY DEF StartValid, clear_ranges
<1>2. Held' = {}
  BY <1>1, NothingHeld DEF Held
<1>3. heap'.brk = 0
  BY <1>1, Emptied DEF Types
<1> QED BY <1>1, <1>2, <1>3, EmptyList

(* After a call that is taken, ranges' is add_range of ranges or, for a    *)
(* reallocation, of what remove_range left.                                *)
LEMMA RangesTaken ==
    ASSUME Types, pc = "valid", More, op.type # "FREE", NEW rs,
           Tracks(rs, Held \ {op.index}, blocks, block_sizes), Contained(rs, heap.brk),
           NEW r, ResultOK(heap, r), r.p # NULL, Accepts(rs, r.heap, r.p, op.size),
           ranges' = add_range(rs, r.p, op.size), heap'.brk = r.heap.brk,
           trace' = trace, Goes(r.p)
    PROVE  RangesInv'
<1>1. /\ trace \in Traces /\ i \in Nat /\ i < Len(trace)
      /\ op.index \in Indices /\ op.size \in TraceSizes
  BY PassFacts DEF Passes
<1> DEFINE S == Held \ {op.index}
           x == op.index
<1>2. r.p \in Int /\ heap.brk \in Int /\ r.heap.brk \in Int /\ heap.brk <= r.heap.brk
  BY DEF ResultOK, HeapOK, Types
<1>3. blocks = [y \in Indices |-> blocks[y]] /\ block_sizes = [y \in Indices |-> block_sizes[y]]
  BY DEF Types
<1>4. /\ Tracks(add_range(rs, r.p, op.size), S \cup {x},
                [blocks EXCEPT ![x] = r.p], [block_sizes EXCEPT ![x] = op.size])
      /\ Contained(add_range(rs, r.p, op.size), r.heap.brk)
  <2>1. x \in Indices /\ x \notin S /\ Tracks(rs, S, blocks, block_sizes)
    BY <1>1
  <2> HIDE DEF x, S
  <2> QED BY <1>1, <1>2, <1>3, <2>1, RangeAdded, Zenon
<1>5. Held' = S \cup {x}
  <2>1. HeldAfter(trace, i + 1) = Held \cup {x}
    BY <1>1, NextRequest
  <2> QED BY <2>1 DEF Held, Goes, NextOp
<1>6. /\ blocks' = [blocks EXCEPT ![x] = r.p]
      /\ block_sizes' = [block_sizes EXCEPT ![x] = op.size]
  BY DEF Goes, Remember
<1> QED BY <1>4, <1>5, <1>6 DEF RangesInv

LEMMA RangesAfterAlloc ==
    ASSUME Types, RangesInv, ValidAlloc
    PROVE  RangesInv'
<1>1. /\ pc = "valid" /\ More /\ op.type = "ALLOC" /\ trace' = trace
      /\ Tracks(ranges, Held, blocks, block_sizes) /\ Contained(ranges, heap.brk)
  BY DEF ValidAlloc, RangesInv
<1>2. trace \in Traces /\ i \in Nat /\ i < Len(trace) /\ op.size \in TraceSizes
  BY <1>1, PassFacts DEF Passes
<1>3. op.index \notin Held
  BY <1>1, <1>2, NextRequest
<1>4. Held \ {op.index} = Held
  BY <1>3
<1>5. PICK r \in MallocResults(heap, op.size) :
         \/ \E m : Stops(m)
         \/ /\ r.p # NULL /\ Accepts(ranges, r.heap, r.p, op.size)
            /\ ranges' = add_range(ranges, r.p, op.size)
            /\ heap' = [r.heap EXCEPT !.mem = memset(@, r.p, LowByte(op.index), op.size)]
            /\ Goes(r.p)
  BY Zenon DEF ValidAlloc, Accepts
<1>6. ResultOK(heap, r)
  BY <1>2, MallocOK DEF Types
<1>7. CASE \E m : Stops(m)
  BY <1>7 DEF Stops, malloc_error, NextTrace, RangesInv
<1>8. CASE /\ r.p # NULL /\ Accepts(ranges, r.heap, r.p, op.size)
           /\ ranges' = add_range(ranges, r.p, op.size)
           /\ heap' = [r.heap EXCEPT !.mem = memset(@, r.p, LowByte(op.index), op.size)]
           /\ Goes(r.p)
  <2>1. heap'.brk = r.heap.brk
    BY <1>6, <1>8, SetOK DEF ResultOK
  <2> QED BY <1>1, <1>4, <1>6, <1>8, <2>1, RangesTaken
<1> QED BY <1>5, <1>7, <1>8

LEMMA RangesAfterRealloc ==
    ASSUME Types, RangesInv, ValidRealloc
    PROVE  RangesInv'
<1> DEFINE rs == remove_range(ranges, blocks[op.index])
<1>1. /\ pc = "valid" /\ More /\ op.type = "REALLOC" /\ trace' = trace
      /\ Tracks(ranges, Held, blocks, block_sizes) /\ Contained(ranges, heap.brk)
  BY DEF ValidRealloc, RangesInv
<1>2. trace \in Traces /\ i \in Nat /\ i < Len(trace) /\ op.size \in TraceSizes
  BY <1>1, PassFacts DEF Passes
<1>3. op.index \in Held
  BY <1>1, <1>2, NextRequest
<1>4. Tracks(rs, Held \ {op.index}, blocks, block_sizes) /\ Contained(rs, heap.brk)
  <2>1. heap.brk \in Int
    BY DEF Types, HeapOK
  <2> QED BY <1>1, <1>3, <2>1, RangeRemoved
<1>5. PICK r \in ReallocResults(heap, blocks[op.index], op.size) :
         \/ \E m : Stops(m)
         \/ /\ r.p # NULL /\ Accepts(rs, r.heap, r.p, op.size)
            /\ ranges' = add_range(rs, r.p, op.size)
            /\ heap' = [r.heap EXCEPT !.mem = memset(@, r.p, LowByte(op.index), op.size)]
            /\ Goes(r.p)
  BY Zenon DEF ValidRealloc, Accepts
<1> HIDE DEF rs
<1>6. ResultOK(heap, r)
  BY <1>2, ReallocOK DEF Types
<1>7. CASE \E m : Stops(m)
  BY <1>7 DEF Stops, malloc_error, NextTrace, RangesInv
<1>8. CASE /\ r.p # NULL /\ Accepts(rs, r.heap, r.p, op.size)
           /\ ranges' = add_range(rs, r.p, op.size)
           /\ heap' = [r.heap EXCEPT !.mem = memset(@, r.p, LowByte(op.index), op.size)]
           /\ Goes(r.p)
  <2>1. heap'.brk = r.heap.brk
    BY <1>6, <1>8, SetOK DEF ResultOK
  <2> QED BY <1>1, <1>4, <1>6, <1>8, <2>1, RangesTaken
<1> QED BY <1>5, <1>7, <1>8

LEMMA RangesAfterFree ==
    ASSUME Types, RangesInv, ValidFree
    PROVE  RangesInv'
<1>1. /\ pc = "valid" /\ More /\ op.type = "FREE" /\ trace' = trace /\ i' = i + 1
      /\ ranges' = remove_range(ranges, blocks[op.index]) /\ heap' = heap
      /\ UNCHANGED <<blocks, block_sizes>>
      /\ Tracks(ranges, Held, blocks, block_sizes) /\ Contained(ranges, heap.brk)
  BY DEF ValidFree, RangesInv, mm_free, NextOp
<1>2. trace \in Traces /\ i \in Nat /\ i < Len(trace)
  BY <1>1, PassFacts DEF Passes
<1>3. op.index \in Held /\ Held' = Held \ {op.index}
  <2>1. op.index \in Held /\ HeldAfter(trace, i + 1) = Held \ {op.index}
    BY <1>1, <1>2, NextRequest
  <2> QED BY <1>1, <2>1 DEF Held
<1>4. heap.brk \in Int
  BY DEF Types, HeapOK
<1>5. /\ Tracks(ranges', Held \ {op.index}, blocks, block_sizes)
      /\ Contained(ranges', heap.brk)
  BY <1>1, <1>3, <1>4, RangeRemoved
<1> QED BY <1>1, <1>3, <1>5 DEF RangesInv

LEMMA NextRanges == Types /\ RangesInv /\ [Next]_vars => RangesInv'
<1> SUFFICES ASSUME Types, RangesInv, [Next]_vars PROVE RangesInv'
  OBVIOUS
<1>1. CASE UNCHANGED vars
  BY <1>1 DEF vars, RangesInv, Held
<1>2. CASE StartValid \/ ValidAlloc \/ ValidRealloc \/ ValidFree
  BY <1>2, RangesAtStart, RangesAfterAlloc, RangesAfterRealloc, RangesAfterFree
<1>3. CASE \/ ReadTrace \/ Finish \/ Exited \/ ValidEnd
           \/ StartUtil \/ UtilAlloc \/ UtilRealloc \/ UtilFree \/ UtilEnd
           \/ StartSpeed \/ SpeedAlloc \/ SpeedRealloc \/ SpeedFree \/ SpeedEnd
  <2>1. pc' # "valid"
    BY <1>3 DEF ReadTrace, Finish, Exited, ValidEnd, StartUtil, UtilAlloc, UtilRealloc,
                UtilFree, UtilEnd, StartSpeed, SpeedAlloc, SpeedRealloc, SpeedFree, SpeedEnd,
                SpeedCall, ResetForPass, app_error, NextTrace, Goes, vars
  <2> QED BY <2>1 DEF RangesInv
<1> QED BY <1>1, <1>2, <1>3 DEF Next

(* "The extent of every allocated block payload" (mdriver.c:362-366): one  *)
(* record for each block the trace holds, whatever the package answers.    *)
THEOREM RangesTracked == Spec => []RangesTrackBlocks
<1>1. Init => Types /\ RangesInv
  BY InitTypes DEF Init, RangesInv
<1>2. RangesInv => RangesTrackBlocks
  BY DEF RangesInv, Tracks, RecordsOf, RangesTrackBlocks
<1> QED BY <1>1, <1>2, NextTypes, NextRanges, PTL DEF Spec

(* mdriver.c:384-410: what the three checks of add_range are worth.        *)
THEOREM OverlapsAreContainments == Spec => []OverlapOnlyByContainment
<1>1. Init => Types /\ RangesInv
  BY InitTypes DEF Init, RangesInv
<1>2. RangesInv => OverlapOnlyByContainment
  BY DEF RangesInv, Contained, OverlapOnlyByContainment, mem_heap_lo, mem_heap_hi
<1> QED BY <1>1, <1>2, NextTypes, NextRanges, PTL DEF Spec

-------------------------------------------------------------------------------
(* With mm.c the end of the heap after so many requests of a pass depends  *)
(* on the requests only, so the passes meet the same ends.                 *)
Ends(f, n) ==
    /\ f \in [0..n -> Int] /\ f[0] = 0
    /\ \A k \in 1..n :
          IF trace[k].type = "FREE" THEN f[k] = f[k - 1]
          ELSE /\ newsize(trace[k].size) >= 0
               /\ f[k] = f[k - 1] + newsize(trace[k].size)
               /\ f[k] <= MAX_HEAP

LaterPasses == {"start util", "util", "start speed", "speed"}

(* eval_mm_valid finds the ends out, the later passes rely on them.        *)
EndsInv ==
    ~Arbitrary =>
        /\ pc # "exit"
        /\ pc = "valid" => \E f : Ends(f, i) /\ heap.brk = f[i]
        /\ pc \in LaterPasses =>
              \E f : /\ Ends(f, Len(trace))
                     /\ pc \in {"util", "speed"} => heap.brk = f[i]

LEMMA MMCall ==
    ASSUME ~Arbitrary, Types, NEW n \in TraceSizes, NEW q,
           NEW r \in MallocResults(heap, n) \cup ReallocResults(heap, q, n)
    PROVE  \/ CannotExtend(heap, newsize(n)) /\ r.p = NULL
           \/ /\ ~CannotExtend(heap, newsize(n))
              /\ r.p # NULL /\ r.p = heap.brk + SIZE_T_SIZE
              /\ r.heap.brk = heap.brk + newsize(n)
<1>1. r = mm_malloc(heap, n) \/ r = mm_realloc(heap, q, n)
  BY DEF MallocResults, ReallocResults
<1>2. HeapOK(heap) /\ heap.brk \in Int /\ NULL \notin Int /\ SIZE_T_SIZE \in Int
  BY HeapAssumption, HeaderSize DEF Types, HeapOK
<1>3. CASE CannotExtend(heap, newsize(n))
  <2>1. r = [p |-> NULL, heap |-> heap]
    BY <1>1, <1>2, <1>3, MMMalloc, MMRealloc
  <2> QED BY <2>1, <1>3
<1>4. CASE ~CannotExtend(heap, newsize(n))
  <2> DEFINE p == heap.brk + SIZE_T_SIZE
             b == heap.brk + newsize(n)
             m1 == [heap.mem EXCEPT ![heap.brk] = n]
             m2 == memcpy(m1, p, q, copySize(mm_malloc(heap, n).heap, q, n))
  <2>1. \/ mm_malloc(heap, n) = [p |-> p, heap |-> [brk |-> b, mem |-> m1]]
        \/ CannotExtend(heap, newsize(n))
    BY <1>2, MMMalloc
  <2>2. \/ mm_realloc(heap, q, n) = [p |-> p, heap |-> [brk |-> b, mem |-> m2]]
        \/ CannotExtend(heap, newsize(n))
    BY <1>2, MMRealloc
  <2>3. p \in Int
    BY <1>2
  <2> HIDE DEF p, b, m1, m2
  <2>4. r.p = p /\ r.heap.brk = b
    BY <1>1, <1>4, <2>1, <2>2
  <2> QED BY <1>2, <1>4, <2>3, <2>4 DEF p, b
<1> QED BY <1>3, <1>4

LEMMA NoEnds == \E f : Ends(f, 0) /\ f[0] = 0
<1> DEFINE f == [k \in 0..0 |-> 0]
<1>1. f \in [0..0 -> Int] /\ f[0] = 0 /\ 1..0 = {}
  OBVIOUS
<1> HIDE DEF f
<1> QED BY <1>1 DEF Ends

(* One more request of eval_mm_valid.                                      *)
LEMMA OneMoreEnd ==
    ASSUME i \in Nat, NEW f, Ends(f, i), NEW e \in Int,
           IF op.type = "FREE" THEN e = f[i]
           ELSE newsize(op.size) >= 0 /\ e = f[i] + newsize(op.size) /\ e <= MAX_HEAP
    PROVE  \E g : Ends(g, i + 1) /\ g[i + 1] = e
<1> DEFINE g == [k \in 0..(i + 1) |-> IF k = i + 1 THEN e ELSE f[k]]
<1>1. f \in [0..i -> Int] /\ f[0] = 0
  BY DEF Ends
<1>2. g \in [0..(i + 1) -> Int] /\ g[0] = 0 /\ g[i + 1] = e /\ \A k \in 0..i : g[k] = f[k]
  BY <1>1
<1> HIDE DEF g
<1>3. ASSUME NEW k \in 1..(i + 1)
      PROVE  IF trace[k].type = "FREE" THEN g[k] = g[k - 1]
             ELSE /\ newsize(trace[k].size) >= 0
                  /\ g[k] = g[k - 1] + newsize(trace[k].size)
                  /\ g[k] <= MAX_HEAP
  <2>1. CASE k = i + 1
    <3>1. g[k] = e /\ g[k - 1] = f[i] /\ trace[k] = op
      BY <2>1, <1>2 DEF op
    <3> QED BY <3>1
  <2>2. CASE k # i + 1
    <3>1. k \in 1..i /\ g[k] = f[k] /\ g[k - 1] = f[k - 1]
      BY <2>2, <1>2
    <3> QED BY <3>1 DEF Ends
  <2> QED BY <2>1, <2>2
<1> QED BY <1>2, <1>3 DEF Ends

(* A call of eval_mm_valid that mm.c serves, and a free.                   *)
LEMMA EndsInValid ==
    ASSUME ~Arbitrary, Types, EndsInv, ValidAlloc \/ ValidRealloc \/ ValidFree
    PROVE  pc' = "read" \/ (pc' = "valid" /\ \E f : Ends(f, i)' /\ heap'.brk = f[i'])
<1>1. pc = "valid" /\ More /\ trace' = trace
  BY DEF ValidAlloc, ValidRealloc, ValidFree
<1>2. PICK f : Ends(f, i) /\ heap.brk = f[i]
  BY <1>1 DEF EndsInv
<1>3. /\ i \in Nat /\ (op.type # "FREE" => op.size \in TraceSizes)
      /\ HeapOK(heap) /\ heap.brk \in Int /\ MAX_HEAP \in Int
  BY <1>1, PassFacts, HeapAssumption DEF Passes, Types, HeapOK
<1>4. \A g : i' = i + 1 => (Ends(g, i)' <=> Ends(g, i + 1))
  BY <1>1 DEF Ends
<1>5. CASE ValidFree
  <2>1. op.type = "FREE" /\ pc' = "valid" /\ i' = i + 1 /\ heap' = heap
    BY <1>5 DEF ValidFree, mm_free, NextOp
  <2>2. \E g : Ends(g, i + 1) /\ g[i + 1] = heap.brk
    BY <1>2, <1>3, <2>1, OneMoreEnd
  <2> QED BY <1>4, <2>1, <2>2
<1>6. CASE ValidAlloc \/ ValidRealloc
  <2>1. PICK r \in MallocResults(heap, op.size) \cup ReallocResults(heap, blocks[op.index], op.size) :
           \/ \E m : Stops(m)
           \/ /\ r.p # NULL /\ Goes(r.p)
              /\ heap' = [r.heap EXCEPT !.mem = memset(@, r.p, LowByte(op.index), op.size)]
    BY <1>6, Zenon DEF ValidAlloc, ValidRealloc
  <2>2. op.size \in TraceSizes /\ op.type # "FREE"
    BY <1>3, <1>6 DEF ValidAlloc, ValidRealloc
  <2>3. HeapOK(r.heap)
    BY <1>3, <2>2, MallocOK, ReallocOK DEF ResultOK
  <2>4. CASE \E m : Stops(m)
    BY <2>4 DEF Stops, malloc_error, NextTrace
  <2>5. CASE /\ r.p # NULL /\ Goes(r.p)
             /\ heap' = [r.heap EXCEPT !.mem = memset(@, r.p, LowByte(op.index), op.size)]
    <3>1. heap'.brk = r.heap.brk
      BY <2>3, <2>5, SetOK
    <3>2. ~CannotExtend(heap, newsize(op.size)) /\ r.heap.brk = heap.brk + newsize(op.size)
      BY <2>2, <2>5, MMCall
    <3>3. newsize(op.size) \in Int
      BY <2>2, SizeIsNat, SizesAreInts
    <3>4. /\ newsize(op.size) >= 0 /\ heap.brk + newsize(op.size) <= MAX_HEAP
          /\ heap.brk + newsize(op.size) \in Int
      BY <1>3, <3>2, <3>3 DEF CannotExtend
    <3>5. \E g : Ends(g, i + 1) /\ g[i + 1] = heap.brk + newsize(op.size)
      BY <1>2, <1>3, <2>2, <3>4, OneMoreEnd
    <3>6. pc' = "valid" /\ i' = i + 1
      BY <1>1, <2>5 DEF Goes, NextOp
    <3> QED BY <1>4, <3>1, <3>2, <3>5, <3>6
  <2> QED BY <2>1, <2>4, <2>5
<1> QED BY <1>5, <1>6

(* The same request in a later pass: mm.c serves it again.                 *)
LEMMA EndsInLater ==
    ASSUME ~Arbitrary, Types, EndsInv,
           UtilAlloc \/ UtilRealloc \/ UtilFree \/ SpeedAlloc \/ SpeedRealloc \/ SpeedFree
    PROVE  /\ pc' = pc /\ pc \in {"util", "speed"} /\ trace' = trace /\ i' = i + 1
           /\ \E f : Ends(f, Len(trace)) /\ heap'.brk = f[i + 1]
<1>1. pc \in {"util", "speed"} /\ More /\ trace' = trace
  BY DEF UtilAlloc, UtilRealloc, UtilFree, SpeedAlloc, SpeedRealloc, SpeedFree, SpeedCall
<1>2. PICK f : Ends(f, Len(trace)) /\ heap.brk = f[i]
  BY <1>1 DEF EndsInv, LaterPasses
<1>3. /\ i \in Nat /\ i + 1 \in 1..Len(trace) /\ (op.type # "FREE" => op.size \in TraceSizes)
      /\ heap.brk \in Int /\ MAX_HEAP \in Int
  BY <1>1, PassFacts, HeapAssumption DEF Passes, Types, HeapOK
<1>4. IF op.type = "FREE" THEN f[i + 1] = f[i]
      ELSE /\ newsize(op.size) >= 0 /\ f[i + 1] = f[i] + newsize(op.size)
           /\ f[i + 1] <= MAX_HEAP
  <2>1. (i + 1) - 1 = i
    BY <1>3
  <2> QED BY <1>2, <1>3, <2>1 DEF Ends, op
<1>5. CASE UtilFree \/ SpeedFree
  <2>1. op.type = "FREE" /\ heap' = heap /\ pc' = pc /\ i' = i + 1
    BY <1>5 DEF UtilFree, SpeedFree, mm_free, NextOp
  <2> QED BY <1>1, <1>2, <1>4, <2>1
<1>6. CASE UtilAlloc \/ UtilRealloc \/ SpeedAlloc \/ SpeedRealloc
  <2>1. op.type # "FREE" /\ op.size \in TraceSizes
    BY <1>3, <1>6 DEF UtilAlloc, UtilRealloc, SpeedAlloc, SpeedRealloc, SpeedCall
  <2>2. PICK r \in MallocResults(heap, op.size) \cup ReallocResults(heap, blocks[op.index], op.size) :
           heap' = r.heap /\ (r.p = NULL \/ (pc' = pc /\ i' = i + 1))
    BY <1>6 DEF UtilAlloc, UtilRealloc, SpeedAlloc, SpeedRealloc, SpeedCall, Goes, NextOp
  <2>3. ~CannotExtend(heap, newsize(op.size))
    <3>1. newsize(op.size) \in Int
      BY <2>1, SizeIsNat, SizesAreInts
    <3> QED BY <1>2, <1>3, <1>4, <2>1, <3>1 DEF CannotExtend
  <2>4. r.p # NULL /\ r.heap.brk = heap.brk + newsize(op.size)
    BY <2>1, <2>3, MMCall
  <2> QED BY <1>1, <1>2, <1>4, <2>1, <2>2, <2>4
<1> QED BY <1>5, <1>6

LEMMA NextEnds == Types /\ EndsInv /\ [Next]_vars => EndsInv'
<1> SUFFICES ASSUME Types, EndsInv, [Next]_vars, ~Arbitrary' PROVE EndsInv'
  BY DEF EndsInv
<1>0. setup' = setup /\ ~Arbitrary
  BY DEF Next, vars, Arbitrary
<1>1. CASE UNCHANGED vars
  BY <1>0, <1>1 DEF vars, EndsInv, Ends
<1>2. CASE ReadTrace \/ Finish \/ Exited
  BY <1>0, <1>2 DEF ReadTrace, Finish, Exited, EndsInv, Ends, LaterPasses, vars
<1>3. CASE StartValid
  <2>1. pc' = "read" \/ (pc' = "valid" /\ i' = 0 /\ heap'.brk = 0)
    BY <1>3, Emptied DEF StartValid, malloc_error, NextTrace, Types
  <2>2. i' = 0 => \E f : Ends(f, i)' /\ f[i'] = 0
    BY NoEnds DEF Ends
  <2> QED BY <1>0, <2>1, <2>2 DEF EndsInv, LaterPasses
<1>4. CASE ValidAlloc \/ ValidRealloc \/ ValidFree
  BY <1>0, <1>4, EndsInValid DEF EndsInv, LaterPasses
<1>5. CASE ValidEnd
  <2>1. pc = "valid" /\ ~More /\ pc' = "start util" /\ trace' = trace
    BY <1>5 DEF ValidEnd
  <2>2. i = Len(trace)
    <3>1. i \in Nat /\ i <= Len(trace) /\ ~(i < Len(trace)) /\ trace \in Traces
      BY <2>1 DEF Types, Passes, More
    <3>2. Len(trace) \in Nat
      BY <3>1, TraceFacts
    <3> QED BY <3>1, <3>2
  <2>3. PICK f : Ends(f, Len(trace))
    BY <1>0, <2>1, <2>2 DEF EndsInv
  <2>4. Ends(f, Len(trace))'
    BY <2>1, <2>3 DEF Ends
  <2> QED BY <2>1, <2>4 DEF EndsInv
<1>6. CASE StartUtil \/ StartSpeed
  <2>1. /\ pc' \in {"util", "speed"} /\ trace' = trace /\ i' = 0
        /\ heap' = mm_init(mem_reset_brk(heap)) /\ pc \in LaterPasses
    BY <1>0, <1>6 DEF StartUtil, StartSpeed, ResetForPass, InitFails, LaterPasses
  <2>2. PICK f : Ends(f, Len(trace))
    BY <1>0, <2>1 DEF EndsInv
  <2>3. Ends(f, Len(trace))' /\ f[0] = 0
    BY <2>1, <2>2 DEF Ends
  <2>4. heap'.brk = 0
    BY <2>1, Emptied DEF Types
  <2> QED BY <2>1, <2>3, <2>4 DEF EndsInv
<1>7. CASE UtilAlloc \/ UtilRealloc \/ UtilFree \/ SpeedAlloc \/ SpeedRealloc \/ SpeedFree
  <2>1. /\ pc' = pc /\ pc \in {"util", "speed"} /\ trace' = trace /\ i' = i + 1
        /\ \E f : Ends(f, Len(trace)) /\ heap'.brk = f[i + 1]
    BY <1>0, <1>7, EndsInLater
  <2>2. \A f : Ends(f, Len(trace)) => Ends(f, Len(trace))'
    BY <2>1 DEF Ends
  <2> QED BY <2>1, <2>2 DEF EndsInv
<1>8. CASE UtilEnd \/ SpeedEnd
  <2>1. /\ pc \in LaterPasses /\ trace' = trace /\ pc' \in {"read", "start speed"}
    BY <1>8 DEF UtilEnd, SpeedEnd, NextTrace, LaterPasses
  <2>2. PICK f : Ends(f, Len(trace))
    BY <1>0, <2>1 DEF EndsInv
  <2>3. Ends(f, Len(trace))'
    BY <2>1, <2>2 DEF Ends
  <2> QED BY <2>1, <2>3 DEF EndsInv, LaterPasses
<1> QED BY <1>1, <1>2, <1>3, <1>4, <1>5, <1>6, <1>7, <1>8 DEF Next

(* mdriver.c:299-307: with mm.c, a trace eval_mm_valid accepts runs to its *)
(* end in the later passes too; the driver never leaves through app_error. *)
THEOREM NeverExits == Spec => []LaterPassesAgree
<1>1. Init => Types /\ EndsInv
  <2>1. Init => pc = "read"
    BY DEF Init
  <2> QED BY <2>1, InitTypes DEF EndsInv, LaterPasses
<1>2. EndsInv => LaterPassesAgree
  BY DEF EndsInv, LaterPassesAgree
<1> QED BY <1>1, <1>2, NextTypes, NextEnds, PTL DEF Spec

-------------------------------------------------------------------------------
(* What eval_mm_valid finds in the heap mm.c manages: every block has its  *)
(* size in its header and its index in every byte, below the end.          *)
BlockOK(h, p, n, b) ==
    /\ p \in Int /\ n \in TraceSizes /\ SIZE_T_SIZE <= p /\ p + n <= h.brk
    /\ h.mem[p - SIZE_T_SIZE] = n
    /\ \A j \in 0..(n - 1) : h.mem[p + j] = b

BlocksOK ==
    /\ IS_ALIGNED(heap.brk)
    /\ \A x \in Held : BlockOK(heap, blocks[x], block_sizes[x], LowByte(x))

JudgedInv ==
    ~Arbitrary =>
        /\ valid = [t \in 1..num_tracefiles |-> valid[t]]
        /\ pc \in LaterPasses => valid[tracenum] = TRUE
        /\ pc = "valid" => BlocksOK
        /\ OnlyOutOfMemory

(* A block that mm.c hands out lies above all others, aligned and in the   *)
(* heap: add_range takes it.                                               *)
LEMMA MMAccepted ==
    ASSUME NEW h, HeapOK(h), IS_ALIGNED(h.brk), NEW n \in TraceSizes,
           ~CannotExtend(h, newsize(n)),
           NEW rs, Contained(rs, h.brk), NEW S, NEW b, NEW z, Tracks(rs, S, b, z),
           NEW g, g.brk = h.brk + newsize(n)
    PROVE  /\ Accepts(rs, g, h.brk + SIZE_T_SIZE, n)
           /\ IS_ALIGNED(g.brk)
<1> DEFINE p == h.brk + SIZE_T_SIZE
<1>1. /\ newsize(n) \in Nat /\ newsize(n) >= n + SIZE_T_SIZE /\ IS_ALIGNED(newsize(n))
      /\ h.brk \in Nat /\ n \in Nat \ {0} /\ SIZE_T_SIZE \in Nat \ {0}
  BY MMMalloc, SizeIsNat, HeaderSize, HeapAssumption DEF HeapOK
<1>2. IS_ALIGNED(p) /\ IS_ALIGNED(g.brk)
  <2>1. h.brk \in Int /\ newsize(n) \in Int /\ SIZE_T_SIZE \in Int /\ IS_ALIGNED(SIZE_T_SIZE)
    BY <1>1, HeaderSize
  <2>2. IS_ALIGNED(h.brk + SIZE_T_SIZE) /\ IS_ALIGNED(h.brk + newsize(n))
    BY <1>1, <2>1, AlignedSum, Zenon
  <2> QED BY <2>2
<1>3. ~OutsideHeap(g, p, Hi(p, n))
  BY <1>1 DEF OutsideHeap, Hi, mem_heap_lo, mem_heap_hi
<1>4. ASSUME NEW k \in DOMAIN rs PROVE ~Overlaps(p, Hi(p, n), rs[k])
  <2>1. rs[k].lo \in Int /\ rs[k].hi \in Int
    BY Listed
  <2>2. rs[k].hi <= h.brk - 1
    BY DEF Contained
  <2> QED BY <1>1, <2>1, <2>2 DEF Overlaps, Hi
<1> HIDE DEF p
<1>5. Accepts(rs, g, p, n)
  BY <1>2, <1>3, <1>4, Zenon DEF Accepts, RangeError
<1> QED BY <1>2, <1>5 DEF p

(* m holds what the heap h holds below its end.                            *)
Keeps(m, h) == \A a \in 0..(h.brk - 1) : m[a] = h.mem[a]

LEMMA BlockKept ==
    ASSUME NEW h, HeapOK(h), NEW g, g.brk \in Int, h.brk <= g.brk,
           Keeps(g.mem, h),
           NEW p, NEW n, NEW b, BlockOK(h, p, n, b)
    PROVE  BlockOK(g, p, n, b)
<1>1. /\ p \in Int /\ n \in TraceSizes /\ n \in Nat \ {0} /\ SIZE_T_SIZE \in Nat \ {0}
      /\ SIZE_T_SIZE <= p /\ p + n <= h.brk /\ h.brk \in Int /\ MAX_HEAP \in Int
  BY SizeIsNat, HeaderSize, HeapAssumption DEF BlockOK, HeapOK
<1>2. p - SIZE_T_SIZE \in 0..(h.brk - 1) /\ \A j \in 0..(n - 1) : p + j \in 0..(h.brk - 1)
  BY <1>1
<1>3. p + n <= g.brk
  BY <1>1
<1> QED BY <1>1, <1>2, <1>3 DEF BlockOK, Keeps

(* The block a call has just returned, filled by eval_mm_valid, and those  *)
(* below it; m is the memory before memset.                                *)
LEMMA BlockFilled ==
    ASSUME NEW h, HeapOK(h), NEW n \in TraceSizes, ~CannotExtend(h, newsize(n)),
           NEW m, m = [a \in Addr |-> m[a]], m[h.brk] = n,
           Keeps(m, h),
           NEW b, NEW g, g.brk = h.brk + newsize(n),
           g.mem = memset(m, h.brk + SIZE_T_SIZE, b, n)
    PROVE  BlockOK(g, h.brk + SIZE_T_SIZE, n, b) /\ Keeps(g.mem, h)
<1> DEFINE p == h.brk + SIZE_T_SIZE
<1>1. /\ newsize(n) \in Nat /\ newsize(n) >= n + SIZE_T_SIZE /\ h.brk + newsize(n) <= MAX_HEAP
      /\ h.brk \in Nat /\ n \in Nat \ {0} /\ SIZE_T_SIZE \in Nat \ {0} /\ MAX_HEAP \in Nat
  BY MMMalloc, SizeIsNat, HeaderSize, HeapAssumption DEF HeapOK
<1>2. DOMAIN m = Addr
  OBVIOUS
<1>3. \A a \in Addr : g.mem[a] = IF a \in p..(p + n - 1) THEN b ELSE m[a]
  BY <1>2 DEF memset
<1>4. ASSUME NEW j \in 0..(n - 1) PROVE g.mem[p + j] = b
  <2>1. p + j \in Addr /\ p + j \in p..(p + n - 1)
    BY <1>1, SMTT(20) DEF Addr
  <2> QED BY <2>1, <1>3
<1>5. h.brk \in Addr /\ h.brk \notin p..(p + n - 1) /\ p - SIZE_T_SIZE = h.brk
  BY <1>1 DEF Addr
<1>6. g.mem[p - SIZE_T_SIZE] = n
  BY <1>3, <1>5
<1>7. ASSUME NEW a \in 0..(h.brk - 1) PROVE g.mem[a] = h.mem[a]
  <2>1. a \in Addr /\ a \notin p..(p + n - 1)
    BY <1>1 DEF Addr
  <2> QED BY <2>1, <1>3 DEF Keeps
<1>8. p \in Int /\ SIZE_T_SIZE <= p /\ p + n <= g.brk
  BY <1>1
<1> HIDE DEF p
<1>9. BlockOK(g, p, n, b)
  BY <1>4, <1>6, <1>8 DEF BlockOK
<1> QED BY <1>7, <1>9 DEF p, Keeps

(* A call of eval_mm_valid that mm.c serves and the driver takes.          *)
LEMMA BlocksTaken ==
    ASSUME Types, pc = "valid", More, op.type # "FREE", BlocksOK,
           ~CannotExtend(heap, newsize(op.size)),
           NEW m, m = [a \in Addr |-> m[a]], m[heap.brk] = op.size,
           Keeps(m, heap),
           heap'.brk = heap.brk + newsize(op.size), IS_ALIGNED(heap'.brk),
           heap'.mem = memset(m, heap.brk + SIZE_T_SIZE, LowByte(op.index), op.size),
           trace' = trace, Goes(heap.brk + SIZE_T_SIZE)
    PROVE  BlocksOK'
<1>1. /\ trace \in Traces /\ i \in Nat /\ i < Len(trace)
      /\ op.index \in Indices /\ op.size \in TraceSizes /\ HeapOK(heap)
  BY PassFacts DEF Passes, Types
<1> DEFINE x == op.index
           n == op.size
           p == heap.brk + SIZE_T_SIZE
<1>2. BlockOK(heap', p, n, LowByte(x)) /\ Keeps(heap'.mem, heap)
  <2>1. m[heap.brk] = n /\ heap'.brk = heap.brk + newsize(n) /\ ~CannotExtend(heap, newsize(n))
    OBVIOUS
  <2>2. heap'.mem = memset(m, p, LowByte(x), n) /\ n \in TraceSizes
    BY <1>1
  <2> HIDE DEF x, n
  <2> QED BY <1>1, <2>1, <2>2, BlockFilled
<1>3. heap'.brk \in Int /\ heap.brk <= heap'.brk
  BY <1>1, MMMalloc, HeapAssumption DEF HeapOK
<1>4. Held' = Held \cup {x}
  <2>1. HeldAfter(trace, i + 1) = Held \cup {x}
    BY <1>1, NextRequest
  <2> QED BY <2>1 DEF Held, Goes, NextOp
<1>5. /\ blocks' = [blocks EXCEPT ![x] = p] /\ block_sizes' = [block_sizes EXCEPT ![x] = n]
      /\ blocks = [y \in Indices |-> blocks[y]]
      /\ block_sizes = [y \in Indices |-> block_sizes[y]]
  BY DEF Goes, Remember, Types
<1> HIDE DEF x, n, p
<1>6. ASSUME NEW y \in Held'
      PROVE  BlockOK(heap', blocks'[y], block_sizes'[y], LowByte(y))
  <2>1. x \in Indices
    BY <1>1 DEF x
  <2>2. CASE y = x
    <3>1. blocks'[y] = p /\ block_sizes'[y] = n
      BY <1>5, <2>1, <2>2
    <3> QED BY <1>2, <2>2, <3>1
  <2>3. CASE y # x
    <3>1. y \in Held /\ blocks'[y] = blocks[y] /\ block_sizes'[y] = block_sizes[y]
      BY <1>4, <1>5, <2>3 DEF Held, HeldAfter
    <3>2. BlockOK(heap, blocks[y], block_sizes[y], LowByte(y))
      BY <3>1 DEF BlocksOK
    <3> QED BY <1>1, <1>2, <1>3, <3>1, <3>2, BlockKept
  <2> QED BY <2>2, <2>3
<1> QED BY <1>6 DEF BlocksOK

(* What a stop of eval_mm_valid leaves behind, if it is for one of the two *)
(* reasons.                                                                *)
Excused ==
    /\ pc' = "read" /\ setup' = setup /\ valid' = valid
    /\ \/ message' \in {"mm_malloc failed.", "mm_realloc failed."}
       \/ /\ message' = "did not preserve" /\ trace' = trace /\ i' = i
          /\ op.type = "REALLOC" /\ LowByte(op.index) >= 128

LEMMA Stop ==
    ASSUME Types, JudgedInv, Excused
    PROVE  JudgedInv'
<1>1. ~Arbitrary' => OnlyOutOfMemory'
  BY DEF Excused, OnlyOutOfMemory, op
<1> QED BY <1>1 DEF Excused, JudgedInv, Arbitrary, num_tracefiles, LaterPasses

LEMMA JudgedAlloc ==
    ASSUME Types, RangesInv, JudgedInv, ~Arbitrary, setup' = setup, ValidAlloc
    PROVE  JudgedInv'
<1>1. /\ pc = "valid" /\ More /\ op.type = "ALLOC" /\ trace' = trace /\ op.size \in TraceSizes
      /\ HeapOK(heap)
  BY PassFacts DEF ValidAlloc, Passes, Types
<1>2. BlocksOK /\ Contained(ranges, heap.brk) /\ Tracks(ranges, Held, blocks, block_sizes)
  BY <1>1 DEF JudgedInv, RangesInv
<1>3. PICK r \in MallocResults(heap, op.size) :
         \/ r.p = NULL /\ Stops("mm_malloc failed.")
         \/ r.p # NULL /\ ~Accepts(ranges, r.heap, r.p, op.size)
         \/ /\ r.p # NULL /\ Goes(r.p)
            /\ heap' = [r.heap EXCEPT !.mem = memset(@, r.p, LowByte(op.index), op.size)]
  BY Zenon DEF ValidAlloc, Accepts
<1>4. r = mm_malloc(heap, op.size)
  BY DEF MallocResults
<1>5. \/ CannotExtend(heap, newsize(op.size)) /\ r.p = NULL
      \/ ~CannotExtend(heap, newsize(op.size)) /\ r.p # NULL
  BY <1>1, MMCall
<1>6. CASE r.p = NULL
  <2>1. Stops("mm_malloc failed.")
    BY <1>3, <1>6
  <2> QED BY <2>1, Stop DEF Excused, Stops, malloc_error, NextTrace
<1>7. CASE r.p # NULL
  <2> DEFINE m == [heap.mem EXCEPT ![heap.brk] = op.size]
             g == [brk |-> heap.brk + newsize(op.size), mem |-> m]
  <2>1. /\ ~CannotExtend(heap, newsize(op.size)) /\ heap.brk \in Addr
        /\ r = [p |-> heap.brk + SIZE_T_SIZE, heap |-> g]
    BY <1>1, <1>4, <1>5, <1>7, MMMalloc
  <2>2. /\ m = [a \in Addr |-> m[a]] /\ m[heap.brk] = op.size
        /\ \A a \in 0..(heap.brk - 1) : m[a] = heap.mem[a]
    <3>1. heap.mem = [a \in Addr |-> heap.mem[a]] /\ heap.brk \in Nat /\ MAX_HEAP \in Nat
      BY <1>1, HeapAssumption DEF HeapOK
    <3>2. \A a \in 0..(heap.brk - 1) : a \in Addr /\ a # heap.brk
      BY <2>1, <3>1 DEF Addr
    <3> QED BY <2>1, <3>1, <3>2
  <2> HIDE DEF m
  <2>3. r.p = heap.brk + SIZE_T_SIZE /\ r.heap = g /\ g.brk = heap.brk + newsize(op.size) /\ g.mem = m
    BY <2>1
  <2> HIDE DEF g
  <2>4. Accepts(ranges, g, heap.brk + SIZE_T_SIZE, op.size) /\ IS_ALIGNED(g.brk)
    BY <1>1, <1>2, <2>1, <2>3, MMAccepted DEF BlocksOK
  <2>5. /\ heap' = [g EXCEPT !.mem = memset(@, heap.brk + SIZE_T_SIZE, LowByte(op.index), op.size)]
        /\ Goes(heap.brk + SIZE_T_SIZE)
    BY <1>3, <1>7, <2>3, <2>4
  <2>6. HeapOK(g)
    BY <1>1, <2>3, MallocOK DEF ResultOK
  <2>7. heap'.brk = g.brk /\ heap'.mem = memset(m, heap.brk + SIZE_T_SIZE, LowByte(op.index), op.size)
    BY <2>3, <2>5, <2>6, SetOK
  <2>8. Keeps(m, heap)
    BY <2>2 DEF Keeps
  <2>9. BlocksOK'
    BY <1>1, <1>2, <2>1, <2>2, <2>3, <2>4, <2>5, <2>7, <2>8, BlocksTaken
  <2> QED BY <1>1, <2>5, <2>9 DEF JudgedInv, Goes, Arbitrary, num_tracefiles, LaterPasses,
                                  OnlyOutOfMemory, RejectedLast
<1> QED BY <1>6, <1>7

(* mm_realloc's copy ends with the old block or the new one, whichever is  *)
(* smaller, and the old block holds its index in every byte.               *)
LEMMA Copied ==
    ASSUME Types, BlocksOK, NEW x \in Held, NEW n \in TraceSizes,
           ~CannotExtend(heap, newsize(n)),
           NEW m, m = [heap.mem EXCEPT ![heap.brk] = n],
           NEW c, c = memcpy(m, heap.brk + SIZE_T_SIZE, blocks[x],
                             copySize(mm_malloc(heap, n).heap, blocks[x], n))
    PROVE  /\ c = [a \in Addr |-> c[a]] /\ c[heap.brk] = n /\ Keeps(c, heap)
           /\ \A j \in 0..(n - 1) :
                 j < block_sizes[x] => c[heap.brk + SIZE_T_SIZE + j] = LowByte(x)
<1> DEFINE p == heap.brk + SIZE_T_SIZE
           q == blocks[x]
           old == block_sizes[x]
           len == IF n < old THEN n ELSE old
<1>1. HeapOK(heap) /\ BlockOK(heap, q, old, LowByte(x))
  BY DEF Types, BlocksOK
<1>2. /\ newsize(n) \in Nat /\ newsize(n) >= n + SIZE_T_SIZE /\ heap.brk + newsize(n) <= MAX_HEAP
      /\ heap.brk \in Nat /\ heap.brk \in Addr
      /\ n \in Nat \ {0} /\ SIZE_T_SIZE \in Nat \ {0} /\ MAX_HEAP \in Nat
      /\ mm_malloc(heap, n) =
            [p |-> p, heap |-> [brk |-> heap.brk + newsize(n), mem |-> m]]
  BY <1>1, MMMalloc, SizeIsNat, HeaderSize, HeapAssumption DEF HeapOK
<1>3. /\ q \in Int /\ old \in Nat \ {0} /\ SIZE_T_SIZE <= q /\ q + old <= heap.brk
      /\ heap.mem[q - SIZE_T_SIZE] = old
      /\ \A j \in 0..(old - 1) : heap.mem[q + j] = LowByte(x)
  BY <1>1, SizeIsNat DEF BlockOK
<1> HIDE DEF q, old
<1>4. m = [a \in Addr |-> m[a]] /\ m[heap.brk] = n /\ \A a \in 0..(heap.brk - 1) : m[a] = heap.mem[a]
  <2>1. heap.mem = [a \in Addr |-> heap.mem[a]]
    BY <1>1 DEF HeapOK
  <2>2. \A a \in 0..(heap.brk - 1) : a \in Addr /\ a # heap.brk
    BY <1>2 DEF Addr
  <2> QED BY <1>2, <2>1, <2>2
<1>5. copySize(mm_malloc(heap, n).heap, q, n) = len
  <2>1. q - SIZE_T_SIZE \in 0..(heap.brk - 1)
    BY <1>2, <1>3
  <2>2. m[q - SIZE_T_SIZE] = old
    BY <1>3, <1>4, <2>1
  <2>3. mm_malloc(heap, n).heap.mem = m
    BY <1>2
  <2> QED BY <2>2, <2>3 DEF copySize
<1>6. c = memcpy(m, p, q, len) /\ DOMAIN m = Addr
  BY <1>4, <1>5 DEF q
<1>7. /\ c = [a \in Addr |-> c[a]]
      /\ \A a \in Addr : c[a] = IF a \in p..(p + len - 1) THEN m[q + (a - p)] ELSE m[a]
  BY <1>6 DEF memcpy
<1>8. len \in Nat /\ len <= n /\ len <= old
  BY <1>2, <1>3
<1>9. c[heap.brk] = n
  BY <1>2, <1>4, <1>7, <1>8
<1>10. ASSUME NEW a \in 0..(heap.brk - 1) PROVE c[a] = heap.mem[a]
  <2>1. a \in Addr /\ a \notin p..(p + len - 1)
    BY <1>2, <1>8 DEF Addr
  <2> QED BY <2>1, <1>4, <1>7
<1>11. ASSUME NEW j \in 0..(n - 1), j < old PROVE c[p + j] = LowByte(x)
  <2>1. j < len
    BY <1>2, <1>3, <1>11
  <2>2. p + j \in Addr /\ p + j \in p..(p + len - 1) /\ q + ((p + j) - p) = q + j
    BY <1>2, <1>3, <1>8, <2>1 DEF Addr
  <2>3. c[p + j] = m[q + j]
    BY <1>7, <2>2
  <2>4. q + j \in 0..(heap.brk - 1) /\ j \in 0..(old - 1)
    BY <1>2, <1>3, <1>11
  <2> QED BY <1>3, <1>4, <2>3, <2>4
<1> HIDE DEF p
<1>12. Keeps(c, heap)
  BY <1>10 DEF Keeps
<1> QED BY <1>7, <1>9, <1>11, <1>12 DEF old, p

LEMMA JudgedRealloc ==
    ASSUME Types, RangesInv, JudgedInv, ~Arbitrary, setup' = setup, ValidRealloc
    PROVE  JudgedInv'
<1> DEFINE rs == remove_range(ranges, blocks[op.index])
<1>1. /\ pc = "valid" /\ More /\ op.type = "REALLOC" /\ trace' = trace
      /\ op.size \in TraceSizes /\ op.index \in Indices /\ HeapOK(heap)
  BY PassFacts DEF ValidRealloc, Passes, Types
<1>2. op.index \in Held
  BY <1>1, PassFacts, NextRequest DEF Passes
<1>3. /\ BlocksOK
      /\ Contained(rs, heap.brk) /\ Tracks(rs, Held \ {op.index}, blocks, block_sizes)
  <2>1. heap.brk \in Int
    BY DEF Types, HeapOK
  <2> QED BY <1>1, <1>2, <2>1, RangeRemoved DEF JudgedInv, RangesInv
<1>4. PICK r \in ReallocResults(heap, blocks[op.index], op.size) :
         \/ r.p = NULL /\ Stops("mm_realloc failed.")
         \/ r.p # NULL /\ ~Accepts(rs, r.heap, r.p, op.size)
         \/ /\ r.p # NULL /\ Preserved(r.heap.mem, r.p) /\ Goes(r.p)
            /\ heap' = [r.heap EXCEPT !.mem = memset(@, r.p, LowByte(op.index), op.size)]
         \/ r.p # NULL /\ ~Preserved(r.heap.mem, r.p) /\ Stops("did not preserve")
  BY Zenon DEF ValidRealloc, Accepts
<1> HIDE DEF rs
<1>5. r = mm_realloc(heap, blocks[op.index], op.size)
  BY DEF ReallocResults
<1>6. \/ CannotExtend(heap, newsize(op.size)) /\ r.p = NULL
      \/ ~CannotExtend(heap, newsize(op.size)) /\ r.p # NULL
  BY <1>1, MMCall
<1>7. CASE r.p = NULL
  <2>1. Stops("mm_realloc failed.")
    BY <1>4, <1>7
  <2> QED BY <2>1, Stop DEF Excused, Stops, malloc_error, NextTrace
<1>8. CASE r.p # NULL
  <2> DEFINE m == [heap.mem EXCEPT ![heap.brk] = op.size]
             c == memcpy(m, heap.brk + SIZE_T_SIZE, blocks[op.index],
                         copySize(mm_malloc(heap, op.size).heap, blocks[op.index], op.size))
             g == [brk |-> heap.brk + newsize(op.size), mem |-> c]
  <2>1. /\ ~CannotExtend(heap, newsize(op.size))
        /\ r = [p |-> heap.brk + SIZE_T_SIZE, heap |-> g]
    BY <1>1, <1>5, <1>6, <1>8, MMRealloc
  <2>2. /\ c = [a \in Addr |-> c[a]] /\ c[heap.brk] = op.size /\ Keeps(c, heap)
        /\ \A j \in 0..(op.size - 1) :
              j < block_sizes[op.index] => c[heap.brk + SIZE_T_SIZE + j] = LowByte(op.index)
    BY <1>1, <1>2, <1>3, <2>1, Copied
  <2> HIDE DEF m, c
  <2>3. r.p = heap.brk + SIZE_T_SIZE /\ r.heap = g /\ g.brk = heap.brk + newsize(op.size) /\ g.mem = c
    BY <2>1
  <2> HIDE DEF g
  <2>4. Accepts(rs, g, heap.brk + SIZE_T_SIZE, op.size) /\ IS_ALIGNED(g.brk)
    BY <1>1, <1>3, <2>1, <2>3, MMAccepted DEF BlocksOK
  <2>5. CASE ~Preserved(c, heap.brk + SIZE_T_SIZE) /\ Stops("did not preserve")
    <3>1. PICK j \in 0..(op.size - 1) :
             j < block_sizes[op.index] /\ Char(c[heap.brk + SIZE_T_SIZE + j]) # LowByte(op.index)
      BY <2>5 DEF Preserved
    <3>2. Char(LowByte(op.index)) # LowByte(op.index)
      BY <2>2, <3>1
    <3>3. LowByte(op.index) \in Int
      <4>1. op.index \in Nat
        BY <1>1, DriverAssumption
      <4>2. \A x \in Nat : LowByte(x) \in Int
        BY DEF LowByte
      <4> QED BY <4>1, <4>2
    <3>4. LowByte(op.index) >= 128
      BY <3>2, <3>3 DEF Char
    <3> QED BY <1>1, <2>5, <3>4, Stop DEF Excused, Stops, malloc_error, NextTrace
  <2>6. CASE /\ Goes(heap.brk + SIZE_T_SIZE)
             /\ heap' = [g EXCEPT !.mem = memset(@, heap.brk + SIZE_T_SIZE, LowByte(op.index), op.size)]
    <3>1. HeapOK(g)
      BY <1>1, <2>3, ReallocOK DEF ResultOK
    <3>2. /\ heap'.brk = g.brk
          /\ heap'.mem = memset(c, heap.brk + SIZE_T_SIZE, LowByte(op.index), op.size)
      BY <2>3, <2>6, <3>1, SetOK
    <3>3. BlocksOK'
      BY <1>1, <1>3, <2>1, <2>2, <2>3, <2>4, <2>6, <3>2, BlocksTaken
    <3> QED BY <1>1, <2>6, <3>3 DEF JudgedInv, Goes, Arbitrary, num_tracefiles, LaterPasses,
                                    OnlyOutOfMemory, RejectedLast
  <2> QED BY <1>4, <1>8, <2>3, <2>4, <2>5, <2>6
<1> QED BY <1>7, <1>8

LEMMA NextJudged == Types /\ RangesInv /\ JudgedInv /\ [Next]_vars => JudgedInv'
<1> SUFFICES ASSUME Types, RangesInv, JudgedInv, [Next]_vars, ~Arbitrary' PROVE JudgedInv'
  BY DEF JudgedInv
<1>0. setup' = setup /\ ~Arbitrary
  BY DEF Next, vars, Arbitrary
<1>1. /\ valid = [t \in 1..num_tracefiles |-> valid[t]]
      /\ pc \in LaterPasses => valid[tracenum] = TRUE
      /\ pc = "valid" => BlocksOK
      /\ OnlyOutOfMemory
      /\ num_tracefiles' = num_tracefiles
  BY <1>0 DEF JudgedInv, num_tracefiles
<1>2. CASE UNCHANGED vars
  BY <1>0, <1>1, <1>2 DEF vars, JudgedInv, BlocksOK, Held, OnlyOutOfMemory, RejectedLast,
                          op, Arbitrary
<1>3. CASE ReadTrace \/ Finish \/ Exited
  <2>1. \/ UNCHANGED vars
        \/ UNCHANGED <<tracenum, valid>> /\ pc' \in {"start valid", "done"}
    BY <1>3 DEF ReadTrace, Finish, Exited
  <2>2. CASE pc' \in {"start valid", "done"} /\ UNCHANGED <<tracenum, valid>>
    BY <1>0, <1>1, <2>2 DEF JudgedInv, LaterPasses, OnlyOutOfMemory, RejectedLast
  <2> QED BY <1>2, <2>1, <2>2
<1>4. CASE StartValid
  <2>1. /\ pc' = "valid" /\ heap' = mm_init(mem_reset_brk(heap)) /\ i' = 0 /\ trace' = trace
        /\ UNCHANGED valid
    BY <1>0, <1>4 DEF StartValid, InitFails
  <2>2. Held' = {}
    BY <2>1, NothingHeld DEF Held
  <2>3. IS_ALIGNED(heap'.brk)
    <3>1. heap'.brk = 0
      BY <2>1, Emptied DEF Types
    <3>2. 0 % ALIGNMENT = 0
      BY HeapAssumption
    <3> QED BY <3>1, <3>2 DEF IS_ALIGNED
  <2>4. BlocksOK'
    BY <2>2, <2>3 DEF BlocksOK
  <2> QED BY <1>0, <1>1, <2>1, <2>4 DEF JudgedInv, LaterPasses, OnlyOutOfMemory, RejectedLast
<1>5. CASE ValidAlloc
  BY <1>0, <1>5, JudgedAlloc
<1>6. CASE ValidRealloc
  BY <1>0, <1>6, JudgedRealloc
<1>7. CASE ValidFree
  <2>1. /\ pc = "valid" /\ pc' = pc /\ More /\ op.type = "FREE" /\ trace' = trace
        /\ i' = i + 1 /\ heap' = heap /\ UNCHANGED <<valid, tracenum, blocks, block_sizes>>
    BY <1>7 DEF ValidFree, mm_free, NextOp
  <2>2. Held' \subseteq Held
    <3>1. HeldAfter(trace, i + 1) = Held \ {op.index}
      BY <2>1, PassFacts, NextRequest DEF Passes
    <3> QED BY <2>1, <3>1 DEF Held
  <2>3. BlocksOK'
    BY <1>1, <2>1, <2>2 DEF BlocksOK
  <2> QED BY <1>0, <1>1, <2>1, <2>3 DEF JudgedInv, LaterPasses, OnlyOutOfMemory, RejectedLast
<1>8. CASE ValidEnd
  <2>1. /\ pc = "valid" /\ pc' = "start util" /\ tracenum' = tracenum
        /\ valid' = [valid EXCEPT ![tracenum] = TRUE]
    BY <1>8 DEF ValidEnd
  <2>2. tracenum \in 1..num_tracefiles
    <3>1. setup \in [package : {"mm.c", "any"}, num_tracefiles : Nat, repeats : Nat \ {0}]
      BY DriverAssumption DEF Types
    <3>2. num_tracefiles \in Nat
      BY <3>1 DEF num_tracefiles
    <3>3. tracenum \in Nat \ {0} /\ tracenum <= num_tracefiles
      BY <2>1 DEF Types, Passes
    <3> QED BY <3>2, <3>3
  <2>3. valid'[tracenum'] = TRUE /\ valid' = [t \in 1..num_tracefiles |-> valid'[t]]
    BY <1>1, <2>1, <2>2
  <2> QED BY <1>0, <1>1, <2>1, <2>3 DEF JudgedInv, OnlyOutOfMemory, RejectedLast
<1>9. CASE StartUtil \/ StartSpeed \/ UtilEnd
  <2>1. pc' \in LaterPasses /\ pc \in LaterPasses /\ UNCHANGED <<valid, tracenum>>
    BY <1>0, <1>9 DEF StartUtil, StartSpeed, UtilEnd, ResetForPass, InitFails, LaterPasses
  <2> QED BY <1>0, <1>1, <2>1 DEF JudgedInv, LaterPasses, OnlyOutOfMemory, RejectedLast
<1>10. CASE UtilAlloc \/ UtilRealloc \/ UtilFree \/ SpeedAlloc \/ SpeedRealloc \/ SpeedFree
  <2>1. pc \in LaterPasses /\ pc' \in {pc, "exit"} /\ UNCHANGED <<valid, tracenum>>
    BY <1>10 DEF UtilAlloc, UtilRealloc, UtilFree, SpeedAlloc, SpeedRealloc, SpeedFree,
                 SpeedCall, Goes, app_error, LaterPasses
  <2> QED BY <1>0, <1>1, <2>1 DEF JudgedInv, LaterPasses, OnlyOutOfMemory, RejectedLast
<1>11. CASE SpeedEnd
  <2>1. /\ pc \in LaterPasses /\ UNCHANGED valid /\ tracenum \in Nat
        /\ \/ pc' = "start speed" /\ tracenum' = tracenum
           \/ pc' = "read" /\ tracenum' = tracenum + 1
    BY <1>11 DEF SpeedEnd, NextTrace, LaterPasses, Types
  <2>2. ~RejectedLast'
    <3>1. pc' = "read" => tracenum' - 1 = tracenum
      BY <2>1
    <3> QED BY <1>1, <2>1, <3>1 DEF RejectedLast
  <2> QED BY <1>0, <1>1, <2>1, <2>2 DEF JudgedInv, LaterPasses, OnlyOutOfMemory
<1> QED BY <1>2, <1>3, <1>4, <1>5, <1>6, <1>7, <1>8, <1>9, <1>10, <1>11 DEF Next

(* mdriver.c:571-679: of mm.c, eval_mm_valid complains only when the heap  *)
(* is too small for the trace or when the char it reads back is negative:  *)
(* mm.c keeps every block aligned, in the heap, apart and intact.          *)
THEOREM JudgesMM == Spec => []OnlyOutOfMemory
<1>1. Init => Types /\ RangesInv /\ JudgedInv
  <2> SUFFICES ASSUME Init PROVE Types /\ RangesInv /\ JudgedInv
    OBVIOUS
  <2>1. pc = "read" /\ tracenum = 1 /\ valid = [t \in 1..num_tracefiles |-> FALSE]
    BY Zenon DEF Init
  <2>2. JudgedInv
    BY <2>1 DEF JudgedInv, LaterPasses, OnlyOutOfMemory, RejectedLast
  <2>3. RangesInv
    BY <2>1 DEF RangesInv
  <2> QED BY <2>2, <2>3, InitTypes
<1>2. JudgedInv => OnlyOutOfMemory
  BY DEF JudgedInv, OnlyOutOfMemory
<1> QED BY <1>1, <1>2, NextTypes, NextRanges, NextJudged, PTL DEF Spec
-------------------------------------------------------------------------------
(* eval_mm_util adds up what the trace asks for: block_sizes[x] is the     *)
(* size of the last request about x, request k.                            *)
LastAbout(n, x, k) ==
    /\ k \in 1..n /\ trace[k].index = x
    /\ \A l \in (k + 1)..n : trace[l].index # x

SizesKept(n, sizes) ==
    \A x \in HeldAfter(trace, n) : \E k \in 1..n :
        /\ LastAbout(n, x, k)
        /\ sizes[x] = trace[k].size /\ sizes[x] \in TraceSizes

(* m is the largest demand of the first n requests.                        *)
Peak(n, m) ==
    /\ m \in Nat
    /\ \A j \in 0..n : Demand(j) \in Nat /\ Demand(j) <= m
    /\ \E j \in 0..n : Demand(j) = m

UtilInv ==
    /\ pc = "util" =>
          /\ SizesKept(i, block_sizes)
          /\ IsFiniteSet(Payloads(Held, block_sizes))
          /\ total_size = Cardinality(Payloads(Held, block_sizes))
          /\ Peak(i, max_total_size)
    /\ pc \in {"start speed", "speed"} => Peak(Len(trace), max_total_size)

LEMMA LastSizeIs ==
    ASSUME NEW n \in Nat, NEW x, NEW k, LastAbout(n, x, k)
    PROVE  LastSize(n, x) = trace[k].size
<1> DEFINE P(j) == trace[j].index = x /\ \A l \in (j + 1)..n : trace[l].index # x
           c == CHOOSE j \in 1..n : P(j)
<1>1. k \in 1..n /\ P(k)
  BY DEF LastAbout
<1>2. c \in 1..n /\ P(c)
  BY <1>1
<1>3. ~(c < k)
  <2> SUFFICES ASSUME c < k PROVE FALSE
    OBVIOUS
  <2>1. k \in (c + 1)..n
    BY <1>1, <1>2
  <2> QED BY <2>1, <1>1, <1>2
<1>4. ~(k < c)
  <2> SUFFICES ASSUME k < c PROVE FALSE
    OBVIOUS
  <2>1. c \in (k + 1)..n
    BY <1>1, <1>2
  <2> QED BY <2>1, <1>1, <1>2
<1>5. LastSize(n, x) = trace[c].size
  BY DEF LastSize
<1> HIDE DEF c, P
<1>6. c = k
  BY <1>1, <1>2, <1>3, <1>4
<1> QED BY <1>5, <1>6

(* The payloads of a set of blocks depend on the sizes of these only.      *)
LEMMA SamePayloads ==
    ASSUME NEW S, NEW y, NEW z, \A x \in S : y[x] = z[x]
    PROVE  Payloads(S, y) = Payloads(S, z)
<1>1. {{x} \X (1..y[x]) : x \in S} = {{x} \X (1..z[x]) : x \in S}
  OBVIOUS
<1> QED BY <1>1 DEF Payloads

(* So the driver's sum is what the trace asks for.                         *)
LEMMA DemandIs ==
    ASSUME NEW n \in Nat, NEW y, SizesKept(n, y)
    PROVE  Demand(n) = Cardinality(Payloads(HeldAfter(trace, n), y))
<1> DEFINE z == [x \in Indices |-> LastSize(n, x)]
<1>1. ASSUME NEW x \in HeldAfter(trace, n) PROVE z[x] = y[x]
  <2>1. x \in Indices
    BY DEF HeldAfter
  <2>2. PICK k \in 1..n : LastAbout(n, x, k) /\ y[x] = trace[k].size
    BY DEF SizesKept
  <2>3. LastSize(n, x) = trace[k].size
    BY <2>2, LastSizeIs
  <2> QED BY <2>1, <2>2, <2>3
<1>2. Demand(n) = Cardinality(Payloads(HeldAfter(trace, n), z))
  BY DEF Demand
<1> HIDE DEF z
<1>3. Payloads(HeldAfter(trace, n), z) = Payloads(HeldAfter(trace, n), y)
  BY <1>1, SamePayloads
<1> QED BY <1>2, <1>3

(* A block more, and a block less.                                         *)
LEMMA PayloadOf ==
    ASSUME NEW x, NEW n \in Nat
    PROVE  IsFiniteSet({x} \X (1..n)) /\ Cardinality({x} \X (1..n)) = n
<1>1. IsFiniteSet({x}) /\ Cardinality({x}) = 1
  BY FS_Singleton
<1>2. IsFiniteSet(1..n) /\ Cardinality(1..n) = n
  BY FS_Interval
<1>3. /\ IsFiniteSet({x} \X (1..n))
      /\ Cardinality({x} \X (1..n)) = Cardinality({x}) * Cardinality(1..n)
  BY <1>1, <1>2, FS_Product
<1> QED BY <1>1, <1>2, <1>3

LEMMA MorePayloads ==
    ASSUME NEW S, NEW z, NEW x, x \notin S, z[x] \in Nat, IsFiniteSet(Payloads(S, z))
    PROVE  /\ IsFiniteSet(Payloads(S \cup {x}, z))
           /\ Cardinality(Payloads(S \cup {x}, z)) = Cardinality(Payloads(S, z)) + z[x]
<1> DEFINE A == Payloads(S, z)
           B == {x} \X (1..z[x])
<1>1. Payloads(S \cup {x}, z) = A \cup B
  BY DEF Payloads
<1>2. A \cap B = {}
  <2> SUFFICES ASSUME NEW e \in A, e \in B PROVE FALSE
    OBVIOUS
  <2>1. PICK y \in S : e \in {y} \X (1..z[y])
    BY DEF Payloads
  <2>2. e[1] = y /\ e[1] = x
    BY <2>1
  <2> QED BY <2>1, <2>2
<1>3. IsFiniteSet(B) /\ Cardinality(B) = z[x]
  BY PayloadOf
<1> HIDE DEF A, B
<1>4. IsFiniteSet(A)
  BY DEF A
<1>5. /\ IsFiniteSet(A \cup B)
      /\ Cardinality(A \cup B) = Cardinality(A) + Cardinality(B) - Cardinality(A \cap B)
  BY <1>3, <1>4, FS_Union
<1>6. Cardinality(A \cap B) = 0 /\ Cardinality(A) \in Nat
  BY <1>2, <1>4, FS_EmptySet, FS_CardinalityType
<1>7. Cardinality(A \cup B) = Cardinality(A) + z[x]
  BY <1>3, <1>5, <1>6
<1> QED BY <1>1, <1>5, <1>7 DEF A

LEMMA FewerPayloads ==
    ASSUME NEW S, NEW z, NEW x \in S, z[x] \in Nat, IsFiniteSet(Payloads(S, z))
    PROVE  /\ IsFiniteSet(Payloads(S \ {x}, z))
           /\ Cardinality(Payloads(S \ {x}, z)) = Cardinality(Payloads(S, z)) - z[x]
<1>1. Payloads(S \ {x}, z) \subseteq Payloads(S, z)
  BY DEF Payloads
<1>2. IsFiniteSet(Payloads(S \ {x}, z))
  BY <1>1, FS_Subset
<1>3. (S \ {x}) \cup {x} = S /\ x \notin S \ {x}
  OBVIOUS
<1>4. Cardinality(Payloads(S, z)) = Cardinality(Payloads(S \ {x}, z)) + z[x]
  BY <1>2, <1>3, MorePayloads
<1>5. Cardinality(Payloads(S \ {x}, z)) \in Nat
  BY <1>2, FS_CardinalityType
<1> QED BY <1>2, <1>4, <1>5

Adds(S, y, x, z) ==
    /\ IsFiniteSet(Payloads(S \cup {x}, z))
    /\ Cardinality(Payloads(S \cup {x}, z)) = Cardinality(Payloads(S, y)) + z[x]

LEMMA OtherPayloads ==
    ASSUME NEW S, NEW x, x \notin S, NEW y, IsFiniteSet(Payloads(S, y)),
           NEW z, z[x] \in Nat, \A a \in S : z[a] = y[a]
    PROVE  Adds(S, y, x, z)
<1>1. Payloads(S, z) = Payloads(S, y)
  BY SamePayloads
<1> QED BY <1>1, MorePayloads DEF Adds

(* The next request leaves the last one about every other block.           *)
LEMMA NextSizes ==
    ASSUME trace \in Traces, i \in Nat, i < Len(trace), SizesKept(i, block_sizes),
           block_sizes = [x \in Indices |-> block_sizes[x]],
           NEW z, IF op.type = "FREE" THEN z = block_sizes
                  ELSE z = [block_sizes EXCEPT ![op.index] = op.size]
    PROVE  SizesKept(i + 1, z)
<1>1. /\ op.index \in Indices /\ (op.type # "FREE" => op.size \in TraceSizes)
      /\ HeldAfter(trace, i + 1) =
            IF op.type = "FREE" THEN Held \ {op.index} ELSE Held \cup {op.index}
  BY NextRequest
<1>2. SUFFICES ASSUME NEW x \in HeldAfter(trace, i + 1)
               PROVE  \E k \in 1..(i + 1) :
                         /\ LastAbout(i + 1, x, k)
                         /\ z[x] = trace[k].size /\ z[x] \in TraceSizes
  BY DEF SizesKept
<1>3. CASE x = op.index
  <2>1. op.type # "FREE"
    BY <1>1, <1>3
  <2>2. i + 1 \in 1..(i + 1) /\ ((i + 1) + 1)..(i + 1) = {}
    OBVIOUS
  <2>3. LastAbout(i + 1, x, i + 1)
    BY <1>3, <2>2 DEF LastAbout, op
  <2>4. z[x] = op.size
    BY <1>1, <1>3, <2>1
  <2> QED BY <1>1, <2>1, <2>2, <2>3, <2>4 DEF op
<1>4. CASE x # op.index
  <2>1. x \in Held /\ x \in Indices
    BY <1>1, <1>4 DEF Held, HeldAfter
  <2>2. PICK k \in 1..i : /\ LastAbout(i, x, k)
                          /\ block_sizes[x] = trace[k].size /\ block_sizes[x] \in TraceSizes
    BY <2>1 DEF SizesKept, Held
  <2>3. k \in 1..(i + 1) /\ (k + 1)..(i + 1) = ((k + 1)..i) \cup {i + 1}
    OBVIOUS
  <2>4. LastAbout(i + 1, x, k)
    BY <1>4, <2>2, <2>3 DEF LastAbout, op
  <2>5. z[x] = block_sizes[x]
    BY <1>4, <2>1
  <2> QED BY <2>2, <2>3, <2>4, <2>5
<1> QED BY <1>3, <1>4

(* The sum after a request: what Total and UtilFree assign.                *)
Sum(old) == IF op.type = "FREE" THEN old - block_sizes[op.index]
            ELSE IF op.type = "ALLOC" THEN old + op.size
            ELSE old + Growth

LEMMA NextSum ==
    ASSUME trace \in Traces, i \in Nat, i < Len(trace), SizesKept(i, block_sizes),
           block_sizes = [x \in Indices |-> block_sizes[x]],
           IsFiniteSet(Payloads(Held, block_sizes)),
           NEW z, IF op.type = "FREE" THEN z = block_sizes
                  ELSE z = [block_sizes EXCEPT ![op.index] = op.size]
    PROVE  /\ IsFiniteSet(Payloads(HeldAfter(trace, i + 1), z))
           /\ Cardinality(Payloads(HeldAfter(trace, i + 1), z)) =
                 Sum(Cardinality(Payloads(Held, block_sizes)))
           /\ op.type = "FREE" => Sum(Cardinality(Payloads(Held, block_sizes)))
                                    <= Cardinality(Payloads(Held, block_sizes))
<1> DEFINE x == op.index
           S == Held
           b == block_sizes
           A == Payloads(S, b)
           R == S \ {x}
<1>1. /\ x \in Indices /\ (op.type # "FREE" => op.size \in TraceSizes)
      /\ op.type \in {"ALLOC", "REALLOC", "FREE"} /\ (op.type = "ALLOC" <=> x \notin S)
      /\ HeldAfter(trace, i + 1) = IF op.type = "FREE" THEN S \ {x} ELSE S \cup {x}
  BY NextRequest
<1>2. x \in S => b[x] \in TraceSizes /\ b[x] \in Nat
  <2>1. x \in S => b[x] \in TraceSizes
    BY DEF SizesKept, Held
  <2> QED BY <2>1, SizeIsNat
<1>3. op.type # "FREE" => op.size \in Nat
  BY <1>1, SizeIsNat
<1>4. IsFiniteSet(A) /\ Cardinality(A) \in Nat
  BY FS_CardinalityType
<1> DEFINE c == Cardinality(A)
<1>5. /\ IsFiniteSet(Payloads(R, b))
      /\ Cardinality(Payloads(R, b)) = IF x \in S THEN c - b[x] ELSE c
  <2>1. CASE x \in S
    <3> HIDE DEF S, x, b
    <3>1. /\ IsFiniteSet(Payloads(S \ {x}, b))
          /\ Cardinality(Payloads(S \ {x}, b)) = Cardinality(Payloads(S, b)) - b[x]
      BY <1>2, <1>4, <2>1, FewerPayloads
    <3> QED BY <2>1, <3>1
  <2>2. CASE x \notin S
    <3>1. R = S
      BY <2>2
    <3> QED BY <1>4, <2>2, <3>1
  <2> QED BY <2>1, <2>2
<1>6. CASE op.type = "FREE"
  <2>1. x \in S /\ HeldAfter(trace, i + 1) = R /\ z = b
    BY <1>1, <1>6
  <2>2. Sum(c) = c - b[x]
    BY <1>6 DEF Sum
  <2> HIDE DEF A
  <2>3. c - b[x] <= c
    BY <1>2, <1>4, <2>1
  <2> QED BY <1>5, <2>1, <2>2, <2>3 DEF A
<1>7. CASE op.type # "FREE"
  <2>1. HeldAfter(trace, i + 1) = R \cup {x} /\ x \notin R
    BY <1>1, <1>7
  <2>2. z[x] = op.size /\ \A y \in R : z[y] = b[y]
    <3>1. z = [b EXCEPT ![x] = op.size]
      BY <1>7
    <3>2. R \subseteq Indices
      BY DEF Held, HeldAfter
    <3> QED BY <1>1, <3>1, <3>2
  <2>3. z[x] \in Nat
    BY <1>3, <1>7, <2>2
  <2>4. /\ IsFiniteSet(Payloads(R \cup {x}, z))
        /\ Cardinality(Payloads(R \cup {x}, z)) = Cardinality(Payloads(R, b)) + z[x]
    <3> HIDE DEF R, x, A, S, b
    <3>1. Adds(R, b, x, z)
      BY <1>5, <2>1, <2>2, <2>3, OtherPayloads
    <3> QED BY <3>1 DEF Adds
  <2>5. Sum(c) = IF x \in S THEN c + (op.size - b[x]) ELSE c + op.size
    BY <1>1, <1>7 DEF Sum, Growth
  <2> HIDE DEF A, R, S, x, b
  <2>6. Cardinality(Payloads(R, b)) + z[x] = Sum(c)
    BY <1>2, <1>3, <1>4, <1>5, <1>7, <2>2, <2>5
  <2> QED BY <1>7, <2>1, <2>4, <2>6 DEF A, R, S, x, b
<1> QED BY <1>6, <1>7

LEMMA NextPeak ==
    ASSUME NEW n \in Nat, NEW m, Peak(n, m), Demand(n + 1) \in Nat
    PROVE  Peak(n + 1, IF Demand(n + 1) > m THEN Demand(n + 1) ELSE m)
<1>1. 0..(n + 1) = 0..n \cup {n + 1}
  OBVIOUS
<1>2. /\ m \in Nat /\ \A j \in 0..n : Demand(j) \in Nat /\ Demand(j) <= m
      /\ \E j \in 0..n : Demand(j) = m
  BY DEF Peak
<1> DEFINE d == Demand(n + 1)
           k == IF d > m THEN d ELSE m
<1>3. k \in Nat /\ m <= k /\ d <= k
  BY <1>2
<1>4. \A j \in 0..(n + 1) : Demand(j) \in Nat /\ Demand(j) <= k
  <2> SUFFICES ASSUME NEW j \in 0..(n + 1) PROVE Demand(j) \in Nat /\ Demand(j) <= k
    OBVIOUS
  <2>1. CASE j \in 0..n
    <3>1. Demand(j) \in Nat /\ Demand(j) <= m
      BY <1>2, <2>1
    <3> HIDE DEF k
    <3> QED BY <1>2, <1>3, <3>1
  <2>2. CASE j = n + 1
    BY <1>3, <2>2
  <2> QED BY <1>1, <2>1, <2>2
<1>5. \E j \in 0..(n + 1) : Demand(j) = k
  <2>1. CASE d > m
    BY <1>1, <2>1
  <2>2. CASE ~(d > m)
    BY <1>1, <1>2, <2>2
  <2> QED BY <2>1, <2>2
<1> HIDE DEF k
<1>6. Peak(n + 1, k)
  BY <1>3, <1>4, <1>5 DEF Peak
<1> QED BY <1>6 DEF k

(* A trace asks for the same as long as it stays.                          *)
LEMMA SameDemand ==
    ASSUME trace' = trace
    PROVE  \A n : Demand(n)' = Demand(n)
<1> TAKE n
<1>1. \A x : LastSize(n, x)' = LastSize(n, x)
  BY DEF LastSize
<1>2. HeldAfter(trace, n)' = HeldAfter(trace, n)
  BY DEF HeldAfter
<1> QED BY <1>1, <1>2, ZenonT(40) DEF Demand, Payloads

(* A request of eval_mm_util that is served.                               *)
LEMMA UtilCall ==
    ASSUME Types, UtilInv, pc = "util", More, pc' = "util", trace' = trace, i' = i + 1,
           IF op.type = "FREE" THEN UNCHANGED block_sizes
           ELSE block_sizes' = [block_sizes EXCEPT ![op.index] = op.size],
           total_size' = Sum(total_size),
           IF op.type = "FREE" THEN UNCHANGED max_total_size
           ELSE max_total_size' = IF total_size' > max_total_size THEN total_size'
                                  ELSE max_total_size
    PROVE  UtilInv'
<1> DEFINE z == block_sizes'
           H == HeldAfter(trace, i + 1)
<1>1. /\ trace \in Traces /\ i \in Nat /\ i < Len(trace) /\ i + 1 \in Nat
      /\ block_sizes = [x \in Indices |-> block_sizes[x]]
  BY PassFacts DEF Types, Passes
<1>2. /\ SizesKept(i, block_sizes) /\ IsFiniteSet(Payloads(Held, block_sizes))
      /\ total_size = Cardinality(Payloads(Held, block_sizes))
      /\ Peak(i, max_total_size)
  BY DEF UtilInv
<1>3. IF op.type = "FREE" THEN z = block_sizes
      ELSE z = [block_sizes EXCEPT ![op.index] = op.size]
  OBVIOUS
<1>4. /\ SizesKept(i + 1, z) /\ IsFiniteSet(Payloads(H, z))
      /\ Cardinality(Payloads(H, z)) = total_size'
      /\ op.type = "FREE" => total_size' <= total_size
  <2> HIDE DEF z
  <2> QED BY <1>1, <1>2, <1>3, NextSizes, NextSum
<1>5. Demand(i + 1) = total_size' /\ total_size' \in Nat
  <2> HIDE DEF z
  <2> QED BY <1>1, <1>4, DemandIs, FS_CardinalityType
<1>6. Demand(i) = total_size
  BY <1>1, <1>2, DemandIs DEF Held
<1>7. Peak(i + 1, max_total_size')
  <2>1. Peak(i + 1, IF total_size' > max_total_size THEN total_size' ELSE max_total_size)
    BY <1>1, <1>2, <1>5, NextPeak
  <2>2. CASE op.type = "FREE"
    <3>1. total_size <= max_total_size /\ max_total_size \in Nat /\ total_size \in Nat
      BY <1>1, <1>2, <1>6 DEF Peak
    <3>2. ~(total_size' > max_total_size)
      BY <1>4, <1>5, <2>2, <3>1
    <3> QED BY <2>1, <2>2, <3>2
  <2>3. CASE op.type # "FREE"
    BY <2>1, <2>3
  <2> QED BY <2>2, <2>3
<1>8. Held' = H
  BY DEF Held, HeldAfter
<1>9. SizesKept(i, block_sizes)'
  BY <1>4 DEF SizesKept, LastAbout, HeldAfter
<1>10. Payloads(Held, block_sizes)' = Payloads(H, z)
  BY <1>8 DEF Payloads
<1>11. Peak(i, max_total_size)'
  BY <1>7, SameDemand DEF Peak
<1> QED BY <1>4, <1>9, <1>10, <1>11 DEF UtilInv

(* Before its first request a trace asks for nothing.                      *)
LEMMA PeakAtStart ==
    /\ Peak(0, 0)
    /\ \A z : /\ SizesKept(0, z) /\ IsFiniteSet(Payloads(HeldAfter(trace, 0), z))
              /\ Cardinality(Payloads(HeldAfter(trace, 0), z)) = 0
<1>1. \A z : Payloads(HeldAfter(trace, 0), z) = {}
  BY NothingHeld DEF Payloads
<1>2. IsFiniteSet({}) /\ Cardinality({}) = 0
  BY FS_EmptySet
<1>3. \A z : SizesKept(0, z)
  BY NothingHeld DEF SizesKept
<1>4. Demand(0) = 0
  BY <1>1, <1>2 DEF Demand
<1>5. 0..0 = {0}
  OBVIOUS
<1> QED BY <1>1, <1>2, <1>3, <1>4, <1>5 DEF Peak

LEMMA NextUtil == Types /\ UtilInv /\ [Next]_vars => UtilInv'
<1> SUFFICES ASSUME Types, UtilInv, [Next]_vars PROVE UtilInv'
  OBVIOUS
<1>1. CASE UNCHANGED vars
  <2>1. /\ pc' = pc /\ i' = i /\ trace' = trace /\ block_sizes' = block_sizes
        /\ total_size' = total_size /\ max_total_size' = max_total_size
    BY <1>1 DEF vars
  <2>3. Peak(i, max_total_size) => Peak(i, max_total_size)'
    BY <2>1, SameDemand DEF Peak
  <2>4. Peak(Len(trace), max_total_size) => Peak(Len(trace), max_total_size)'
    BY <2>1, SameDemand DEF Peak
  <2>5. SizesKept(i, block_sizes) => SizesKept(i, block_sizes)'
    BY <2>1 DEF SizesKept, LastAbout, HeldAfter
  <2>6. Payloads(Held, block_sizes)' = Payloads(Held, block_sizes)
    BY <2>1 DEF Payloads, Held, HeldAfter
  <2> QED BY <2>1, <2>3, <2>4, <2>5, <2>6 DEF UtilInv
<1>2. CASE \/ ReadTrace \/ Finish \/ Exited \/ StartValid
           \/ ValidAlloc \/ ValidRealloc \/ ValidFree \/ ValidEnd
  <2>1. pc' \notin {"util", "start speed", "speed"}
    <3>1. CASE Exited
      BY <3>1 DEF Exited, vars
    <3>2. CASE ReadTrace \/ Finish \/ StartValid \/ ValidFree \/ ValidEnd
      BY <3>2 DEF ReadTrace, Finish, StartValid, malloc_error, NextTrace, ValidFree, ValidEnd
    <3>3. CASE ValidAlloc \/ ValidRealloc
      <4>1. pc = "valid" /\ \/ \E m : Stops(m)
                            \/ \E p : Goes(p)
        BY <3>3, Zenon DEF ValidAlloc, ValidRealloc
      <4> QED BY <4>1 DEF Stops, malloc_error, NextTrace, Goes
    <3> QED BY <1>2, <3>1, <3>2, <3>3
  <2> QED BY <2>1 DEF UtilInv
<1>3. CASE StartUtil
  <2>1. /\ pc' \in {"util", "exit"} /\ i' = 0 /\ total_size' = 0 /\ max_total_size' = 0
        /\ trace' = trace
    BY <1>3 DEF StartUtil, ResetForPass, app_error
  <2>2. \A n : Demand(n)' = Demand(n)
    BY <2>1, SameDemand
  <2>3. Peak(i, max_total_size)'
    BY <2>1, <2>2, PeakAtStart DEF Peak
  <2>4. SizesKept(i, block_sizes)'
    BY <2>1, PeakAtStart DEF SizesKept, LastAbout, HeldAfter
  <2>5. /\ IsFiniteSet(Payloads(Held, block_sizes)')
        /\ Cardinality(Payloads(Held, block_sizes)') = 0
    BY <2>1, PeakAtStart DEF Payloads, Held, HeldAfter
  <2> QED BY <2>1, <2>3, <2>4, <2>5 DEF UtilInv
<1>4. CASE UtilAlloc \/ UtilRealloc \/ UtilFree
  <2>1. pc = "util" /\ More /\ trace' = trace /\ (pc' = "util" \/ pc' = "exit")
    BY <1>4 DEF UtilAlloc, UtilRealloc, UtilFree, Goes, app_error
  <2>2. pc' = "util" =>
           /\ i' = i + 1
           /\ IF op.type = "FREE" THEN UNCHANGED block_sizes
              ELSE block_sizes' = [block_sizes EXCEPT ![op.index] = op.size]
           /\ total_size' = Sum(total_size)
           /\ IF op.type = "FREE" THEN UNCHANGED max_total_size
              ELSE max_total_size' = IF total_size' > max_total_size THEN total_size'
                                     ELSE max_total_size
    BY <1>4 DEF UtilAlloc, UtilRealloc, UtilFree, Goes, Remember, NextOp, app_error, Total, Sum
  <2>3. CASE pc' = "util"
    BY <2>1, <2>2, <2>3, UtilCall
  <2>4. CASE pc' = "exit"
    BY <2>4 DEF UtilInv
  <2> QED BY <2>1, <2>3, <2>4
<1>5. CASE UtilEnd
  <2>1. /\ pc = "util" /\ ~More /\ pc' = "start speed"
        /\ trace' = trace /\ max_total_size' = max_total_size
    BY <1>5 DEF UtilEnd
  <2>2. i = Len(trace)
    <3>1. i \in Nat /\ i <= Len(trace) /\ ~(i < Len(trace)) /\ trace \in Traces
      BY <2>1 DEF Types, Passes, More
    <3>2. Len(trace) \in Nat
      BY <3>1, TraceFacts
    <3> QED BY <3>1, <3>2
  <2>3. Peak(Len(trace), max_total_size)
    BY <2>1, <2>2 DEF UtilInv
  <2>4. Peak(Len(trace), max_total_size)'
    BY <2>1, <2>3, SameDemand DEF Peak
  <2> QED BY <2>1, <2>4 DEF UtilInv
<1>6. CASE StartSpeed \/ SpeedAlloc \/ SpeedRealloc \/ SpeedFree \/ SpeedEnd
  <2>1. /\ pc \in {"start speed", "speed"} /\ pc' # "util"
        /\ trace' = trace /\ max_total_size' = max_total_size
    BY <1>6 DEF StartSpeed, ResetForPass, app_error, SpeedAlloc, SpeedRealloc, SpeedCall,
                SpeedFree, SpeedEnd, NextTrace
  <2>2. Peak(Len(trace), max_total_size)
    BY <2>1 DEF UtilInv
  <2>3. Peak(Len(trace), max_total_size)'
    BY <2>1, <2>2, SameDemand DEF Peak
  <2> QED BY <2>1, <2>3 DEF UtilInv
<1> QED BY <1>1, <1>2, <1>3, <1>4, <1>5, <1>6 DEF Next

LEMMA MaxIs ==
    ASSUME NEW D, NEW m \in D, \A d \in D : d \in Nat /\ d <= m
    PROVE  Max(D) = m
<1>1. Max(D) \in D /\ Max(D) >= m
  BY DEF Max
<1>2. Max(D) \in Nat /\ Max(D) <= m /\ m \in Nat
  BY <1>1
<1> QED BY <1>1, <1>2

(* mdriver.c:682-687: max_total_size is the high water mark of an optimal  *)
(* allocator, the most bytes the trace holds at any one time.              *)
THEOREM CountsPeakDemand == Spec => []HwmIsPeakDemand
<1>1. Init => Types /\ UtilInv
  <2>1. Init => pc = "read"
    BY DEF Init
  <2> QED BY <2>1, InitTypes DEF UtilInv
<1>2. UtilInv => HwmIsPeakDemand
  <2> SUFFICES ASSUME UtilInv, pc = "start speed"
               PROVE  max_total_size = Max({Demand(n) : n \in 0..Len(trace)})
    BY DEF HwmIsPeakDemand
  <2> DEFINE D == {Demand(n) : n \in 0..Len(trace)}
  <2>1. /\ max_total_size \in D
        /\ \A d \in D : d \in Nat /\ d <= max_total_size
    BY DEF UtilInv, Peak
  <2> HIDE DEF D
  <2>2. Max(D) = max_total_size
    BY <2>1, MaxIs
  <2> QED BY <2>2 DEF D
<1> QED BY <1>1, <1>2, NextTypes, NextUtil, PTL DEF Spec
=============================================================================
