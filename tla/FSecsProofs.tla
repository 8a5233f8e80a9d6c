------------------------------ MODULE FSecsProofs ------------------------------
(***************************************************************************)
(* What the measurements of malloclab report, for every word width, tick   *)
(* cost, cache size and number of samples and of measurements.             *)
(***************************************************************************)
EXTENDS FSecs, FiniteSetTheorems, SequenceTheorems, TLAPS

(* A remainder is determined by the number up to multiples of D.           *)
LEMMA ModUnique ==
    ASSUME NEW D \in Nat \ {0}, NEW x \in 0..(D - 1), NEW k \in Int
    PROVE  (x + D * k) % D = x
<1> DEFINE n == x + D * k
           d == n \div D
           r == n % D
<1>1. D * k \in Int /\ n \in Int
  OBVIOUS
<1>2. d \in Int /\ r \in 0..(D - 1) /\ n = D * d + r
  BY <1>1
<1> HIDE DEF d, r
<1>3. D * (d - k) = x - r
  BY <1>1, <1>2
<1>4. d - k < 1
  <2> SUFFICES ASSUME d - k >= 1 PROVE FALSE
    BY <1>2
  <2>1. PICK e \in Nat : d - k = 1 + e
    BY <1>2
  <2>2. D * (d - k) = D + D * e /\ D * e >= 0
    BY <2>1
  <2> QED BY <2>2, <1>2, <1>3
<1>5. d - k > -1
  <2> SUFFICES ASSUME d - k <= -1 PROVE FALSE
    BY <1>2
  <2>1. PICK e \in Nat : d - k = -1 - e
    BY <1>2
  <2>2. D * (d - k) = -D - D * e /\ D * e >= 0
    BY <2>1
  <2> QED BY <2>2, <1>2, <1>3
<1>6. d = k
  BY <1>2, <1>4, <1>5
<1> QED BY <1>1, <1>2, <1>6 DEF r

(* A number is what its quotient and remainder make.                       *)
LEMMA DivMod ==
    ASSUME NEW D \in Nat \ {0}, NEW n \in Int
    PROVE  /\ n \div D \in Int /\ n % D \in 0..(D - 1)
           /\ n = D * (n \div D) + (n % D)
  OBVIOUS

(* The quotient of a natural number is one.                                *)
LEMMA DivNat ==
    ASSUME NEW D \in Nat \ {0}, NEW n \in Nat
    PROVE  n \div D \in Nat
  OBVIOUS

-------------------------------------------------------------------------------
(* fcyc.c:107-122 and 188-206: clear allocates the buffer for the cache    *)
(* size it then walks, set_fcyc_cache_size dropping one of another size.   *)
BufferInv ==
    /\ cache_bytes \in Nat \ {0} /\ cache_block \in Nat
    /\ cache_buf \in {0, cache_bytes}
    /\ ClearInside

(* The last int that clear reads is one of the cache's.                    *)
LEMMA WalkInside ==
    ASSUME cache_bytes \in Nat \ {0}, cache_block \in Nat
    PROVE  ~ReadsOutside(cache_bytes)
<1> SUFFICES ASSUME ints > 0,
                    (IF incr = 0 THEN 0 ELSE LastRead) * INT + INT > cache_bytes
             PROVE  FALSE
  BY DEF ReadsOutside
<1> DEFINE n    == ints
           i    == incr
           last == IF incr = 0 THEN 0 ELSE LastRead
<1>1. INT \in Nat \ {0}
  BY FSecsAssumption
<1>2. n \in Int /\ INT * n <= cache_bytes /\ n > 0
  <2>1. /\ cache_bytes \div INT \in Int /\ cache_bytes % INT \in 0..(INT - 1)
        /\ cache_bytes = INT * (cache_bytes \div INT) + (cache_bytes % INT)
    BY <1>1, DivMod
  <2> DEFINE q == cache_bytes \div INT
             r == cache_bytes % INT
  <2>2. n = q
    BY DEF ints
  <2> HIDE DEF q, r
  <2>3. INT * q \in Int
    BY <1>1, <2>1 DEF q
  <2> QED BY <2>1, <2>2, <2>3, <1>1 DEF q, r
<1>3. i \in Nat
  BY <1>1, DivNat DEF incr
<1>4. last \in Int /\ last <= n - 1
  <2>1. CASE i = 0
    BY <2>1, <1>2
  <2>2. CASE i # 0
    <3> DEFINE q == (n - 1) \div i
               r == (n - 1) % i
    <3>1. i \in Nat \ {0} /\ n - 1 \in Int
      BY <1>2, <1>3, <2>2
    <3>2. q \in Int /\ r \in 0..(i - 1) /\ n - 1 = i * q + r
      BY <3>1, DivMod
    <3>3. last = q * i
      BY <2>2 DEF LastRead
    <3> HIDE DEF q, r, n, i, last
    <3>4. q * i = i * q /\ i * q \in Int
      BY <3>1, <3>2
    <3> QED BY <3>1, <3>2, <3>3, <3>4, <1>2
  <2> QED BY <2>1, <2>2
<1>5. last * INT + INT > cache_bytes
  OBVIOUS
<1> HIDE DEF n, last
<1>6. PICK f \in Nat : n = last + 1 + f
  <2>1. n - last - 1 \in Nat /\ n = last + 1 + (n - last - 1)
    BY <1>2, <1>4
  <2> QED BY <2>1
<1>7. INT * n = last * INT + INT + INT * f /\ INT * f >= 0 /\ INT * f \in Int
      /\ last * INT \in Int
  BY <1>1, <1>4, <1>6
<1> QED BY <1>1, <1>2, <1>5, <1>7

LEMMA BufferStep == BufferInv /\ [Next]_vars => BufferInv'
<1> SUFFICES ASSUME BufferInv, [Next]_vars PROVE BufferInv'
  OBVIOUS
<1>1. /\ cache_bytes \in Nat \ {0} /\ cache_block \in Nat
      /\ cache_buf \in {0, cache_bytes} /\ pc # "fault"
  BY DEF BufferInv, ClearInside
<1>2. CASE Turn
  <2>1. cache_bytes' = cache_bytes /\ cache_block' = cache_block
    BY <1>2 DEF Turn, settings
  <2>2. cache_buf' \in {0, cache_bytes}
    BY <1>1, <1>2 DEF Turn
  <2>3. pc' # "fault"
    <3>1. AfterClear # "fault"
      BY DEF AfterClear
    <3>2. ASSUME cache_buf' = IF cache_buf = 0 THEN cache_bytes ELSE cache_buf
          PROVE  ~ReadsOutside(cache_buf')
      <4>1. cache_buf' = cache_bytes
        BY <1>1, <3>2
      <4> QED BY <1>1, <4>1, WalkInside
    <3> QED BY <1>2, <3>1, <3>2 DEF Turn
  <2> QED BY <1>1, <2>1, <2>2, <2>3 DEF BufferInv, ClearInside
<1>3. ASSUME NEW bytes \in CacheSizes, set_fcyc_cache_size(bytes) PROVE BufferInv'
  BY <1>1, <1>3, FSecsAssumption DEF set_fcyc_cache_size, BufferInv, ClearInside
<1>4. ASSUME NEW bytes \in BlockSizes, set_fcyc_cache_block(bytes) PROVE BufferInv'
  BY <1>1, <1>4, FSecsAssumption DEF set_fcyc_cache_block, BufferInv, ClearInside
<1>5. ASSUME UNCHANGED <<cache_bytes, cache_block, cache_buf>>, pc' # "fault" PROVE BufferInv'
  BY <1>1, <1>5 DEF BufferInv, ClearInside
<1>6. ASSUME NEW k \in Ks, NEW max \in MaxSamples, NEW c \in BOOLEAN, NEW b \in BOOLEAN,
             SetSampling(k, max, c, b)
      PROVE  BufferInv'
  BY <1>1, <1>5, <1>6 DEF SetSampling
<1>7. CASE StartFcyc \/ Callibrated \/ Return \/ EndTimer
  BY <1>1, <1>5, <1>7 DEF StartFcyc, Callibrated, Return, EndTimer, settings
<1>8. ASSUME NEW t \in StartTimes, NEW early \in {0, 1}, StartCallibrate(t, early)
      PROVE  BufferInv'
  BY <1>1, <1>5, <1>8 DEF StartCallibrate, settings
<1>9. ASSUME NEW g \in Gaps, NEW tick \in TickCosts \cup {0}, NEW late \in TickCosts \cup {0},
             Callibrate(g, tick, late)
      PROVE  BufferInv'
  BY <1>1, <1>5, <1>9 DEF Callibrate, settings
<1>10. ASSUME NEW t \in StartTimes, NEW late \in {0, 1}, StartCounter(t, late)
      PROVE  BufferInv'
  BY <1>1, <1>5, <1>10 DEF StartCounter, settings
<1>11. ASSUME NEW c \in TickCosts, Tick(c) PROVE BufferInv'
  BY <1>1, <1>5, <1>11 DEF Tick, settings
<1>12. ASSUME NEW d \in OwnTimes, Run(d) PROVE BufferInv'
  BY <1>1, <1>5, <1>12 DEF Run, settings
<1>13. ASSUME NEW late \in {0, 1}, Read(late) PROVE BufferInv'
  BY <1>1, <1>5, <1>13 DEF Read, settings
<1>14. ASSUME NEW t \in TimerStarts, StartTimer(t) PROVE BufferInv'
  BY <1>1, <1>5, <1>14 DEF StartTimer, settings
<1>15. ASSUME NEW d \in OwnTimes, RunTimed(d) PROVE BufferInv'
  BY <1>1, <1>5, <1>15 DEF RunTimed, settings
<1>16. CASE UNCHANGED vars
  BY <1>1, <1>5, <1>16 DEF vars, settings
<1> QED BY <1>2, <1>3, <1>4, <1>6, <1>7, <1>8, <1>9, <1>10, <1>11, <1>12, <1>13, <1>14,
           <1>15, <1>16 DEF Next

(* Whatever sizes the cache and its blocks are given between measurements, *)
(* clear reads inside the buffer it has.                                   *)
THEOREM BufferWalk == Spec => []ClearInside
<1>1. Init => BufferInv
  BY FSecsAssumption DEF Init, BufferInv, ClearInside
<1>2. BufferInv => ClearInside
  BY DEF BufferInv
<1> QED BY <1>1, <1>2, BufferStep, PTL DEF Spec

-------------------------------------------------------------------------------
(* clock.c:60-67: two readings in halves, subtracted with a borrow, give   *)
(* the cycles between them, whichever half wraps, if they are fewer than   *)
(* both halves can count.                                                  *)
LEMMA CounterExact ==
    ASSUME NEW s \in Nat, NEW t \in Nat, s <= t, t - s < W * W,
           NEW p \in Platforms, p = "i386" \/ s \div W = t \div W
    PROVE  get_counter(access_counter(p, s), access_counter(p, t)) = t - s
<1> DEFINE a == s \div W
           x == s % W
           b == t \div W
           y == t % W
           lo == (y - x) % W
           c == IF lo > y THEN 1 ELSE 0
<1>1. W \in Nat \ {0}
  BY ClockAssumption
<1>2. /\ a \in Nat /\ x \in 0..(W - 1) /\ s = W * a + x
      /\ b \in Nat /\ y \in 0..(W - 1) /\ t = W * b + y
  <2>1. a \in Nat /\ b \in Nat
    BY <1>1, DivNat
  <2>2. x \in 0..(W - 1) /\ s = W * a + x
    BY <1>1, DivMod
  <2>3. y \in 0..(W - 1) /\ t = W * b + y
    BY <1>1, DivMod
  <2> QED BY <2>1, <2>2, <2>3
<1>3. get_counter(access_counter(p, s), access_counter(p, t)) =
        IF p = "i386" THEN ((((b % W) - (a % W)) - c) % W) * W + lo
        ELSE ((0 - 0 - c) % W) * W + lo
  BY DEF get_counter, access_counter
<1> HIDE DEF a, b, x, y
<1>4. lo \in 0..(W - 1) /\ c \in {0, 1} /\ y - x = lo - W * c
  <2>1. CASE x <= y
    <3>1. lo = y - x
      <4>1. y - x \in 0..(W - 1)
        BY <1>1, <1>2, <2>1
      <4>2. y - x = (y - x) + W * 0
        BY <1>1, <1>2
      <4> QED BY <1>1, <4>1, <4>2, ModUnique
    <3> QED BY <3>1, <1>1, <1>2, <2>1
  <2>2. CASE x > y
    <3>1. lo = (y - x) + W
      <4>1. (y - x) + W \in 0..(W - 1)
        BY <1>1, <1>2, <2>2
      <4>2. y - x = ((y - x) + W) + W * (-1)
        BY <1>1, <1>2
      <4>3. (((y - x) + W) + W * (-1)) % W = (y - x) + W
        BY <1>1, <4>1, ModUnique
      <4> QED BY <4>2, <4>3
    <3> HIDE DEF lo
    <3> QED BY <3>1, <1>1, <1>2, <2>2
  <2> QED BY <2>1, <2>2, <1>2
<1> HIDE DEF lo, c
<1>5. t - s = W * (b - a - c) + lo
  <2>1. W * (b - a - c) = W * b - W * a - W * c
    BY <1>1, <1>2, <1>4
  <2>2. W * b \in Int /\ W * a \in Int /\ W * c \in Int
    BY <1>1, <1>2, <1>4
  <2> QED BY <2>1, <2>2, <1>2, <1>4
<1> DEFINE e == b - a - c
<1>6. e \in Int
  BY <1>2, <1>4
<1>7. e >= 0
  <2> SUFFICES ASSUME e <= -1 PROVE FALSE
    BY <1>6
  <2> HIDE DEF e
  <2>1. PICK f \in Nat : e = -1 - f
    <3>1. -1 - e \in Nat /\ e = -1 - (-1 - e)
      BY <1>6
    <3> QED BY <3>1
  <2>2. W * e = -W - W * f /\ W * f >= 0 /\ W * f \in Int
    BY <2>1, <1>1
  <2> QED BY <2>2, <1>1, <1>4, <1>5 DEF e
<1>8. e < W
  <2> SUFFICES ASSUME e >= W PROVE FALSE
    BY <1>1, <1>6
  <2>1. PICK f \in Nat : e = W + f
    BY <1>1, <1>6
  <2> HIDE DEF e
  <2>2. W * e = W * W + W * f /\ W * f >= 0 /\ W * f \in Int /\ W * W \in Int
    BY <2>1, <1>1
  <2> QED BY <2>2, <1>1, <1>4, <1>5 DEF e
<1>9. CASE p = "i386"
  <2> DEFINE qa == a \div W
             ra == a % W
             qb == b \div W
             rb == b % W
  <2>1. /\ qa \in Int /\ ra \in Int /\ a = W * qa + ra
        /\ qb \in Int /\ rb \in Int /\ b = W * qb + rb
    BY <1>1, <1>2, DivMod
  <2> HIDE DEF qa, ra, qb, rb
  <2>2. rb - ra - c = e + W * (qa - qb)
    <3>1. W * (qa - qb) = W * qa - W * qb /\ W * qa \in Int /\ W * qb \in Int
      BY <1>1, <2>1
    <3> QED BY <3>1, <2>1, <1>2, <1>4
  <2>3. e \in 0..(W - 1) /\ qa - qb \in Int
    BY <1>1, <1>6, <1>7, <1>8, <2>1
  <2> HIDE DEF e
  <2>4. (e + W * (qa - qb)) % W = e
    BY <2>3, <1>1, ModUnique
  <2>5. (rb - ra - c) % W = e
    BY <2>2, <2>4
  <2>6. get_counter(access_counter(p, s), access_counter(p, t)) = e * W + lo
    BY <1>3, <1>9, <2>5 DEF ra, rb
  <2>7. e * W = W * e
    BY <1>1, <1>6
  <2> QED BY <2>6, <2>7, <1>5 DEF e
<1>10. CASE p # "i386"
  <2>1. a = b
    BY <1>10 DEF a, b
  <2>2. c = 0 /\ e = 0
    BY <2>1, <1>2, <1>4, <1>7
  <2>3. (0 - 0 - c) % W = 0
    <3>1. 0 - 0 - c = 0 + W * 0 /\ 0 \in 0..(W - 1)
      BY <1>1, <2>2
    <3>2. (0 + W * 0) % W = 0
      BY <1>1, <3>1, ModUnique
    <3> QED BY <3>1, <3>2
  <2>4. get_counter(access_counter(p, s), access_counter(p, t)) = 0 * W + lo
    BY <1>3, <1>10, <2>3
  <2> HIDE DEF e
  <2>5. 0 * W = 0 /\ W * e = 0
    BY <1>1, <2>2
  <2> QED BY <2>4, <2>5, <1>4, <1>5 DEF e
<1> QED BY <1>9, <1>10

(* The difference of two readings is a number, whatever wraps.             *)
LEMMA CounterType ==
    ASSUME NEW s \in Nat, NEW t \in Nat, NEW p \in Platforms
    PROVE  get_counter(access_counter(p, s), access_counter(p, t)) \in Int
<1>1. W \in Nat \ {0}
  BY ClockAssumption
<1>2. \A n \in Int : n \div W \in Int /\ n % W \in Int
  BY <1>1
<1>3. ASSUME NEW u \in Nat
      PROVE  access_counter(p, u).hi \in Int /\ access_counter(p, u).lo \in Int
  BY <1>2, <1>3 DEF access_counter
<1>4. ASSUME NEW c, NEW d, c.hi \in Int, c.lo \in Int, d.hi \in Int, d.lo \in Int
      PROVE  get_counter(c, d) \in Int
  <2> DEFINE lo     == (d.lo - c.lo) % W
             borrow == IF lo > d.lo THEN 1 ELSE 0
             x      == d.hi - c.hi - borrow
             hi     == x % W
  <2>1. lo \in Int
    BY <1>2, <1>4
  <2>2. borrow \in Int
    OBVIOUS
  <2>3. x \in Int
    <3> HIDE DEF borrow
    <3> QED BY <2>2, <1>4
  <2> HIDE DEF x
  <2>4. hi \in Int
    BY <2>3, <1>2
  <2> HIDE DEF hi, lo
  <2>5. hi * W + lo \in Int
    BY <2>1, <2>4, <1>1
  <2> QED BY <2>5 DEF get_counter, hi, lo, x
<1> QED BY <1>3, <1>4

(* ftimer.c:91-101 and 34-39: seconds and microseconds make up the time    *)
(* they were split from.                                                   *)
LEMMA TimesExact ==
    ASSUME NEW s \in Nat, NEW t \in Nat
    PROVE  /\ gettod_diff(s, t) = t - s
           /\ get_etime(t) - get_etime(s) = t - s
<1>1. USEC \in Nat \ {0} /\ MAX_ETIME \in Nat \ {0}
  BY FSecsAssumption
<1>2. ASSUME NEW u \in Int
      PROVE  /\ u \div USEC \in Int /\ u % USEC \in Int
             /\ u = USEC * (u \div USEC) + (u % USEC)
  BY <1>1, DivMod
<1>3. gettod_diff(s, t) = t - s
  <2> DEFINE a == s \div USEC
             x == s % USEC
             b == t \div USEC
             y == t % USEC
  <2>1. /\ a \in Int /\ x \in Int /\ s = USEC * a + x
        /\ b \in Int /\ y \in Int /\ t = USEC * b + y
    BY <1>2
  <2>2. gettod_diff(s, t) = USEC * (b - a) + (y - x)
    BY DEF gettod_diff, Split, Micros
  <2> HIDE DEF a, b, x, y
  <2>3. USEC * (b - a) = USEC * b - USEC * a /\ USEC * a \in Int /\ USEC * b \in Int
    BY <1>1, <2>1
  <2> QED BY <2>1, <2>2, <2>3
<1>4. ASSUME NEW u \in Nat PROVE get_etime(u) = u
  <2> DEFINE r == MAX_ETIME * USEC - u
             a == r \div USEC
             x == r % USEC
  <2>1. MAX_ETIME * USEC \in Int /\ r \in Int
    BY <1>1
  <2>2. a \in Int /\ x \in Int /\ r = USEC * a + x
    BY <1>2, <2>1
  <2>3. get_etime(u) = USEC * (MAX_ETIME - a) + (0 - x)
    BY DEF get_etime, Split, Micros
  <2> HIDE DEF a, x
  <2>4. USEC * (MAX_ETIME - a) = MAX_ETIME * USEC - USEC * a /\ USEC * a \in Int
    BY <1>1, <2>2
  <2> QED BY <2>1, <2>2, <2>3, <2>4
<1> QED BY <1>3, <1>4

(* While a measurement or a calibration runs, cyc_hi and cyc_lo hold the   *)
(* reading at its start, and the cycles since a measurement started are    *)
(* its own and its ticks', fewer than would bring the counter round.       *)
Measure == [started : Nat, now : Nat, ticks : Nat, own : Nat, taken : Nat, ran : Nat, i : Nat]

ReadInv ==
    /\ platform \in Platforms
    /\ m \in Measure
    /\ method # "fcyc" => pc \in {"idle", "timed", "killed"}
    /\ m.started <= m.now
    /\ pc \in {"loop", "run", "read"} => cyc = access_counter(platform, m.started)
    /\ pc \in {"run", "read"} => /\ m.now = m.started + m.own + m.taken
                                 /\ m.taken <= MaxTaken
    /\ pc = "run" => m.own = 0
    /\ pc = "read" => m.own \in OwnTimes
    /\ ReadingExact

LEMMA ReadStep == ReadInv /\ [Next]_vars => ReadInv'
<1> SUFFICES ASSUME ReadInv, [Next]_vars PROVE ReadInv'
  OBVIOUS
<1>1. /\ platform \in Platforms
      /\ m \in Measure
      /\ method # "fcyc" => pc \in {"idle", "timed", "killed"}
      /\ m.started \in Nat /\ m.now \in Nat /\ m.started <= m.now
      /\ m.own \in Nat /\ m.taken \in Nat
      /\ pc \in {"loop", "run", "read"} => cyc = access_counter(platform, m.started)
      /\ pc \in {"run", "read"} => /\ m.now = m.started + m.own + m.taken
                                   /\ m.taken <= MaxTaken
      /\ pc = "run" => m.own = 0
      /\ pc = "read" => m.own \in OwnTimes
      /\ platform = "i386" \/ ~reading.wraps => reading.cyc = reading.exact
      /\ method # "fcyc" /\ pc = "idle" /\ calls > 0 => result = m.now - m.started
  BY DEF ReadInv, ReadingExact, Measure
<1>2. /\ \A d \in OwnTimes : d \in Nat /\ d + MaxTaken < W * W
      /\ \A t \in StartTimes : t \in Nat
      /\ \A t \in TimerStarts : t \in Nat
      /\ \A c \in TickCosts : c \in Nat
      /\ \A g \in Gaps : g \in Nat
      /\ MaxTaken \in Nat /\ W \in Nat \ {0} /\ W * W \in Nat \ {0}
  BY FSecsAssumption, TickAssumption, ClockAssumption
<1>3. ASSUME NEW t \in Nat, NEW n, n = [NoMeasure EXCEPT !.started = t, !.now = t]
      PROVE  n \in Measure /\ n.started = t /\ n.now = t
  BY <1>3 DEF NoMeasure, Measure
<1>4. NoMeasure \in Measure /\ NoMeasure.started = 0 /\ NoMeasure.now = 0
  BY DEF NoMeasure, Measure
(* Steps that neither measure nor end a measurement.                       *)
<1>5. ASSUME UNCHANGED build, m' \in {m, NoMeasure}, reading' \in {reading, NoReading},
             pc' \notin {"loop", "run", "read"}, method = "fcyc"
      PROVE  ReadInv'
  <2>1. NoReading.cyc = NoReading.exact
    BY DEF NoReading
  <2>2. m'.started <= m'.now /\ m' \in Measure
    BY <1>1, <1>4, <1>5
  <2> QED BY <1>1, <1>5, <2>1, <2>2 DEF ReadInv, ReadingExact, build
<1>6. ASSUME NEW k \in Ks, NEW max \in MaxSamples, NEW c \in BOOLEAN, NEW b \in BOOLEAN,
             SetSampling(k, max, c, b)
      PROVE  ReadInv'
  BY <1>5, <1>6 DEF SetSampling, clock
<1>7. ASSUME NEW bytes \in CacheSizes, set_fcyc_cache_size(bytes) PROVE ReadInv'
  BY <1>5, <1>7 DEF set_fcyc_cache_size, clock
<1>8. ASSUME NEW bytes \in BlockSizes, set_fcyc_cache_block(bytes) PROVE ReadInv'
  BY <1>5, <1>8 DEF set_fcyc_cache_block, clock
<1>9. CASE StartFcyc
  BY <1>5, <1>9 DEF StartFcyc, clock
<1>10. CASE Turn
  <2>1. method = "fcyc"
    BY <1>1, <1>10 DEF Turn
  <2>2. pc' \notin {"loop", "run", "read"}
    BY <1>10 DEF Turn, AfterClear
  <2> QED BY <2>1, <2>2, <1>5, <1>10 DEF Turn
<1>11. ASSUME NEW t \in StartTimes, NEW early \in {0, 1}, StartCallibrate(t, early)
       PROVE  ReadInv'
  <2>1. /\ pc = "callibrate" /\ pc' = "loop" /\ method' = method /\ platform' = platform
        /\ reading' = reading /\ cyc' = access_counter(platform, t)
        /\ m' = [NoMeasure EXCEPT !.started = t, !.now = t]
    BY <1>11 DEF StartCallibrate, build
  <2>2. t \in Nat /\ m' \in Measure /\ m'.started = t /\ m'.now = t
    <3>1. t \in Nat
      BY <1>2
    <3> QED BY <3>1, <2>1, <1>3
  <2> QED BY <1>1, <2>1, <2>2 DEF ReadInv, ReadingExact
<1>12. ASSUME NEW g \in Gaps, NEW tick \in TickCosts \cup {0},
              NEW late \in TickCosts \cup {0}, Callibrate(g, tick, late)
       PROVE  ReadInv'
  <2> DEFINE spent == m.now - m.started + g + tick
             n     == m.started + (spent % Span) + late
  <2>1. /\ pc = "loop" /\ pc' = pc /\ method' = method /\ platform' = platform
        /\ reading' = reading /\ cyc' = cyc /\ m' = [m EXCEPT !.now = n]
    BY <1>12 DEF Callibrate, build
  <2>2. spent \in Nat /\ late \in Nat
    BY <1>1, <1>2
  <2>3. Span \in Nat \ {0}
    BY <1>2 DEF Span
  <2>4. spent % Span \in Nat
    BY <2>2, <2>3
  <2>5. n \in Nat /\ m.started <= n
    BY <2>2, <2>4, <1>1
  <2> HIDE DEF n
  <2>6. m' \in Measure /\ m'.started = m.started /\ m'.now = n
    BY <2>1, <2>5, <1>1 DEF Measure
  <2> QED BY <1>1, <2>1, <2>5, <2>6 DEF ReadInv, ReadingExact
<1>13. CASE Callibrated \/ Return
  BY <1>1, <1>5, <1>13 DEF Callibrated, Return
<1>14. ASSUME NEW t \in StartTimes, NEW late \in {0, 1}, StartCounter(t, late)
       PROVE  ReadInv'
  <2>1. /\ pc = "start" /\ pc' = "run" /\ method' = method /\ platform' = platform
        /\ reading' = reading /\ cyc' = access_counter(platform, t)
        /\ m' = [NoMeasure EXCEPT !.started = t, !.now = t, !.ticks = late]
    BY <1>14 DEF StartCounter, build
  <2>2. /\ m' \in Measure /\ m'.started = t /\ m'.now = t /\ t \in Nat
        /\ m'.own = 0 /\ m'.taken = 0
    <3>1. t \in Nat /\ late \in Nat
      BY <1>2
    <3> QED BY <3>1, <2>1, <1>2 DEF NoMeasure, Measure
  <2>3. m'.started <= m'.now /\ m'.now = m'.started + m'.own + m'.taken
        /\ m'.taken <= MaxTaken
    BY <1>2, <2>2
  <2> QED BY <1>1, <2>1, <2>2, <2>3 DEF ReadInv, ReadingExact
<1>15. ASSUME NEW c \in TickCosts, Tick(c) PROVE ReadInv'
  <2> DEFINE v == m.now + c
             k == m.ticks + 1
             x == m.taken + c
             r == m.ran + 1
  <2>1. /\ pc = "run" /\ pc' = pc /\ method' = method /\ platform' = platform
        /\ reading' = reading /\ cyc' = cyc /\ x <= MaxTaken
        /\ m' = [m EXCEPT !.now = v, !.ticks = k, !.taken = x, !.ran = r]
    BY <1>15 DEF Tick, build, clock
  <2>2. c \in Nat /\ v \in Nat /\ k \in Nat /\ x \in Nat /\ r \in Nat
    BY <1>1, <1>2 DEF Measure
  <2>3. v = m.started + m.own + x /\ m.started <= v
    BY <1>1, <2>1, <2>2
  <2> HIDE DEF v, k, x, r
  <2>4. /\ m' \in Measure /\ m'.started = m.started /\ m'.now = v /\ m'.own = m.own
        /\ m'.taken = x
    BY <2>1, <2>2, <1>1 DEF Measure
  <2> QED BY <1>1, <2>1, <2>3, <2>4 DEF ReadInv, ReadingExact
<1>16. ASSUME NEW d \in OwnTimes, Run(d) PROVE ReadInv'
  <2> DEFINE v == m.now + d
  <2>1. /\ pc = "run" /\ pc' = "read" /\ method' = method /\ platform' = platform
        /\ reading' = reading /\ cyc' = cyc
        /\ m' = [m EXCEPT !.now = v, !.own = d]
    BY <1>16 DEF Run, build, clock
  <2>2. d \in Nat /\ v \in Nat
    BY <1>1, <1>2
  <2>3. v = m.started + d + m.taken /\ m.started <= v
    BY <1>1, <2>1, <2>2
  <2> HIDE DEF v
  <2>4. /\ m' \in Measure /\ m'.started = m.started /\ m'.now = v /\ m'.own = d
        /\ m'.taken = m.taken
    BY <2>1, <2>2, <1>1 DEF Measure
  <2> QED BY <1>1, <2>1, <2>3, <2>4 DEF ReadInv, ReadingExact
<1>17. ASSUME NEW late \in {0, 1}, Read(late) PROVE ReadInv'
  <2>1. /\ pc = "read" /\ pc' \in {"return", "turn"} /\ UNCHANGED build
        /\ m' = NoMeasure
        /\ reading'.cyc = get_counter(cyc, access_counter(platform, m.now))
        /\ reading'.exact = m.now - m.started
        /\ reading'.wraps = (m.started \div W # m.now \div W)
    BY <1>17 DEF Read
  <2>2. platform = "i386" \/ ~reading'.wraps => reading'.cyc = reading'.exact
    <3>1. m.now - m.started < W * W /\ cyc = access_counter(platform, m.started)
      BY <1>1, <1>2, <2>1
    <3>2. ASSUME platform = "i386" \/ m.started \div W = m.now \div W
          PROVE  get_counter(access_counter(platform, m.started),
                             access_counter(platform, m.now)) = m.now - m.started
      BY <1>1, <3>1, <3>2, CounterExact
    <3> QED BY <2>1, <3>1, <3>2
  <2>3. method = "fcyc"
    BY <1>1, <2>1
  <2>4. UNCHANGED <<platform, method>> /\ 0 <= 0
    BY <2>1 DEF build
  <2> QED BY <1>1, <1>4, <2>1, <2>2, <2>3, <2>4 DEF ReadInv, ReadingExact
<1>18. ASSUME NEW t \in TimerStarts, StartTimer(t) PROVE ReadInv'
  <2>1. /\ pc = "idle" /\ pc' = "timed" /\ method' = method /\ platform' = platform
        /\ reading' = reading
        /\ m' = [NoMeasure EXCEPT !.started = t, !.now = t]
    BY <1>18 DEF StartTimer, build, clock
  <2>2. m' \in Measure /\ m'.started = t /\ m'.now = t /\ t \in Nat
    <3>1. t \in Nat
      BY <1>2
    <3> QED BY <3>1, <2>1, <1>3
  <2> QED BY <1>1, <2>1, <2>2 DEF ReadInv, ReadingExact
<1>19. ASSUME NEW d \in OwnTimes, RunTimed(d) PROVE ReadInv'
  <2> DEFINE v == m.now + d
             j == m.i + 1
             o == m.own + d
  <2>1. /\ pc = "timed" /\ pc' \in {"timed", "killed"} /\ method' = method
        /\ platform' = platform /\ reading' = reading
        /\ m' = [m EXCEPT !.now = v, !.i = j, !.own = o]
    BY <1>19 DEF RunTimed, build, clock
  <2>2. d \in Nat /\ v \in Nat /\ j \in Nat /\ o \in Nat /\ m.started <= v
    BY <1>1, <1>2 DEF Measure
  <2> HIDE DEF v, j, o
  <2>3. m' \in Measure /\ m'.started = m.started /\ m'.now = v
    BY <1>1, <2>1, <2>2 DEF Measure
  <2> QED BY <1>1, <2>1, <2>2, <2>3 DEF ReadInv, ReadingExact
<1>20. CASE EndTimer
  <2>1. /\ pc = "timed" /\ pc' = "idle" /\ UNCHANGED <<method, platform, m, reading>>
        /\ result' = IF method = "gettod" THEN gettod_diff(m.started, m.now)
                     ELSE get_etime(m.now) - get_etime(m.started)
    BY <1>20 DEF EndTimer, build, clock
  <2>2. result' = m.now - m.started
    BY <1>1, <2>1, TimesExact
  <2> QED BY <1>1, <2>1, <2>2 DEF ReadInv, ReadingExact
<1>21. CASE UNCHANGED vars
  BY <1>1, <1>21 DEF vars, ReadInv, ReadingExact, build, clock
<1> QED BY <1>6, <1>7, <1>8, <1>9, <1>10, <1>11, <1>12, <1>13, <1>14, <1>15, <1>16, <1>17,
           <1>18, <1>19, <1>20, <1>21 DEF Next

LEMMA ReadInit == Init => ReadInv
<1> SUFFICES ASSUME Init PROVE ReadInv
  OBVIOUS
<1>1. m = NoMeasure /\ reading = NoReading /\ calls = 0 /\ pc = "idle" /\ platform \in Platforms
  BY DEF Init
<1> QED BY <1>1 DEF ReadInv, ReadingExact, Measure, NoMeasure, NoReading

(* A time is the time between its two readings, however the halves of the  *)
(* counter wrap and seconds and microseconds carry.                        *)
THEOREM ExactReadings == Spec => []ReadingExact
<1>1. ReadInv => ReadingExact
  BY DEF ReadInv
<1> QED BY <1>1, ReadInit, ReadStep, PTL DEF Spec

-------------------------------------------------------------------------------
(* As long as no tick has come between two readings of callibrate that     *)
(* belong together, the cycles since oldt hold every tick since oldc, each *)
(* at the cost of the cheapest one or more; so does what is recorded.      *)
Unsplit ==
    /\ seen.cheapest = 0 => cyc_per_tick = 0 /\ cal.lag = 0
    /\ cyc_per_tick = 0 \/ cyc_per_tick >= UNIT * seen.cheapest
    /\ pc = "loop" => /\ m.now - m.started < W * W
                      /\ cal.oldt <= m.now - m.started
                      /\ cal.lag * seen.cheapest <= m.now - m.started - cal.oldt

Cal  == [e : Nat, oldt : Int, lag : Nat, idle : Nat]
Seen == [cheapest : Nat, split : BOOLEAN, round : BOOLEAN]

TickInv ==
    /\ cyc_per_tick \in Nat /\ calls \in Nat
    /\ cal \in Cal
    /\ seen \in Seen
    /\ pc # "idle" => calls > 0
    /\ pc \in {"callibrate", "loop"} \/ calls = 0 => reading = NoReading
    /\ pc = "callibrate" => cyc_per_tick = 0
    /\ pc \in {"run", "read"} => m.ran <= m.ticks
    /\ platform = "i386" /\ ~seen.split /\ ~seen.round => Unsplit
    /\ OnlySplitOverestimates

(* A quotient is at least what the divisor's multiple below the number is. *)
LEMMA DivAtLeast ==
    ASSUME NEW D \in Nat \ {0}, NEW n \in Int, NEW b \in Int, n >= D * b
    PROVE  n \div D >= b
<1> DEFINE q == n \div D
           r == n % D
<1>1. q \in Int /\ r \in 0..(D - 1) /\ n = D * q + r
  BY DivMod
<1> HIDE DEF q, r
<1> SUFFICES ASSUME q < b PROVE FALSE
  BY <1>1 DEF q
<1>2. PICK f \in Nat : b = q + 1 + f
  <2>1. b - q - 1 \in Nat /\ b = q + 1 + (b - q - 1)
    BY <1>1
  <2> QED BY <2>1
<1>3. D * b = D * q + D + D * f /\ D * q \in Int /\ D * f \in Int /\ D * f >= 0
  BY <1>1, <1>2
<1> QED BY <1>1, <1>3

(* Products grow with their factors.                                       *)
LEMMA Monotone ==
    ASSUME NEW a \in Nat, NEW b \in Nat, NEW c \in Nat, NEW d \in Nat, a <= b, c <= d
    PROVE  a * c <= b * d /\ a * c \in Nat /\ b * d \in Nat
<1>1. PICK f \in Nat : b = a + f
  <2>1. b - a \in Nat /\ b = a + (b - a)
    OBVIOUS
  <2> QED BY <2>1
<1>2. PICK g \in Nat : d = c + g
  <2>1. d - c \in Nat /\ d = c + (d - c)
    OBVIOUS
  <2> QED BY <2>1
<1>3. (a + f) * (c + g) = a * c + a * g + f * c + f * g
  OBVIOUS
<1>4. a * c \in Nat /\ a * g \in Nat /\ f * c \in Nat /\ f * g \in Nat
  OBVIOUS
<1>5. b * d = a * c + a * g + f * c + f * g
  BY <1>1, <1>2, <1>3
<1> QED BY <1>4, <1>5

(* The cheapest tick so far, and one more tick since oldc.                 *)
LEMMA CheapestCounted ==
    ASSUME NEW cost \in Nat, NEW lag \in Nat, cost = 0 => lag = 0,
           NEW tick \in Nat, NEW gap \in Int, lag * cost <= gap
    PROVE  /\ Cheaper(tick, cost) \in Nat
           /\ Cheaper(tick, cost) <= cost \/ cost = 0
           /\ Cheaper(tick, cost) = 0 => tick = 0 /\ cost = 0
           /\ (lag + Count(tick)) * Cheaper(tick, cost) <= gap + tick
<1> DEFINE c == Cheaper(tick, cost)
           n == Count(tick)
<1>1. c \in Nat /\ (c <= cost \/ cost = 0) /\ (c = 0 => tick = 0 /\ cost = 0)
  BY DEF Cheaper
<1>2. n \in {0, 1} /\ (n = 0 <=> tick = 0) /\ (tick # 0 => c <= tick)
  BY DEF Count, Cheaper
<1> HIDE DEF c, n
<1>3. lag * c <= gap /\ lag * c \in Nat
  <2>1. CASE cost = 0
    <3>1. lag * cost = 0 /\ lag * c = 0
      BY <2>1, <1>1
    <3> QED BY <3>1
  <2>2. CASE cost # 0
    <3>1. lag * c <= lag * cost /\ lag * c \in Nat /\ lag * cost \in Nat
      BY <1>1, <2>2, Monotone
    <3> QED BY <3>1
  <2> QED BY <2>1, <2>2
<1>4. (lag + n) * c <= gap + tick
  <2>1. CASE n = 0
    <3>1. (lag + n) * c = lag * c
      BY <2>1
    <3> QED BY <3>1, <1>3
  <2>2. CASE n = 1
    <3>1. (lag + 1) * c = lag * c + c
      BY <1>1
    <3>2. (lag + n) * c = lag * c + c
      BY <2>2, <3>1
    <3> QED BY <3>2, <2>2, <1>1, <1>2, <1>3
  <2> QED BY <2>1, <2>2, <1>2
<1> QED BY <1>1, <1>4 DEF c, n

(* clock.c:224-245: as long as no tick splits two readings, what is        *)
(* recorded of a tick is at least the cost of the cheapest one, and newt   *)
(* is exact until the counter has come round.                              *)
LEMMA CallibrateStep ==
    ASSUME ReadInv, TickInv, NEW g \in Gaps, NEW tick \in TickCosts \cup {0},
           NEW late \in TickCosts \cup {0}, Callibrate(g, tick, late)
    PROVE  TickInv'
<1> DEFINE spent == m.now - m.started + g + tick
           now   == m.started + (spent % Span)
           newt  == get_counter(cyc, access_counter(platform, now))
           lag   == Least(cal.lag + Count(tick) + Count(late), MaxLag)
           gap   == newt - cal.oldt
           cpt   == CyclesPerTick(gap, lag)
           oldt  == IF IsEvent(gap, lag) \/ gap >= THRESHOLD THEN newt ELSE cal.oldt
           left  == IF IsEvent(gap, lag) THEN 0 ELSE lag
           e     == IF IsEvent(gap, lag) THEN cal.e + 1 ELSE cal.e
<1>1. /\ \A c \in TickCosts : c \in Nat \ {0}
      /\ g \in Nat /\ MaxLag \in Nat \ {0} /\ THRESHOLD \in Nat \ {0} /\ RECORDTHRESH \in Nat
      /\ W \in Nat \ {0} /\ W * W \in Nat \ {0} /\ UNIT = 6
  BY FSecsAssumption, TickAssumption, ClockAssumption DEF UNIT
<1>2. tick \in Nat /\ late \in Nat
  BY <1>1
<1>3. /\ m.started \in Nat /\ m.now \in Nat /\ m.started <= m.now /\ platform \in Platforms
      /\ pc = "loop" /\ pc' = pc /\ cyc = access_counter(platform, m.started) /\ m \in Measure
  BY DEF ReadInv, Measure, Callibrate
<1>4. /\ cyc_per_tick \in Nat /\ calls \in Nat /\ calls > 0 /\ reading = NoReading
      /\ cal \in Cal
      /\ cal.e \in Nat /\ cal.oldt \in Int /\ cal.lag \in Nat
      /\ seen \in Seen
      /\ seen.cheapest \in Nat
      /\ platform = "i386" /\ ~seen.split /\ ~seen.round => Unsplit
  BY <1>3 DEF TickInv, Cal, Seen
<1>5. /\ UNCHANGED <<platform, compensate, calls, reading>>
      /\ cyc_per_tick' = IF IsEvent(gap, lag) THEN Record(cyc_per_tick, cpt) ELSE cyc_per_tick
      /\ m' = [m EXCEPT !.now = now + late]
      /\ seen' = [cheapest |-> IF seen.split \/ late # 0 THEN 0 ELSE Cheaper(tick, seen.cheapest),
                  split |-> seen.split \/ late # 0,
                  round |-> seen.round \/ spent + late >= Span]
  BY DEF Callibrate, settings, build
<1>6. cal' = [(IF IsEvent(gap, lag) THEN EventSeen(newt, lag)
               ELSE [cal EXCEPT !.lag = lag, !.oldt = IF gap >= THRESHOLD THEN newt ELSE @])
              EXCEPT !.idle = IF tick + late = 0 THEN @ + g ELSE 0]
  BY DEF Callibrate
<1>7. spent \in Nat /\ Span \in Nat \ {0}
  BY <1>1, <1>2, <1>3 DEF Span
<1>8. spent % Span \in Nat /\ now \in Nat
  <2>1. spent % Span \in Nat
    BY <1>7
  <2> QED BY <2>1, <1>3
<1>9. newt \in Int
  BY <1>3, <1>8, CounterType
<1>10. lag \in Nat /\ lag <= cal.lag + Count(tick) + Count(late)
       /\ Count(tick) \in {0, 1} /\ Count(late) \in {0, 1}
  BY <1>1, <1>4 DEF Least, Count
<1>11. /\ platform = "i386" /\ spent < W * W => newt = spent /\ now = m.started + spent
  <2> SUFFICES ASSUME platform = "i386", spent < W * W
               PROVE  newt = spent /\ now = m.started + spent
    OBVIOUS
  <2>1. Span = W * W
    BY DEF Span
  <2>2. spent % Span = spent
    BY <1>7, <2>1
  <2>3. now = m.started + spent
    BY <2>2
  <2> DEFINE t == m.started + spent
  <2>4. t \in Nat /\ m.started <= t /\ t - m.started = spent
    BY <1>3, <1>7
  <2>5. get_counter(access_counter(platform, m.started), access_counter(platform, t)) = spent
    <3> HIDE DEF spent, t
    <3> QED BY <1>3, <1>7, <2>4, CounterExact
  <2> QED BY <1>3, <2>3, <2>5
<1>12. m' \in Measure /\ m'.started = m.started /\ m'.now = now + late
  <2> DEFINE n == now + late
  <2>1. n \in Nat /\ m' = [m EXCEPT !.now = n]
    BY <1>2, <1>5, <1>8
  <2> HIDE DEF n
  <2> QED BY <1>3, <2>1 DEF Measure, n
<1> HIDE DEF now, newt, lag
<1>13. gap \in Int /\ oldt \in Int /\ left \in Nat /\ e \in Nat
  BY <1>1, <1>2, <1>4, <1>9, <1>10
<1>14. IsEvent(gap, lag) => lag \in Nat \ {0} /\ UNIT * gap \in Nat /\ cpt \in Nat
  <2> SUFFICES ASSUME IsEvent(gap, lag) PROVE lag \in Nat \ {0} /\ UNIT * gap \in Nat /\ cpt \in Nat
    OBVIOUS
  <2>1. lag \in Nat \ {0} /\ gap \in Nat
    BY <1>1, <1>10, <1>13 DEF IsEvent
  <2> HIDE DEF gap
  <2>2. UNIT * gap \in Nat
    BY <2>1, <1>1
  <2> DEFINE u == UNIT * gap
  <2> HIDE DEF u
  <2>3. u \div lag \in Nat
    BY <2>1, <2>2, DivNat DEF u
  <2> QED BY <2>1, <2>2, <2>3 DEF u, CyclesPerTick
<1> HIDE DEF gap, cpt
<1>15. cyc_per_tick' \in {cyc_per_tick, cpt} /\ (cyc_per_tick' # cyc_per_tick => IsEvent(gap, lag))
  BY <1>5 DEF Record
<1>16. cyc_per_tick' \in Nat
  BY <1>4, <1>14, <1>15
<1>17. cal' \in Cal /\ cal'.oldt = oldt /\ cal'.lag = left
  <2> DEFINE after == IF IsEvent(gap, lag) THEN EventSeen(newt, lag)
                      ELSE [cal EXCEPT !.lag = lag,
                                       !.oldt = IF gap >= THRESHOLD THEN newt ELSE @]
  <2>1. after \in Cal /\ after.oldt = oldt /\ after.lag = left
    <3>1. CASE IsEvent(gap, lag)
      <4>1. after = [cal EXCEPT !.e = e, !.oldt = oldt, !.lag = left]
        BY <3>1 DEF EventSeen
      <4> HIDE DEF oldt, left, e, after
      <4> QED BY <4>1, <1>4, <1>13 DEF Cal
    <3>2. CASE ~IsEvent(gap, lag)
      <4>1. after = [cal EXCEPT !.lag = left, !.oldt = oldt]
        BY <3>2
      <4> HIDE DEF oldt, left, after
      <4> QED BY <4>1, <1>4, <1>13 DEF Cal
    <3> QED BY <3>1, <3>2
  <2>2. cal' = [after EXCEPT !.idle = IF tick + late = 0 THEN @ + g ELSE 0]
    BY <1>6
  <2> HIDE DEF after, oldt, left
  <2> DEFINE i == IF tick + late = 0 THEN after.idle + g ELSE 0
  <2>3. cal' = [after EXCEPT !.idle = i] /\ i \in Nat
    BY <2>1, <2>2, <1>1 DEF Cal
  <2> HIDE DEF i
  <2> QED BY <2>1, <2>3 DEF Cal
<1>18. seen' \in Seen
  BY <1>2, <1>4, <1>5 DEF Cheaper, Seen
<1>19. ASSUME platform = "i386", ~seen'.split, ~seen'.round PROVE Unsplit'
  <2> DEFINE cost == Cheaper(tick, seen.cheapest)
  <2>1. late = 0 /\ ~seen.split /\ ~seen.round /\ spent + late < Span
        /\ seen'.cheapest = cost
    <3>1. /\ seen'.split = (seen.split \/ late # 0)
          /\ seen'.round = (seen.round \/ spent + late >= Span)
          /\ seen'.cheapest = IF seen.split \/ late # 0 THEN 0
                              ELSE Cheaper(tick, seen.cheapest)
      <4> HIDE DEF spent, cost
      <4> QED BY <1>5
    <3>2. ~seen.split /\ late = 0 /\ ~seen.round /\ ~(spent + late >= Span)
      BY <3>1, <1>19
    <3>3. spent + late < Span
      BY <3>2, <1>2, <1>7
    <3> QED BY <3>1, <3>2, <3>3
  <2>2. spent < W * W /\ newt = spent /\ m'.now = m.started + spent
    <3>1. spent < W * W
      BY <2>1, <1>7, <1>19 DEF Span
    <3> QED BY <2>1, <3>1, <1>11, <1>12, <1>19, <1>3, <1>7
  <2>3. /\ seen.cheapest = 0 => cyc_per_tick = 0 /\ cal.lag = 0
        /\ cyc_per_tick = 0 \/ cyc_per_tick >= UNIT * seen.cheapest
        /\ cal.oldt <= m.now - m.started
        /\ cal.lag * seen.cheapest <= m.now - m.started - cal.oldt
    BY <2>1, <1>3, <1>4, <1>19 DEF Unsplit
  <2> DEFINE before == m.now - m.started - cal.oldt
             total  == cal.lag + Count(tick)
  <2>4. before \in Int /\ total \in Nat /\ gap = before + g + tick /\ lag <= total
    <3>1. before \in Int /\ total \in Nat
      BY <1>3, <1>4, <1>10
    <3>2. Count(late) = 0
      BY <2>1 DEF Count
    <3>3. gap = before + g + tick
      BY <2>2, <1>1, <1>2, <1>3, <1>4 DEF gap
    <3> QED BY <3>1, <3>2, <3>3, <1>10
  <2>5. /\ cost \in Nat /\ (cost <= seen.cheapest \/ seen.cheapest = 0)
        /\ cost = 0 => tick = 0 /\ seen.cheapest = 0
        /\ total * cost <= before + tick
    <3> HIDE DEF before
    <3>1. seen.cheapest = 0 => cal.lag = 0
      BY <2>3
    <3>2. cal.lag * seen.cheapest <= before
      BY <2>3 DEF before
    <3> QED BY <3>1, <3>2, <2>4, <1>2, <1>4, CheapestCounted
  <2> HIDE DEF cost, before, total
  <2>6. lag * cost <= gap /\ lag * cost \in Nat
    <3>1. lag * cost <= total * cost /\ lag * cost \in Nat /\ total * cost \in Nat
      BY <2>4, <2>5, <1>10, Monotone
    <3> QED BY <3>1, <2>4, <2>5, <1>1, <1>2
  <2>7. cost = 0 => lag = 0
    <3>1. ASSUME cost = 0 PROVE total = 0
      BY <3>1, <2>3, <2>5 DEF total, Count
    <3> QED BY <3>1, <2>4, <1>10
  <2>8. cyc_per_tick' = 0 \/ cyc_per_tick' >= UNIT * cost
    <3>1. CASE cyc_per_tick' = cyc_per_tick
      <4>1. cyc_per_tick = 0 \/ cost <= seen.cheapest
        BY <2>3, <2>5
      <4> QED BY <3>1, <4>1, <2>3, <2>5, <1>1, <1>4
    <3>2. CASE cyc_per_tick' # cyc_per_tick
      <4>1. IsEvent(gap, lag) /\ cyc_per_tick' = cpt
        BY <3>2, <1>15
      <4>2. UNIT * gap >= lag * (UNIT * cost)
        <5>1. lag * (UNIT * cost) = UNIT * (lag * cost)
          BY <1>1, <1>10, <2>5
        <5> QED BY <5>1, <2>6, <1>1, <1>13
      <4> DEFINE u == UNIT * gap
                 v == UNIT * cost
      <4>3. u \in Int /\ v \in Int /\ u >= lag * v
        BY <4>2, <1>1, <1>13, <2>5
      <4> HIDE DEF u, v
      <4>4. u \div lag >= v
        BY <4>1, <4>3, <1>14, DivAtLeast
      <4> QED BY <4>1, <4>4 DEF u, v, cpt, CyclesPerTick
    <3> QED BY <3>1, <3>2
  <2>9. cost = 0 => cyc_per_tick' = 0 /\ left = 0
    <3> SUFFICES ASSUME cost = 0 PROVE cyc_per_tick' = 0 /\ left = 0
      OBVIOUS
    <3>1. lag = 0 /\ cyc_per_tick = 0
      BY <2>3, <2>5, <2>7
    <3>2. ~IsEvent(gap, lag)
      BY <3>1 DEF IsEvent
    <3> QED BY <3>1, <3>2, <1>15
  <2>10. oldt <= spent /\ left * cost <= spent - oldt
    <3>1. spent - cal.oldt = gap
      BY <2>2 DEF gap
    <3>2. gap >= 0
      BY <2>6, <1>13
    <3>3. CASE IsEvent(gap, lag)
      <4>1. oldt = spent /\ left = 0 /\ left * cost = 0
        BY <3>3, <2>2, <2>5
      <4> QED BY <4>1, <1>7
    <3>4. CASE ~IsEvent(gap, lag) /\ gap >= THRESHOLD
      <4>1. oldt = spent /\ left = 0 /\ left * cost = 0
        BY <3>4, <2>2, <2>5, <1>10 DEF IsEvent
      <4> QED BY <4>1, <1>7
    <3>5. CASE ~IsEvent(gap, lag) /\ ~(gap >= THRESHOLD)
      <4>1. oldt = cal.oldt /\ left = lag
        BY <3>5
      <4> QED BY <4>1, <3>1, <3>2, <2>6, <1>4, <1>7
    <3> QED BY <3>3, <3>4, <3>5
  <2>11. m'.now - m'.started = spent
    BY <2>2, <1>3, <1>7, <1>12
  <2> HIDE DEF oldt, left, spent
  <2> QED BY <2>1, <2>2, <2>8, <2>9, <2>10, <2>11, <1>17 DEF Unsplit
<1>20. OnlySplitOverestimates'
  <2>1. reading' = NoReading
    BY <1>4, <1>5
  <2>2. reading'.val = 0 /\ reading'.own = 0 /\ reading'.taken = 0 /\ reading'.ran = 0
    BY <2>1 DEF NoReading
  <2>3. seen'.cheapest \in Nat
    BY <1>18 DEF Seen
  <2>4. 0 <= UNIT * (0 + 0 - 0 * seen'.cheapest)
    BY <2>3, <1>1
  <2> QED BY <2>2, <2>4 DEF OnlySplitOverestimates
<1> QED BY <1>3, <1>4, <1>5, <1>16, <1>17, <1>18, <1>19, <1>20 DEF TickInv

(* clock.c:262-274: what is subtracted is at least the cost of the cheapest *)
(* tick for every tick the time contains.                                   *)
LEMMA ReadTickStep ==
    ASSUME ReadInv, TickInv, NEW late \in {0, 1}, Read(late)
    PROVE  TickInv'
<1> DEFINE time  == get_counter(cyc, access_counter(platform, m.now))
           ticks == m.ticks + late
           val   == UNIT * time - (IF compensate THEN ticks * cyc_per_tick ELSE 0)
<1>1. /\ pc = "read" /\ pc' \in {"return", "turn"} /\ calls' = calls
      /\ reading'.val = val /\ reading'.own = m.own /\ reading'.taken = m.taken
      /\ reading'.ran = m.ran
      /\ UNCHANGED <<cal, cyc_per_tick, seen>>
      /\ compensate' = compensate /\ platform' = platform
  BY DEF Read, settings, build
<1>2. /\ cyc_per_tick \in Nat /\ calls \in Nat /\ calls > 0
      /\ cal \in Cal
      /\ seen \in Seen
      /\ seen.cheapest \in Nat
      /\ m.ran <= m.ticks
      /\ platform = "i386" /\ ~seen.split /\ ~seen.round => Unsplit
  BY <1>1 DEF TickInv, Seen
<1>3. m.started \in Nat /\ m.now \in Nat /\ m.own \in Nat /\ m.taken \in Nat
      /\ m.ran \in Nat /\ m.ticks \in Nat /\ m.started <= m.now
      /\ platform \in Platforms /\ m.own \in OwnTimes /\ m.taken <= MaxTaken
      /\ m.now = m.started + m.own + m.taken /\ cyc = access_counter(platform, m.started)
  BY <1>1 DEF ReadInv, Measure
<1>4. platform = "i386" /\ ~seen.split /\ ~seen.round => Unsplit'
  BY <1>1, <1>2 DEF Unsplit
<1>5. ASSUME compensate', cyc_per_tick' # 0, ~seen'.split, ~seen'.round, platform' = "i386"
      PROVE  reading'.val <=
               UNIT * (reading'.own + reading'.taken - reading'.ran * seen'.cheapest)
  <2>1. Unsplit /\ compensate /\ platform = "i386"
    BY <1>1, <1>2, <1>5
  <2>2. cyc_per_tick >= UNIT * seen.cheapest
    BY <1>1, <1>5, <2>1 DEF Unsplit
  <2>3. m.own + MaxTaken < W * W /\ W * W \in Nat /\ MaxTaken \in Nat /\ UNIT = 6
    BY <1>3, FSecsAssumption, TickAssumption, ClockAssumption DEF UNIT
  <2>4. time = m.own + m.taken
    <3>1. m.now - m.started = m.own + m.taken /\ m.now - m.started < W * W
      BY <1>3, <2>3
    <3> QED BY <1>3, <2>1, <3>1, CounterExact
  <2> HIDE DEF time
  <2> DEFINE c == seen.cheapest
             k == m.ran
             n == ticks
  <2>5. k \in Nat /\ n \in Nat /\ k <= n /\ c \in Nat /\ UNIT * c \in Nat
    BY <1>2, <1>3, <2>3
  <2> HIDE DEF c, k, n
  <2>6. k * (UNIT * c) <= n * cyc_per_tick /\ n * cyc_per_tick \in Nat
    BY <2>2, <2>5, <1>2, Monotone DEF c
  <2>7. k * (UNIT * c) = UNIT * (k * c) /\ k * c \in Nat
    BY <2>3, <2>5
  <2>8. val = UNIT * time - n * cyc_per_tick
    BY <2>1 DEF n
  <2> HIDE DEF val
  <2>9. val <= UNIT * (m.own + m.taken - k * c)
    BY <1>3, <2>3, <2>4, <2>6, <2>7, <2>8
  <2> QED BY <2>9, <1>1 DEF k, c
<1>6. OnlySplitOverestimates'
  BY <1>5 DEF OnlySplitOverestimates
<1> QED BY <1>1, <1>2, <1>4, <1>6 DEF TickInv

LEMMA TickStep == ReadInv /\ TickInv /\ [Next]_vars => TickInv'
<1> SUFFICES ASSUME ReadInv, TickInv, [Next]_vars PROVE TickInv'
  OBVIOUS
<1>1. /\ cyc_per_tick \in Nat /\ calls \in Nat
      /\ cal \in Cal
      /\ seen \in Seen
      /\ pc # "idle" => calls > 0
      /\ pc \in {"callibrate", "loop"} \/ calls = 0 => reading = NoReading
      /\ pc = "callibrate" => cyc_per_tick = 0
      /\ pc \in {"run", "read"} => m.ran <= m.ticks
      /\ platform = "i386" /\ ~seen.split /\ ~seen.round => Unsplit
      /\ OnlySplitOverestimates
  BY DEF TickInv
<1>2. ASSUME reading' = NoReading, seen' \in Seen
      PROVE  OnlySplitOverestimates'
  <2>1. reading'.val = 0 /\ reading'.own = 0 /\ reading'.taken = 0 /\ reading'.ran = 0
    BY <1>2 DEF NoReading
  <2>2. seen'.cheapest \in Nat /\ UNIT = 6
    BY <1>2 DEF UNIT, Seen
  <2>3. 0 <= UNIT * (0 + 0 - 0 * seen'.cheapest)
    BY <2>2
  <2> QED BY <2>1, <2>3 DEF OnlySplitOverestimates
(* Steps that touch neither ticks nor readings.                            *)
<1>3. ASSUME UNCHANGED <<cyc_per_tick, cal, seen, platform>>,
             pc' \notin {"loop", "run", "read"},
             calls' \in Nat, calls' >= calls, pc' # "idle" => calls' > 0,
             (compensate' = compensate /\ reading' = reading) \/ reading' = NoReading,
             pc' = "callibrate" => reading' = NoReading /\ cyc_per_tick = 0
      PROVE  TickInv'
  <2>1. platform = "i386" /\ ~seen.split /\ ~seen.round => Unsplit'
    BY <1>1, <1>3 DEF Unsplit
  <2>2. OnlySplitOverestimates'
    BY <1>1, <1>2, <1>3 DEF OnlySplitOverestimates
  <2>3. calls' = 0 => reading' = NoReading
    BY <1>1, <1>3
  <2> QED BY <1>1, <1>3, <2>1, <2>2, <2>3 DEF TickInv
<1>4. ASSUME NEW k \in Ks, NEW max \in MaxSamples, NEW c \in BOOLEAN, NEW b \in BOOLEAN,
             SetSampling(k, max, c, b)
      PROVE  TickInv'
  BY <1>1, <1>3, <1>4 DEF SetSampling, clock, build
<1>5. ASSUME NEW bytes \in CacheSizes, set_fcyc_cache_size(bytes) PROVE TickInv'
  BY <1>1, <1>3, <1>5 DEF set_fcyc_cache_size, clock, build
<1>6. ASSUME NEW bytes \in BlockSizes, set_fcyc_cache_block(bytes) PROVE TickInv'
  BY <1>1, <1>3, <1>6 DEF set_fcyc_cache_block, clock, build
<1>7. CASE StartFcyc
  BY <1>1, <1>3, <1>7 DEF StartFcyc, clock, build, settings
<1>8. CASE Turn
  <2>1. /\ pc = "turn" /\ reading' = NoReading
        /\ UNCHANGED <<platform, cyc_per_tick, cal, seen, calls>>
        /\ pc' \in {"fault", "clear", "exit", AfterClear}
    BY <1>8 DEF Turn, build
  <2>2. AfterClear \in {"exit", "callibrate", "start"}
        /\ (AfterClear = "callibrate" => cyc_per_tick = 0)
    BY DEF AfterClear
  <2> QED BY <2>1, <2>2, <1>1, <1>3
<1>9. ASSUME NEW t \in StartTimes, NEW early \in {0, 1}, StartCallibrate(t, early)
      PROVE  TickInv'
  <2>1. /\ pc = "callibrate" /\ pc' = "loop"
        /\ UNCHANGED <<platform, compensate, cyc_per_tick, calls, reading>>
        /\ cyc' = access_counter(platform, t)
        /\ m' = [NoMeasure EXCEPT !.started = t, !.now = t]
        /\ cal' = [NoCal EXCEPT !.oldt = get_counter(cyc', access_counter(platform, t)),
                                !.lag = early]
        /\ seen' = [NoSeen EXCEPT !.split = (early = 1)]
    BY <1>9 DEF StartCallibrate, build, settings
  <2>2. t \in Nat /\ m'.started = t /\ m'.now = t /\ platform \in Platforms
    <3>1. t \in Nat
      BY FSecsAssumption
    <3>2. m'.started = t /\ m'.now = t
      BY <2>1 DEF NoMeasure
    <3> QED BY <3>1, <3>2 DEF ReadInv
  <2> DEFINE o == get_counter(cyc', access_counter(platform, t))
  <2>3. o \in Int /\ (platform = "i386" => o = 0)
    <3>1. W * W > 0 /\ t - t < W * W /\ t - t = 0
      BY <2>2, ClockAssumption
    <3> QED BY <2>1, <2>2, <3>1, CounterType, CounterExact
  <2>4. cal' = [e |-> 0, oldt |-> o, lag |-> early, idle |-> 0]
    BY <2>1 DEF NoCal
  <2> HIDE DEF o
  <2>5. cal' \in Cal /\ cal'.oldt = o /\ cal'.lag = early
    BY <2>3, <2>4 DEF Cal
  <2>6. seen'.cheapest = 0 /\ seen'.split = (early = 1) /\ seen' \in Seen
    BY <2>1 DEF NoSeen, Seen
  <2>7. ASSUME platform = "i386", ~seen'.split PROVE Unsplit'
    <3>1. early = 0 /\ o = 0 /\ seen'.cheapest = 0 /\ cyc_per_tick' = 0
      BY <1>1, <2>1, <2>3, <2>6, <2>7
    <3>2. m'.now - m'.started = 0 /\ 0 < W * W /\ 0 * 0 <= 0 - 0
      BY <2>2, ClockAssumption
    <3> QED BY <3>1, <3>2, <2>5 DEF Unsplit
  <2>8. seen' \in Seen /\ reading' = NoReading
    BY <1>1, <2>1, <2>6
  <2>9. OnlySplitOverestimates'
    BY <1>2, <2>8
  <2> QED BY <1>1, <2>1, <2>5, <2>7, <2>8, <2>9 DEF TickInv
<1>10. ASSUME NEW g \in Gaps, NEW tick \in TickCosts \cup {0},
              NEW late \in TickCosts \cup {0}, Callibrate(g, tick, late)
       PROVE  TickInv'
  BY <1>10, CallibrateStep
<1>11. CASE Callibrated
  <2>1. /\ pc = "loop" /\ pc' = "start" /\ cal' = NoCal
        /\ UNCHANGED <<platform, compensate, cyc_per_tick, calls, reading, seen>>
    BY <1>11 DEF Callibrated, build, settings
  <2>2. cal' \in Cal /\ cal'.lag = 0
    BY <2>1 DEF NoCal, Cal
  <2>3. platform = "i386" /\ ~seen.split /\ ~seen.round => Unsplit'
    BY <1>1, <2>1, <2>2 DEF Unsplit
  <2>4. OnlySplitOverestimates'
    BY <1>1, <2>1 DEF OnlySplitOverestimates
  <2> QED BY <1>1, <2>1, <2>2, <2>3, <2>4 DEF TickInv
<1>12. ASSUME NEW t \in StartTimes, NEW late \in {0, 1}, StartCounter(t, late)
       PROVE  TickInv'
  <2>1. /\ pc = "start" /\ pc' = "run"
        /\ m' = [NoMeasure EXCEPT !.started = t, !.now = t, !.ticks = late]
        /\ UNCHANGED <<platform, compensate, cyc_per_tick, cal, calls, reading, seen>>
    BY <1>12 DEF StartCounter, build, settings
  <2>2. m'.ran <= m'.ticks
    BY <2>1 DEF NoMeasure
  <2>3. platform = "i386" /\ ~seen.split /\ ~seen.round => Unsplit'
    BY <1>1, <2>1 DEF Unsplit
  <2>4. OnlySplitOverestimates'
    BY <1>1, <2>1 DEF OnlySplitOverestimates
  <2> QED BY <1>1, <2>1, <2>2, <2>3, <2>4 DEF TickInv
<1>13. ASSUME UNCHANGED <<platform, compensate, cyc_per_tick, cal, calls, reading, seen>>,
              pc' \in {"run", "read"}, pc # "idle", m'.ran <= m'.ticks
       PROVE  TickInv'
  <2>1. platform = "i386" /\ ~seen.split /\ ~seen.round => Unsplit'
    BY <1>1, <1>13 DEF Unsplit
  <2>2. OnlySplitOverestimates'
    BY <1>1, <1>13 DEF OnlySplitOverestimates
  <2> QED BY <1>1, <1>13, <2>1, <2>2 DEF TickInv
<1>14. ASSUME NEW c \in TickCosts, Tick(c) PROVE TickInv'
  <2> DEFINE v == m.now + c
             k == m.ticks + 1
             x == m.taken + c
             r == m.ran + 1
  <2>1. /\ pc = "run" /\ pc' = "run" /\ m' = [m EXCEPT !.now = v, !.ticks = k, !.taken = x, !.ran = r]
        /\ UNCHANGED <<platform, compensate, cyc_per_tick, cal, calls, reading, seen>>
    BY <1>14 DEF Tick, build, settings, clock
  <2>2. m \in Measure /\ r <= k
    BY <1>1, <2>1 DEF ReadInv, Measure
  <2> HIDE DEF v, k, x, r
  <2>3. m'.ran = r /\ m'.ticks = k
    BY <2>1, <2>2 DEF Measure
  <2> QED BY <2>1, <2>2, <2>3, <1>13
<1>15. ASSUME NEW d \in OwnTimes, Run(d) PROVE TickInv'
  <2>1. /\ pc = "run" /\ pc' = "read" /\ m' = [m EXCEPT !.now = @ + d, !.own = d]
        /\ UNCHANGED <<platform, compensate, cyc_per_tick, cal, calls, reading, seen>>
    BY <1>15 DEF Run, build, settings, clock
  <2>2. m'.ran = m.ran /\ m'.ticks = m.ticks
    BY <2>1 DEF ReadInv, Measure
  <2> QED BY <2>1, <2>2, <1>1, <1>13
<1>16. ASSUME NEW late \in {0, 1}, Read(late) PROVE TickInv'
  BY <1>16, ReadTickStep
<1>17. CASE Return
  BY <1>1, <1>3, <1>17 DEF Return, build, settings
<1>18. ASSUME NEW t \in TimerStarts, StartTimer(t) PROVE TickInv'
  BY <1>1, <1>3, <1>18 DEF StartTimer, clock, build, settings
<1>19. ASSUME NEW d \in OwnTimes, RunTimed(d) PROVE TickInv'
  <2>1. pc = "timed" /\ pc' \in {"timed", "killed"}
    BY <1>19 DEF RunTimed
  <2> QED BY <2>1, <1>1, <1>3, <1>19 DEF RunTimed, clock, build, settings
<1>20. CASE EndTimer
  BY <1>1, <1>3, <1>20 DEF EndTimer, clock, build, settings
<1>21. CASE UNCHANGED vars
  <2>1. UNCHANGED <<cyc_per_tick, cal, seen, platform, pc, calls, compensate, reading, m>>
    BY <1>21 DEF vars, clock, build, settings
  <2>2. Unsplit => Unsplit'
    BY <2>1 DEF Unsplit
  <2>3. OnlySplitOverestimates'
    BY <2>1, <1>1 DEF OnlySplitOverestimates
  <2> QED BY <2>1, <2>2, <2>3, <1>1 DEF TickInv
<1> QED BY <1>4, <1>5, <1>6, <1>7, <1>8, <1>9, <1>10, <1>11, <1>12, <1>14, <1>15, <1>16, <1>17,
           <1>18, <1>19, <1>20, <1>21 DEF Next

LEMMA TickInit == Init => TickInv
<1> SUFFICES ASSUME Init PROVE TickInv
  OBVIOUS
<1>1. /\ cyc_per_tick = 0 /\ calls = 0 /\ cal = NoCal /\ pc = "idle"
      /\ reading = NoReading /\ seen = NoSeen
  BY DEF Init
<1> QED BY <1>1 DEF TickInv, Unsplit, OnlySplitOverestimates, NoCal, NoSeen, Cal, Seen

(* Whatever the ticks cost, and however many come: a corrected time        *)
(* exceeds the function's own cycles by no more than what its ticks cost   *)
(* above the cheapest one that callibrate met, as long as no tick fell     *)
(* between two readings of callibrate that belong together, and it took    *)
(* fewer cycles than bring the counter round.                              *)
THEOREM Compensation == Spec => []OnlySplitOverestimates
<1>1. TickInv => OnlySplitOverestimates
  BY DEF TickInv
<1> QED BY <1>1, ReadInit, ReadStep, TickInit, TickStep, PTL DEF Spec

-------------------------------------------------------------------------------
IsSorted(r, n) == \A i, j \in 1..n : i < j => r[i] <= r[j]

(* An order of 1..n is one to one.                                         *)
LEMMA OrderInjective ==
    ASSUME NEW n \in Nat, NEW p \in Orders(n)
    PROVE  \A i, j \in 1..n : p[i] = p[j] => i = j
<1>1. IsFiniteSet(1..n)
  BY FS_Interval
<1>2. p \in Surjection(1..n, 1..n)
  BY DEF Orders, Surjection
<1>3. p \in Injection(1..n, 1..n)
  BY <1>1, <1>2, FS_SurjSameCardinalityImpliesInj
<1> QED BY <1>3 DEF Injection, IsInjective

(* Ordering numbers does not change how many of them are at most x.        *)
LEMMA OrderCounts ==
    ASSUME NEW n \in Nat, NEW s \in [1..n -> Int], NEW p \in Orders(n), NEW x \in Int
    PROVE  Cardinality({i \in 1..n : s[p[i]] <= x}) = Cardinality({j \in 1..n : s[j] <= x})
<1> DEFINE A == {i \in 1..n : s[p[i]] <= x}
           C == {j \in 1..n : s[j] <= x}
           f == [i \in A |-> p[i]]
<1>1. p \in [1..n -> 1..n] /\ \A j \in 1..n : \E i \in 1..n : p[i] = j
  BY DEF Orders
<1>2. IsFiniteSet(A)
  <2>1. IsFiniteSet(1..n) /\ A \subseteq 1..n
    BY FS_Interval
  <2> QED BY <2>1, FS_Subset
<1>3. f \in [A -> C]
  BY <1>1
<1>4. \A c \in C : \E a \in A : f[a] = c
  BY <1>1
<1>5. \A a, b \in A : f[a] = f[b] => a = b
  BY OrderInjective
<1> HIDE DEF A, C, f
<1>6. f \in Bijection(A, C)
  BY <1>3, <1>4, <1>5 DEF Bijection, Injection, Surjection, IsInjective
<1>7. Cardinality(C) = Cardinality(A)
  BY <1>2, <1>6, FS_Bijection DEF ExistsBijection
<1> QED BY <1>7 DEF A, C

(* Two orders that both sort the numbers agree at every place.             *)
LEMMA OneSidedOrder ==
    ASSUME NEW n \in Nat, NEW s \in [1..n -> Int], NEW p \in Orders(n), NEW q \in Orders(n),
           \A i, j \in 1..n : i < j => s[p[i]] <= s[p[j]],
           \A i, j \in 1..n : i < j => s[q[i]] <= s[q[j]],
           NEW i \in 1..n
    PROVE  s[q[i]] <= s[p[i]]
<1> DEFINE x == s[p[i]]
           A == {a \in 1..n : s[p[a]] <= x}
           B == {b \in 1..n : s[q[b]] <= x}
<1>1. p \in [1..n -> 1..n] /\ q \in [1..n -> 1..n]
  BY DEF Orders
<1>2. x \in Int /\ s[q[i]] \in Int
  BY <1>1
<1> SUFFICES ASSUME s[q[i]] > x PROVE FALSE
  BY <1>2
<1>3. 1..i \subseteq A
  <2> SUFFICES ASSUME NEW a \in 1..i PROVE a \in A
    OBVIOUS
  <2>1. a \in 1..n /\ (a = i \/ a < i)
    OBVIOUS
  <2>2. s[p[a]] <= x
    BY <1>2, <2>1
  <2> QED BY <2>1, <2>2
<1>4. B \subseteq 1..(i - 1)
  <2> SUFFICES ASSUME NEW b \in B PROVE b \in 1..(i - 1)
    OBVIOUS
  <2>1. b \in 1..n /\ s[q[b]] <= x /\ s[q[b]] \in Int
    BY <1>1
  <2>2. ~(i < b) /\ b # i
    <3>1. i < b => s[q[i]] <= s[q[b]]
      BY <2>1
    <3> HIDE DEF B, x
    <3> QED BY <3>1, <2>1, <1>2
  <2> QED BY <2>1, <2>2
<1>5. Cardinality(A) = Cardinality(B)
  <2>1. Cardinality(A) = Cardinality({j \in 1..n : s[j] <= x})
    BY <1>2, OrderCounts, ZenonT(40)
  <2>2. Cardinality(B) = Cardinality({j \in 1..n : s[j] <= x})
    BY <1>2, OrderCounts
  <2> QED BY <2>1, <2>2
<1>6. IsFiniteSet(A)
  <2>1. IsFiniteSet(1..n) /\ A \subseteq 1..n
    BY FS_Interval
  <2> QED BY <2>1, FS_Subset
<1> HIDE DEF A, B
<1>7. Cardinality(1..i) = i /\ Cardinality(1..(i - 1)) = i - 1
      /\ IsFiniteSet(1..(i - 1))
  <2>1. i \in Nat /\ i >= 1 /\ i - 1 \in Int
    OBVIOUS
  <2>2. Cardinality(1..i) = i
    BY <2>1, FS_Interval
  <2>3. IsFiniteSet(1..(i - 1))
    BY <2>1, FS_Interval
  <2>4. Cardinality(1..(i - 1)) = IF 1 > i - 1 THEN 0 ELSE (i - 1) - 1 + 1
    BY <2>1, FS_Interval
  <2>5. Cardinality(1..(i - 1)) = i - 1
    BY <2>1, <2>4
  <2> QED BY <2>2, <2>3, <2>5
<1>8. Cardinality(1..i) <= Cardinality(A) /\ Cardinality(A) \in Nat
  BY <1>3, <1>6, FS_Subset, FS_CardinalityType
<1>9. Cardinality(B) <= Cardinality(1..(i - 1))
  BY <1>4, <1>7, FS_Subset
<1> QED BY <1>5, <1>7, <1>8, <1>9

(* val has its place among sorted numbers: behind those that are at most   *)
(* val, and before the others.                                             *)
Cut(s, n, k, val) == \A j \in 1..n : j <= k <=> s[j] <= val

LEMMA CutExists ==
    ASSUME NEW n \in Nat, NEW s \in [1..n -> Int], IsSorted(s, n), NEW val \in Int
    PROVE  \E k \in 0..n : Cut(s, n, k, val)
<1> DEFINE S == {j \in 1..n : s[j] <= val}
           k == Cardinality(S)
<1>1. IsFiniteSet(1..n) /\ Cardinality(1..n) = n /\ S \subseteq 1..n
  BY FS_Interval
<1>2. IsFiniteSet(S) /\ k <= n /\ k \in Nat
  BY <1>1, FS_Subset, FS_CardinalityType
<1>3. ASSUME NEW j \in S PROVE 1..j \subseteq S
  <2> SUFFICES ASSUME NEW a \in 1..j PROVE a \in S
    OBVIOUS
  <2>1. a \in 1..n /\ j \in 1..n /\ (a = j \/ a < j) /\ s[j] <= val
    BY <1>1
  <2>2. s[a] \in Int /\ s[j] \in Int /\ s[a] <= s[j]
    BY <2>1 DEF IsSorted
  <2> QED BY <2>1, <2>2
<1> HIDE DEF S
<1>4. S \subseteq 1..k
  <2> SUFFICES ASSUME NEW j \in S PROVE j \in 1..k
    OBVIOUS
  <2>1. j \in 1..n
    BY <1>1
  <2>2. Cardinality(1..j) = j
    BY <2>1, FS_Interval
  <2>3. Cardinality(1..j) <= Cardinality(S)
    BY <1>2, <1>3, FS_Subset
  <2> QED BY <2>1, <2>2, <2>3, <1>2
<1>5. IsFiniteSet(1..k) /\ Cardinality(1..k) = k
  BY <1>2, FS_Interval
<1>6. S = 1..k
  BY <1>4, <1>5, FS_Subset
<1>7. Cut(s, n, k, val)
  <2> HIDE DEF k
  <2> SUFFICES ASSUME NEW j \in 1..n PROVE j <= k <=> s[j] <= val
    BY DEF Cut
  <2>1. j <= k <=> j \in S
    BY <1>2, <1>6
  <2> QED BY <2>1 DEF S
<1> QED BY <1>2, <1>7

(* s with val in its place.                                                *)
Placed(s, n, k, val) ==
    [i \in 1..(n + 1) |-> IF i <= k THEN s[i] ELSE IF i = k + 1 THEN val ELSE s[i - 1]]

LEMMA PlacedSorted ==
    ASSUME NEW n \in Nat, NEW s \in [1..n -> Int], IsSorted(s, n), NEW val \in Int,
           NEW k \in 0..n, Cut(s, n, k, val)
    PROVE  Placed(s, n, k, val) \in [1..(n + 1) -> Int] /\ IsSorted(Placed(s, n, k, val), n + 1)
<1> DEFINE r == Placed(s, n, k, val)
<1>1. \A i \in 1..(n + 1) : r[i] = IF i <= k THEN s[i] ELSE IF i = k + 1 THEN val ELSE s[i - 1]
  BY DEF Placed
<1>2. \A i \in 1..n : s[i] \in Int
  OBVIOUS
<1>3. \A i \in 1..(n + 1) : i > k + 1 => i - 1 \in 1..n /\ i - 1 > k
  OBVIOUS
<1>4. \A i \in 1..(n + 1) : i <= k => i \in 1..n
  OBVIOUS
<1>5. \A i \in 1..(n + 1) : r[i] \in Int
  BY <1>1, <1>2, <1>3, <1>4
<1>6. ASSUME NEW i \in 1..(n + 1), NEW j \in 1..(n + 1), i < j PROVE r[i] <= r[j]
  <2> HIDE DEF r
  <2>1. CASE j <= k
    BY <2>1, <1>1, <1>4, <1>6 DEF IsSorted
  <2>2. CASE j = k + 1
    <3>1. i <= k /\ i \in 1..n
      BY <2>2, <1>6
    <3>2. s[i] <= val
      BY <3>1 DEF Cut
    <3> QED BY <2>2, <3>1, <3>2, <1>1
  <2>3. CASE j > k + 1
    <3>1. j - 1 \in 1..n /\ j - 1 > k /\ r[j] = s[j - 1]
      BY <2>3, <1>1, <1>3
    <3>2. ~(s[j - 1] <= val) /\ s[j - 1] \in Int
      BY <3>1, <1>2 DEF Cut
    <3>3. CASE i <= k
      <4>1. i \in 1..n /\ i < j - 1 /\ r[i] = s[i]
        BY <3>1, <3>3, <1>1
      <4> QED BY <4>1, <3>1 DEF IsSorted
    <3>4. CASE i = k + 1
      BY <3>1, <3>2, <3>4, <1>1
    <3>5. CASE i > k + 1
      <4>1. i - 1 \in 1..n /\ i - 1 < j - 1 /\ r[i] = s[i - 1]
        BY <3>5, <1>1, <1>3, <1>6
      <4> QED BY <4>1, <3>1 DEF IsSorted
    <3> QED BY <3>3, <3>4, <3>5
  <2> QED BY <2>1, <2>2, <2>3
<1>7. r = [i \in 1..(n + 1) |-> r[i]]
  BY DEF Placed
<1> HIDE DEF r
<1>8. r \in [1..(n + 1) -> Int]
  BY <1>5, <1>7
<1>9. IsSorted(r, n + 1)
  BY <1>6 DEF IsSorted
<1> QED BY <1>8, <1>9 DEF r

(* What Append does to a function on 1..n.                                 *)
LEMMA AppendFacts ==
    ASSUME NEW n \in Nat, NEW s \in [1..n -> Int], NEW val \in Int
    PROVE  /\ Append(s, val) \in [1..(n + 1) -> Int] /\ Len(Append(s, val)) = n + 1
           /\ Append(s, val)[n + 1] = val
           /\ \A i \in 1..n : Append(s, val)[i] = s[i]
<1>1. s \in Seq(Int) /\ Len(s) = n
  OBVIOUS
<1>2. Append(s, val) \in Seq(Int) /\ Len(Append(s, val)) = n + 1
  BY <1>1
<1>3. Append(s, val) \in [1..(n + 1) -> Int]
  BY <1>2, LenProperties
<1>4. Append(s, val)[n + 1] = val /\ \A i \in 1..n : Append(s, val)[i] = s[i]
  BY <1>1, AppendProperties
<1> QED BY <1>2, <1>3, <1>4

(* Sorting a sorted sequence with val appended puts val in its place.      *)
LEMMA SortAppended ==
    ASSUME NEW n \in Nat, NEW s \in [1..n -> Int], IsSorted(s, n), NEW val \in Int,
           NEW k \in 0..n, Cut(s, n, k, val)
    PROVE  Sorted(Append(s, val)) = Placed(s, n, k, val)
<1> DEFINE t == Append(s, val)
           L == n + 1
           q == [i \in 1..L |-> IF i <= k THEN i ELSE IF i = k + 1 THEN L ELSE i - 1]
           Sorts(p) == \A i, j \in 1..L : i < j => t[p[i]] <= t[p[j]]
           p0 == CHOOSE p \in Orders(L) : Sorts(p)
           r == Placed(s, n, k, val)
<1>1. s \in Seq(Int) /\ Len(s) = n
  OBVIOUS
<1>2. /\ t \in [1..L -> Int] /\ Len(t) = L /\ t[L] = val
      /\ \A i \in 1..n : t[i] = s[i]
  BY <1>1, AppendFacts
<1> HIDE DEF t
<1>3. q \in Orders(L)
  <2>1. q \in [1..L -> 1..L]
    OBVIOUS
  <2>2. ASSUME NEW j \in 1..L PROVE \E i \in 1..L : q[i] = j
    <3>1. CASE j <= k
      <4>1. q[j] = j
        BY <3>1
      <4> QED BY <4>1
    <3>2. CASE j = L
      <4>1. k + 1 \in 1..L /\ q[k + 1] = j
        BY <3>2
      <4> QED BY <4>1
    <3>3. CASE j > k /\ j # L
      <4>1. j + 1 \in 1..L /\ q[j + 1] = j
        BY <3>3
      <4> QED BY <4>1
    <3> QED BY <3>1, <3>2, <3>3
  <2> HIDE DEF q, L
  <2> QED BY <2>1, <2>2 DEF Orders
<1>4. \A i \in 1..L : t[q[i]] = r[i]
  <2> SUFFICES ASSUME NEW i \in 1..L PROVE t[q[i]] = r[i]
    OBVIOUS
  <2>1. CASE i <= k
    BY <2>1, <1>2 DEF Placed
  <2>2. CASE i = k + 1
    BY <2>2, <1>2 DEF Placed
  <2>3. CASE i > k + 1
    BY <2>3, <1>2 DEF Placed
  <2> QED BY <2>1, <2>2, <2>3
<1>5. r \in [1..L -> Int] /\ IsSorted(r, L)
  BY PlacedSorted
<1>6. Sorts(q)
  BY <1>4, <1>5 DEF IsSorted
<1> HIDE DEF q
<1>7. p0 \in Orders(L) /\ Sorts(p0)
  BY <1>3, <1>6
<1>8. Sorted(t) = [i \in 1..L |-> t[p0[i]]]
  BY <1>2 DEF Sorted
<1>9. L \in Nat
  OBVIOUS
<1>10. r = [i \in 1..L |-> r[i]]
  BY <1>5
<1> HIDE DEF p0, r, L
<1>11. ASSUME NEW i \in 1..L PROVE t[p0[i]] = r[i]
  <2>1. t[p0[i]] <= t[q[i]] /\ t[q[i]] <= t[p0[i]]
    BY <1>2, <1>3, <1>6, <1>7, <1>9, OneSidedOrder
  <2>2. p0[i] \in 1..L /\ q[i] \in 1..L
    BY <1>3, <1>7 DEF Orders
  <2>3. t[p0[i]] \in Int /\ t[q[i]] \in Int
    BY <1>2, <2>2
  <2> QED BY <2>1, <2>3, <1>4
<1>12. Sorted(t) = r
  BY <1>8, <1>10, <1>11
<1> QED BY <1>12 DEF t, r

(* The first places of vals hold the first of the n numbers s.             *)
Holds(vals, s, n) ==
    /\ vals \in [1..kbest -> Int]
    /\ \A j \in 1..n : j <= kbest => vals[j] = s[j]

(* fcyc.c:79-94: the insertion puts val in its place among the K values,   *)
(* when it has one there.                                                  *)
LEMMA InsertPlaces ==
    ASSUME kbest \in Nat \ {0}, NEW n \in Nat, samplecount = n,
           NEW s \in [1..n -> Int], IsSorted(s, n), NEW val \in Int,
           NEW k \in 0..n, Cut(s, n, k, val), Holds(values, s, n)
    PROVE  Holds(Insert(Place(val), val), Placed(s, n, k, val), n + 1)
<1> DEFINE pos == Place(val)
           r   == Placed(s, n, k, val)
           Fits(i) == /\ \A j \in i..(pos - 1) : values[j] > val
                      /\ i = 1 \/ values[i - 1] <= val
           to  == CHOOSE i \in 1..pos : Fits(i)
<1>1. values \in [1..kbest -> Int] /\ \A j \in 1..n : j <= kbest => values[j] = s[j]
  BY DEF Holds
<1>2. \A i \in 1..(n + 1) : r[i] = IF i <= k THEN s[i] ELSE IF i = k + 1 THEN val ELSE s[i - 1]
  BY DEF Placed
<1>3. \A j \in 1..n : (j <= k => s[j] <= val) /\ (j > k => s[j] > val) /\ s[j] \in Int
  <2> SUFFICES ASSUME NEW j \in 1..n
               PROVE (j <= k => s[j] <= val) /\ (j > k => s[j] > val) /\ s[j] \in Int
    OBVIOUS
  <2>1. s[j] \in Int /\ (j <= k <=> s[j] <= val)
    BY DEF Cut
  <2> QED BY <2>1
<1> HIDE DEF r
<1>4. CASE pos = 0
  <2>1. n >= kbest /\ ~(val < values[kbest])
    BY <1>4 DEF Place
  <2>2. kbest \in 1..n /\ values[kbest] = s[kbest]
    BY <1>1, <2>1
  <2>3. kbest <= k
    BY <1>3, <2>1, <2>2
  <2>4. Insert(pos, val) = values
    BY <1>4 DEF Insert
  <2>5. ASSUME NEW j \in 1..(n + 1), j <= kbest PROVE values[j] = r[j]
    BY <1>1, <1>2, <2>3, <2>5
  <2> QED BY <1>1, <2>4, <2>5 DEF Holds, r
<1>5. CASE pos # 0
  <2>1. /\ pos \in 1..kbest /\ pos <= n + 1 /\ k + 1 <= pos
        /\ pos = n + 1 \/ pos = kbest
    <3>1. CASE n < kbest
      BY <3>1 DEF Place
    <3>2. CASE n >= kbest
      <4>1. pos = kbest /\ val < values[kbest] /\ kbest \in 1..n
        BY <3>2, <1>5 DEF Place
      <4>2. values[kbest] = s[kbest]
        BY <1>1, <4>1
      <4>3. k < kbest
        BY <1>3, <4>1, <4>2
      <4> QED BY <4>1, <4>3
    <3> QED BY <3>1, <3>2
  <2> HIDE DEF pos
  <2>2. \A j \in 1..(pos - 1) : j \in 1..n /\ j \in 1..kbest /\ values[j] = s[j]
    BY <1>1, <2>1
  <2>3. Fits(k + 1)
    <3>1. ASSUME NEW j \in (k + 1)..(pos - 1) PROVE values[j] > val
      <4>1. j \in 1..(pos - 1) /\ j > k
        OBVIOUS
      <4> QED BY <4>1, <2>2, <1>3
    <3>2. k + 1 = 1 \/ values[(k + 1) - 1] <= val
      <4> SUFFICES ASSUME k # 0 PROVE values[k] <= val
        OBVIOUS
      <4>1. k \in 1..(pos - 1)
        BY <2>1
      <4> QED BY <4>1, <2>2, <1>3
    <3> QED BY <3>1, <3>2
  <2>4. ASSUME NEW i \in 1..pos, Fits(i) PROVE i = k + 1
    <3>1. ~(i <= k)
      <4> SUFFICES ASSUME i <= k PROVE FALSE
        OBVIOUS
      <4>1. k \in i..(pos - 1) /\ k \in 1..(pos - 1)
        BY <2>1
      <4>2. values[k] > val
        BY <4>1, <2>4
      <4>3. values[k] = s[k] /\ k \in 1..n /\ s[k] <= val /\ s[k] \in Int
        BY <4>1, <2>2, <1>3
      <4> QED BY <4>2, <4>3
    <3>2. ~(i > k + 1)
      <4> SUFFICES ASSUME i > k + 1 PROVE FALSE
        OBVIOUS
      <4>1. i - 1 \in 1..(pos - 1) /\ i - 1 > k /\ i # 1
        BY <2>1
      <4>2. values[i - 1] <= val
        BY <4>1, <2>4
      <4>3. values[i - 1] = s[i - 1] /\ s[i - 1] > val /\ s[i - 1] \in Int
        BY <4>1, <2>2, <1>3
      <4> QED BY <4>2, <4>3
    <3> QED BY <3>1, <3>2
  <2>5. k + 1 \in 1..pos
    BY <2>1
  <2> HIDE DEF Fits
  <2>6. to = k + 1
    BY <2>3, <2>4, <2>5
  <2>7. Insert(pos, val) =
          [j \in 1..kbest |->
             IF j = to THEN val
             ELSE IF to < j /\ j <= pos THEN values[j - 1] ELSE values[j]]
    BY <1>5 DEF Insert, Fits
  <2> DEFINE v == Insert(pos, val)
  <2> HIDE DEF to
  <2>8. \A j \in 1..kbest :
          v[j] = IF j = k + 1 THEN val
                 ELSE IF k + 1 < j /\ j <= pos THEN values[j - 1] ELSE values[j]
    BY <2>6, <2>7
  <2>9. \A j \in 1..kbest : k + 1 < j => j - 1 \in 1..kbest
    OBVIOUS
  <2>10. \A j \in 1..kbest : v[j] \in Int
    BY <1>1, <2>8, <2>9
  <2>11. v = [j \in 1..kbest |-> v[j]]
    BY <2>7
  <2> HIDE DEF v
  <2>12. v \in [1..kbest -> Int]
    BY <2>10, <2>11
  <2>13. ASSUME NEW j \in 1..(n + 1), j <= kbest PROVE v[j] = r[j]
    <3>1. j \in 1..kbest /\ j <= pos
      BY <2>1, <2>13
    <3>2. CASE j <= k
      <4>1. j \in 1..(pos - 1)
        BY <3>2, <2>1
      <4> QED BY <3>1, <3>2, <4>1, <1>2, <2>2, <2>8
    <3>3. CASE j = k + 1
      BY <3>1, <3>3, <1>2, <2>8
    <3>4. CASE j > k + 1
      <4>1. j - 1 \in 1..(pos - 1)
        BY <3>1, <3>4, <2>1
      <4> QED BY <3>1, <3>4, <4>1, <1>2, <2>2, <2>8
    <3> QED BY <3>2, <3>3, <3>4
  <2> QED BY <2>12, <2>13 DEF Holds, v, r, pos
<1> QED BY <1>4, <1>5 DEF pos


(* The K best values, while there are any, are the first of all samples in *)
(* order, and the settings of the sampling do not change under them.       *)
Sampling == pc \in {"turn", "callibrate", "loop", "start", "run", "read", "return"}

SamplerInv ==
    /\ kbest \in Nat \ {0}
    /\ calls \in Nat
    /\ calls = 0 => values = <<>>
    /\ Sampling => calls > 0 /\ values # <<>>
    /\ values # <<>> =>
          /\ samplecount \in Nat
          /\ samples \in [1..samplecount -> Int]
          /\ IsSorted(samples, samplecount)
          /\ Holds(values, samples, samplecount)

LEMMA NonEmptyValues ==
    ASSUME kbest \in Nat \ {0}, NEW v, v \in [1..kbest -> Int]
    PROVE  v # <<>>
<1>1. 1 \in DOMAIN v
  OBVIOUS
<1>2. DOMAIN <<>> = {}
  OBVIOUS
<1> QED BY <1>1, <1>2

LEMMA ReadSamplerStep ==
    ASSUME ReadInv, TickInv, SamplerInv, NEW late \in {0, 1}, Read(late)
    PROVE  SamplerInv'
<1> DEFINE time  == get_counter(cyc, access_counter(platform, m.now))
           cut   == IF compensate THEN (m.ticks + late) * cyc_per_tick ELSE 0
           val   == UNIT * time - cut
<1>1. /\ pc = "read" /\ calls' = calls /\ kbest' = kbest
      /\ add_sample(val)
  BY DEF Read, settings
<1>2. /\ kbest \in Nat \ {0} /\ calls \in Nat /\ calls > 0 /\ values # <<>>
      /\ samplecount \in Nat
      /\ samples \in [1..samplecount -> Int]
      /\ IsSorted(samples, samplecount)
      /\ Holds(values, samples, samplecount)
  BY <1>1 DEF SamplerInv, Sampling
<1>3. /\ m.started \in Nat /\ m.now \in Nat /\ m.ticks \in Nat /\ platform \in Platforms
      /\ cyc = access_counter(platform, m.started) /\ cyc_per_tick \in Nat
  BY <1>1 DEF ReadInv, TickInv, Measure
<1>4. time \in Int
  BY <1>3, CounterType
<1>5. cut \in Int
  <2>1. m.ticks + late \in Nat
    BY <1>3
  <2>2. (m.ticks + late) * cyc_per_tick \in Int
    BY <2>1, <1>3
  <2> QED BY <2>2
<1> HIDE DEF time, cut
<1>6. val \in Int
  BY <1>4, <1>5 DEF UNIT
<1> HIDE DEF val
<1>7. PICK k \in 0..samplecount : Cut(samples, samplecount, k, val)
  BY <1>2, <1>6, CutExists
<1> DEFINE n == samplecount
           r == Placed(samples, n, k, val)
<1>8. samples' = r
  BY <1>1, <1>2, <1>6, <1>7, SortAppended DEF add_sample
<1>9. r \in [1..(n + 1) -> Int] /\ IsSorted(r, n + 1)
  BY <1>2, <1>6, <1>7, PlacedSorted
<1>10. Holds(Insert(Place(val), val), r, n + 1)
  BY <1>2, <1>6, <1>7, InsertPlaces
<1>11. values' = Insert(Place(val), val) /\ samplecount' = n + 1
  BY <1>1 DEF add_sample
<1> HIDE DEF r, n
<1>13. values' # <<>>
  BY <1>2, <1>10, <1>11, NonEmptyValues DEF Holds
<1>14. samplecount' \in Nat /\ samples' \in [1..samplecount' -> Int]
       /\ IsSorted(samples', samplecount')
  BY <1>2, <1>8, <1>9, <1>11 DEF n
<1>15. Holds(values, samples, samplecount)'
  BY <1>1, <1>8, <1>10, <1>11 DEF Holds
<1>16. IsSorted(samples, samplecount)'
  BY <1>14 DEF IsSorted
<1> QED BY <1>1, <1>2, <1>13, <1>14, <1>15, <1>16 DEF SamplerInv

LEMMA SamplerStep == ReadInv /\ TickInv /\ SamplerInv /\ [Next]_vars => SamplerInv'
<1> SUFFICES ASSUME ReadInv, TickInv, SamplerInv, [Next]_vars PROVE SamplerInv'
  OBVIOUS
<1>1. /\ kbest \in Nat \ {0}
      /\ calls \in Nat
      /\ calls = 0 => values = <<>>
      /\ Sampling => calls > 0 /\ values # <<>>
      /\ values # <<>> =>
            /\ samplecount \in Nat
            /\ samples \in [1..samplecount -> Int]
            /\ IsSorted(samples, samplecount)
            /\ Holds(values, samples, samplecount)
  BY DEF SamplerInv
(* Steps that leave the sampler alone.                                     *)
<1>2. ASSUME UNCHANGED <<kbest, sampler>>, calls' \in {calls, calls + 1},
             calls' = calls \/ method # "fcyc", Sampling' => Sampling
      PROVE  SamplerInv'
  <2>1. UNCHANGED <<values, samplecount, samples, kbest>>
    BY <1>2 DEF sampler
  <2>2. calls' \in Nat /\ (calls' = 0 => calls = 0) /\ (calls > 0 => calls' > 0)
    BY <1>1, <1>2
  <2>3. IsSorted(samples, samplecount)' <=> IsSorted(samples, samplecount)
    BY <2>1 DEF IsSorted
  <2>4. Holds(values, samples, samplecount)' <=> Holds(values, samples, samplecount)
    BY <2>1 DEF Holds
  <2> QED BY <1>1, <1>2, <2>1, <2>2, <2>3, <2>4 DEF SamplerInv
<1>3. ASSUME NEW k \in Ks, NEW max \in MaxSamples, NEW c \in BOOLEAN, NEW b \in BOOLEAN,
             SetSampling(k, max, c, b)
      PROVE  SamplerInv'
  <2>1. calls = 0 /\ pc = "idle" /\ pc' = pc /\ calls' = calls /\ kbest' = k
        /\ values' = values
    BY <1>3 DEF SetSampling, sampler
  <2>2. k \in Nat \ {0}
    BY FSecsAssumption
  <2> QED BY <2>1, <2>2, <1>1 DEF SamplerInv, Sampling
<1>4. ASSUME NEW bytes \in CacheSizes, set_fcyc_cache_size(bytes) PROVE SamplerInv'
  BY <1>2, <1>4 DEF set_fcyc_cache_size, Sampling
<1>5. CASE StartFcyc
  <2>1. /\ pc' = "turn" /\ calls' = calls + 1 /\ kbest' = kbest
        /\ values' = [j \in 1..kbest |-> 0] /\ samples' = <<>> /\ samplecount' = 0
    BY <1>5 DEF StartFcyc, init_sampler, settings
  <2>2. calls' \in Nat /\ calls' > 0
    BY <1>1, <2>1
  <2>3. values' \in [1..kbest -> Int]
    BY <2>1
  <2>4. values' # <<>>
    BY <1>1, <2>3, NonEmptyValues
  <2>5. samples' \in [1..samplecount' -> Int]
    <3>1. <<>> \in Seq(Int) /\ Len(<<>>) = 0
      OBVIOUS
    <3> QED BY <3>1, <2>1, LenProperties
  <2>6. IsSorted(samples, samplecount)' /\ Holds(values, samples, samplecount)'
    BY <2>1, <2>3 DEF IsSorted, Holds
  <2> QED BY <1>1, <2>1, <2>2, <2>4, <2>5, <2>6 DEF SamplerInv
<1>6. CASE Turn
  BY <1>2, <1>6 DEF Turn, settings, Sampling
<1>17. ASSUME NEW bytes \in BlockSizes, set_fcyc_cache_block(bytes) PROVE SamplerInv'
  BY <1>2, <1>17 DEF set_fcyc_cache_block, Sampling
<1>18. ASSUME NEW t \in StartTimes, NEW early \in {0, 1}, StartCallibrate(t, early)
      PROVE  SamplerInv'
  BY <1>2, <1>18 DEF StartCallibrate, settings, Sampling
<1>19. ASSUME NEW c \in TickCosts, Tick(c) PROVE SamplerInv'
  BY <1>2, <1>19 DEF Tick, settings, Sampling
<1>7. CASE Callibrated
  BY <1>2, <1>7 DEF Callibrated, settings, Sampling
<1>8. ASSUME NEW g \in Gaps, NEW tick \in TickCosts \cup {0}, NEW late \in TickCosts \cup {0},
             Callibrate(g, tick, late)
      PROVE  SamplerInv'
  BY <1>2, <1>8 DEF Callibrate, settings, Sampling
<1>9. ASSUME NEW t \in StartTimes, NEW late \in {0, 1}, StartCounter(t, late)
      PROVE  SamplerInv'
  BY <1>2, <1>9 DEF StartCounter, settings, Sampling
<1>10. ASSUME NEW d \in OwnTimes, Run(d) PROVE SamplerInv'
  BY <1>2, <1>10 DEF Run, settings, Sampling
<1>11. ASSUME NEW late \in {0, 1}, Read(late) PROVE SamplerInv'
  BY <1>11, ReadSamplerStep
<1>12. CASE Return
  <2>1. values' = <<>> /\ calls' = calls /\ kbest' = kbest /\ pc' = "idle"
    BY <1>12 DEF Return, settings
  <2> QED BY <2>1, <1>1 DEF SamplerInv, Sampling
<1>13. ASSUME NEW t \in TimerStarts, StartTimer(t) PROVE SamplerInv'
  BY <1>2, <1>13 DEF StartTimer, settings, Sampling
<1>14. ASSUME NEW d \in OwnTimes, RunTimed(d) PROVE SamplerInv'
  <2>1. pc' \in {"timed", "killed"}
    BY <1>14 DEF RunTimed
  <2> QED BY <2>1, <1>2, <1>14 DEF RunTimed, settings, Sampling
<1>15. CASE EndTimer
  BY <1>2, <1>15 DEF EndTimer, settings, Sampling
<1>16. CASE UNCHANGED vars
  BY <1>2, <1>16 DEF vars, settings, Sampling
<1> QED BY <1>3, <1>4, <1>5, <1>6, <1>7, <1>8, <1>9, <1>10, <1>11, <1>12, <1>13, <1>14,
           <1>15, <1>16, <1>17, <1>18, <1>19 DEF Next

(* The two sequences of KBest agree where SamplerInv says so.              *)
LEMMA KBestFromSampler == SamplerInv => KBest
<1> SUFFICES ASSUME SamplerInv, values # <<>>
             PROVE  LET n == Least(kbest, samplecount)
                    IN  SubSeq(values, 1, n) = SubSeq(samples, 1, n)
  BY DEF KBest
<1> DEFINE n == Least(kbest, samplecount)
           u == SubSeq(values, 1, n)
           v == SubSeq(samples, 1, n)
<1>1. /\ kbest \in Nat \ {0} /\ samplecount \in Nat
      /\ samples \in [1..samplecount -> Int]
      /\ values \in [1..kbest -> Int]
      /\ \A j \in 1..samplecount : j <= kbest => values[j] = samples[j]
  BY DEF SamplerInv, Holds
<1>2. n \in Nat /\ n <= kbest /\ n <= samplecount
  BY <1>1 DEF Least
<1> HIDE DEF n
<1>3. \A j \in 1..n : values[j] \in Int /\ samples[j] \in Int /\ values[j] = samples[j]
  BY <1>1, <1>2
<1>4. u \in Seq(Int) /\ Len(u) = n /\ \A i \in 1..n : u[i] = values[i]
  <2>1. /\ u \in Seq(Int) /\ Len(u) = (IF 1 <= n THEN n - 1 + 1 ELSE 0)
        /\ \A i \in 1..(n - 1 + 1) : u[i] = values[1 + i - 1]
    BY <1>2, <1>3, SubSeqProperties
  <2> HIDE DEF u
  <2> QED BY <2>1, <1>2
<1>5. v \in Seq(Int) /\ Len(v) = n /\ \A i \in 1..n : v[i] = samples[i]
  <2>1. /\ v \in Seq(Int) /\ Len(v) = (IF 1 <= n THEN n - 1 + 1 ELSE 0)
        /\ \A i \in 1..(n - 1 + 1) : v[i] = samples[1 + i - 1]
    BY <1>2, <1>3, SubSeqProperties
  <2> HIDE DEF v
  <2> QED BY <2>1, <1>2
<1> HIDE DEF u, v
<1>6. u = v
  BY <1>3, <1>4, <1>5, SeqEqual
<1> QED BY <1>6 DEF u, v, n

(* However the samples arrive and however many are kept, the array of the  *)
(* sampler holds the K smallest so far, in order, when fcyc looks at it.   *)
THEOREM KBestKept == Spec => []KBest
<1>1. Init => SamplerInv
  BY FSecsAssumption DEF Init, SamplerInv, Sampling
<1> QED BY <1>1, KBestFromSampler, ReadInit, ReadStep, TickInit, TickStep, SamplerStep, PTL DEF Spec
=============================================================================
