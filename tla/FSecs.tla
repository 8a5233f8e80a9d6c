-------------------------------- MODULE FSecs --------------------------------
(***************************************************************************)
(* malloclab: fsecs.c measures how long a function runs with one of three  *)
(* packages: the K-best sampler of fcyc.c on the cycle counter of clock.c, *)
(* or one of the two averages of ftimer.c.                                 *)
(*                                                                         *)
(* Cycles and ticks pass between any two steps of the program: a timer     *)
(* interrupt counts one tick of user time and takes any of TickCosts, and  *)
(* not always the same.                                                    *)
(***************************************************************************)
EXTENDS Clock, Sequences, FiniteSets

CONSTANTS
    TickCosts,              \* cycles a timer interrupt may take
    MaxTaken, MaxTicks,     \* bounds: on one measurement's interrupts
    Period,                 \* bound: cycles from one tick to the next in callibrate
    MaxLag,                 \* bound: ticks callibrate finds at once
    OwnTimes,               \* cycles the function itself may take
    Gaps,                   \* cycles a turn of callibrate's loop may take
    StartTimes,             \* counter values at which a measurement starts
    TimerStarts,            \* and the same of ftimer.c, in microseconds
    Ks, MaxSamples,         \* arguments of set_fcyc_k, set_fcyc_maxsamples
    CacheSizes, BlockSizes, \* of set_fcyc_cache_size, set_fcyc_cache_block
    CACHE_BYTES, CACHE_BLOCK,   \* what these are without a call
    INT,                    \* sizeof(int)
    EpsNum, EpsDen,         \* EPSILON
    USEC, MAX_ETIME, N,     \* microseconds a second; source: 86400 and 10
    MaxCalls                \* bound: measurements made

ASSUME TickAssumption ==
    /\ TickCosts \subseteq Nat \ {0} /\ MaxTaken \in Nat /\ MaxTicks \in Nat \ {0}
    /\ Period \in Nat /\ MaxLag \in Nat \ {0}
ASSUME FSecsAssumption ==
    /\ Ks \subseteq Nat \ {0} /\ MaxSamples \subseteq Nat \ {0}
    /\ CacheSizes \subseteq Nat \ {0} /\ BlockSizes \subseteq Nat
    /\ CACHE_BYTES \in Nat \ {0} /\ CACHE_BLOCK \in Nat
    /\ INT \in Nat \ {0}
    /\ EpsNum \in Nat /\ EpsDen \in Nat \ {0}
    /\ USEC \in Nat \ {0} /\ MAX_ETIME \in Nat \ {0} /\ N \in Nat \ {0}
    /\ OwnTimes \subseteq Nat /\ Gaps \subseteq Nat \ {0}
    /\ StartTimes \subseteq Nat /\ TimerStarts \subseteq Nat
    /\ \A d \in OwnTimes : d + MaxTaken < W * W    \* no measurement of 2^64 cycles

VARIABLES
    platform, method,       \* what the program was built for
    kbest, maxsamples, compensate, clear_cache, cache_bytes, cache_block,
    cache_buf,              \* bytes malloc gave for the buffer; 0: NULL
    values, samplecount,    \* the sampler; <<>>: values is NULL
    cyc,                    \* cyc_hi and cyc_lo
    cyc_per_tick, cal,      \* callibrate's result, and its locals
    pc, m,                  \* place in fsecs, and the current measurement
    calls, result,
    samples,                \* history: all samples, in order of size
    seen,                   \* history: what happened in callibrate
    reading                 \* history: the last difference, and the truth

settings == <<kbest, maxsamples, compensate, clear_cache, cache_bytes, cache_block>>
sampler  == <<values, samplecount, samples>>
clock    == <<cyc, cyc_per_tick, cal, seen, reading>>
build    == <<platform, method>>
vars == <<build, settings, cache_buf, sampler, clock, pc, m, calls, result>>

(* now: the counter, started: its value when the measurement started.      *)
(* ticks: those times has counted.  own: cycles of the function alone;     *)
(* taken, ran: cycles and number of the ticks that came while it ran.      *)
(* i: the loop variable of ftimer.c.                                       *)
NoMeasure == [started |-> 0, now |-> 0, ticks |-> 0, own |-> 0,
              taken |-> 0, ran |-> 0, i |-> 0]
NoReading == [cyc |-> 0, exact |-> 0, wraps |-> FALSE, val |-> 0, own |-> 0,
              taken |-> 0, ran |-> 0]

(* callibrate: lag is the ticks since oldc, idle the cycles since the last *)
(* tick.  Of its last call, seen keeps the cost of the cheapest tick (0:   *)
(* none came), whether a tick came between two readings that belong        *)
(* together, and whether the counter came round to where it started.       *)
NoCal  == [e |-> 0, oldt |-> 0, lag |-> 0, idle |-> 0]
NoSeen == [cheapest |-> 0, split |-> FALSE, round |-> FALSE]

Least(a, b) == IF a < b THEN a ELSE b

Init ==
    /\ platform \in Platforms /\ method \in {"fcyc", "itimer", "gettod"}
    /\ platform # "i386" => method = "fcyc"
    /\ kbest \in Ks /\ maxsamples \in MaxSamples
    /\ compensate = FALSE /\ clear_cache = FALSE
    /\ cache_bytes = CACHE_BYTES /\ cache_block = CACHE_BLOCK /\ cache_buf = 0
    /\ values = <<>> /\ samplecount = 0 /\ samples = <<>>
    /\ cyc = [hi |-> 0, lo |-> 0] /\ cyc_per_tick = 0 /\ cal = NoCal
    /\ seen = NoSeen /\ reading = NoReading
    /\ pc = "idle" /\ m = NoMeasure /\ calls = 0 /\ result = 0
-----------------------------------------------------------------------------
(* The set_fcyc functions.  init_fsecs calls those of the sampling once,   *)
(* before any measurement; the cache may change between measurements.      *)
(* Sizes are set only where clear, their one reader, is called (a bound).  *)
SetSampling(k, max, comp, clear) ==
    /\ pc = "idle" /\ method = "fcyc" /\ calls = 0
    /\ kbest' = k /\ maxsamples' = max
    /\ compensate' = comp /\ clear_cache' = clear
    /\ UNCHANGED <<build, cache_bytes, cache_block, cache_buf, sampler, clock,
                   pc, m, calls, result>>

(* Mutant of set_fcyc_cache_size: the buffer of the old size stays.        *)
set_fcyc_cache_sizeKeeps(bytes) ==
    /\ pc = "idle" /\ method = "fcyc" /\ calls < MaxCalls /\ clear_cache
    /\ cache_bytes' = bytes
    /\ UNCHANGED <<build, kbest, maxsamples, compensate, clear_cache, cache_block,
                   cache_buf, sampler, clock, pc, m, calls, result>>

set_fcyc_cache_size(bytes) ==
    /\ pc = "idle" /\ method = "fcyc" /\ calls < MaxCalls /\ clear_cache
    /\ cache_bytes' = bytes
    /\ cache_buf' = IF bytes = cache_bytes THEN cache_buf ELSE 0
    /\ UNCHANGED <<build, kbest, maxsamples, compensate, clear_cache, cache_block,
                   sampler, clock, pc, m, calls, result>>

set_fcyc_cache_block(bytes) ==
    /\ pc = "idle" /\ method = "fcyc" /\ calls < MaxCalls /\ clear_cache
    /\ cache_block' = bytes
    /\ UNCHANGED <<build, kbest, maxsamples, compensate, clear_cache, cache_bytes,
                   cache_buf, sampler, clock, pc, m, calls, result>>

init_sampler ==
    values' = [j \in 1..kbest |-> 0] /\ samples' = <<>> /\ samplecount' = 0

(* fcyc, up to its loop.                                                   *)
StartFcyc ==
    /\ pc = "idle" /\ method = "fcyc" /\ calls < MaxCalls
    /\ calls' = calls + 1
    /\ init_sampler
    /\ pc' = "turn" /\ result' = 0
    /\ UNCHANGED <<build, settings, cache_buf, clock, m>>

(* A turn of the loop.  clear reads every incr-th int of a buffer that it  *)
(* allocates when there is none; it exits when malloc fails, and never     *)
(* ends when the block is smaller than an int.  start_comp_counter         *)
(* callibrates when that has given nothing yet; on a machine without a     *)
(* counter start_counter exits.                                            *)
incr == cache_block \div INT
ints == cache_bytes \div INT
LastRead == ((ints - 1) \div incr) * incr
ReadsOutside(buf) == ints > 0 /\ (IF incr = 0 THEN 0 ELSE LastRead) * INT + INT > buf
ClearSpins == clear_cache /\ cache_block < INT /\ cache_bytes >= INT

AfterClear == IF platform = "other" THEN "exit"
              ELSE IF compensate /\ cyc_per_tick = 0 THEN "callibrate"
              ELSE "start"

Turn ==
    /\ pc = "turn"
    /\ \/ ~clear_cache /\ UNCHANGED cache_buf /\ pc' = AfterClear
       \/ /\ clear_cache
          /\ cache_buf' = IF cache_buf = 0 THEN cache_bytes ELSE cache_buf
          /\ pc' = IF ReadsOutside(cache_buf') THEN "fault"
                   ELSE IF ClearSpins THEN "clear"
                   ELSE AfterClear
       \/ clear_cache /\ cache_buf = 0 /\ UNCHANGED cache_buf /\ pc' = "exit"
    /\ reading' = NoReading
    /\ UNCHANGED <<build, settings, sampler, cyc, cyc_per_tick, cal, seen, m,
                   calls, result>>

(* callibrate calls times, starts the counter and reads it for the first   *)
(* time; early says that a tick comes in between.                          *)
StartCallibrate(t, early) ==
    /\ pc = "callibrate"
    /\ cyc' = access_counter(platform, t)
    /\ m' = [NoMeasure EXCEPT !.started = t, !.now = t]
    /\ cal' = [NoCal EXCEPT !.oldt = get_counter(cyc', access_counter(platform, t)),
                            !.lag = early]
    /\ seen' = [NoSeen EXCEPT !.split = (early = 1)]
    /\ pc' = "loop"
    /\ UNCHANGED <<build, settings, cache_buf, sampler, cyc_per_tick, reading,
                   calls, result>>

(* A turn of its loop: the g cycles of the turn and those of its ticks     *)
(* pass, then newt is read; late is the cost of a tick that comes after    *)
(* that and before times is called, 0 when there is none.  tick is the     *)
(* cost of one before newt is read, or 0.                                  *)
Span == IF platform = "i386" THEN W * W ELSE W
Count(cost) == IF cost = 0 THEN 0 ELSE 1
Cheaper(cost, least) ==
    IF least = 0 \/ (cost # 0 /\ cost < least) THEN cost ELSE least

(* Mutants of EventSeen: oldc = newc is left out, and e++ is.              *)
EventSeenOldc(newt, lag) == [cal EXCEPT !.e = @ + 1, !.oldt = newt, !.lag = lag]
EventSeenUncounted(newt, lag) == [cal EXCEPT !.oldt = newt, !.lag = 0]

EventSeen(newt, lag) == [cal EXCEPT !.e = @ + 1, !.oldt = newt, !.lag = 0]

Callibrate(g, tick, late) ==
    /\ pc = "loop" /\ cal.e < NEVENT
    /\ tick = 0 => cal.idle + g <= Period
    /\ LET spent == m.now - m.started + g + tick
           now   == m.started + (spent % Span)
           newt  == get_counter(cyc, access_counter(platform, now))
           lag   == Least(cal.lag + Count(tick) + Count(late), MaxLag)
           after == IF IsEvent(newt - cal.oldt, lag) THEN EventSeen(newt, lag)
                    ELSE [cal EXCEPT !.lag = lag,
                                     !.oldt = IF newt - @ >= THRESHOLD THEN newt ELSE @]
       IN  /\ newt - cal.oldt < THRESHOLD => late = 0
           /\ cyc_per_tick' = IF IsEvent(newt - cal.oldt, lag)
                              THEN Record(cyc_per_tick, CyclesPerTick(newt - cal.oldt, lag))
                              ELSE cyc_per_tick
           /\ cal' = [after EXCEPT !.idle = IF tick + late = 0 THEN @ + g ELSE 0]
           /\ m' = [m EXCEPT !.now = now + late]
           /\ seen' = [cheapest |-> IF seen.split \/ late # 0 THEN 0
                                    ELSE Cheaper(tick, seen.cheapest),
                       split |-> seen.split \/ late # 0,
                       round |-> seen.round \/ spent + late >= Span]
    /\ UNCHANGED <<build, settings, cache_buf, sampler, cyc, reading, pc,
                   calls, result>>

Callibrated ==
    /\ pc = "loop" /\ cal.e >= NEVENT
    /\ cal' = NoCal /\ m' = NoMeasure /\ pc' = "start"
    /\ UNCHANGED <<build, settings, cache_buf, sampler, cyc, cyc_per_tick,
                   seen, reading, calls, result>>

(* start_counter or start_comp_counter: a tick may fall between its call   *)
(* of times and its reading of the counter.                                *)
StartCounter(t, late) ==
    /\ pc = "start" /\ (compensate \/ late = 0)
    /\ cyc' = access_counter(platform, t)
    /\ m' = [NoMeasure EXCEPT !.started = t, !.now = t, !.ticks = late]
    /\ pc' = "run"
    /\ UNCHANGED <<build, settings, cache_buf, sampler, cyc_per_tick, cal, seen,
                   reading, calls, result>>

(* The function runs, and any number of ticks come meanwhile.              *)
Tick(c) ==
    /\ pc = "run" /\ m.taken + c <= MaxTaken /\ m.ticks < MaxTicks
    /\ m' = [m EXCEPT !.now = @ + c, !.ticks = @ + 1, !.taken = @ + c, !.ran = @ + 1]
    /\ UNCHANGED <<build, settings, cache_buf, sampler, clock, pc, calls, result>>

Run(d) ==
    /\ pc = "run"
    /\ m' = [m EXCEPT !.now = @ + d, !.own = d]
    /\ pc' = "read"
    /\ UNCHANGED <<build, settings, cache_buf, sampler, clock, calls, result>>
-----------------------------------------------------------------------------
(* add_sample: the insertion moves the new value down past greater ones.   *)
Orders(n) ==
    {p \in [1..n -> 1..n] : \A j \in 1..n : \E i \in 1..n : p[i] = j}

Sorted(s) ==
    LET p == CHOOSE p \in Orders(Len(s)) :
               \A i, j \in 1..Len(s) : i < j => s[p[i]] <= s[p[j]]
    IN  [i \in 1..Len(s) |-> s[p[i]]]

Place(val) ==
    IF samplecount < kbest THEN samplecount + 1
    ELSE IF val < values[kbest] THEN kbest
    ELSE 0

Insert(pos, val) ==
    IF pos = 0 THEN values
    ELSE LET to == CHOOSE i \in 1..pos :
                     /\ \A j \in i..(pos - 1) : values[j] > val
                     /\ i = 1 \/ values[i - 1] <= val
         IN  [j \in 1..kbest |->
                IF j = to THEN val
                ELSE IF to < j /\ j <= pos THEN values[j - 1] ELSE values[j]]

(* Mutant of add_sample: the last of the K values is never replaced.       *)
add_sampleFirstK(val) ==
    /\ values' = IF samplecount < kbest THEN Insert(samplecount + 1, val) ELSE values
    /\ samplecount' = samplecount + 1
    /\ samples' = Sorted(Append(samples, val))

add_sample(val) ==
    /\ values' = Insert(Place(val), val)
    /\ samplecount' = samplecount + 1
    /\ samples' = Sorted(Append(samples, val))

Within(low, high) == (EpsDen + EpsNum) * low >= EpsDen * high

has_converged(vals, n) == n >= kbest /\ Within(vals[1], vals[kbest])

(* get_counter or get_comp_counter, which calls times after it has read    *)
(* the counter, then add_sample and the test of the loop.                  *)
Read(late) ==
    /\ pc = "read" /\ (compensate \/ late = 0) /\ m.ticks + late <= MaxTicks
    /\ LET time == get_counter(cyc, access_counter(platform, m.now))
           ticks == m.ticks + late
           val == UNIT * time - (IF compensate THEN ticks * cyc_per_tick ELSE 0)
       IN  /\ add_sample(val)
           /\ reading' = [cyc |-> time, exact |-> m.now - m.started,
                          wraps |-> m.started \div W # m.now \div W,
                          val |-> val, own |-> m.own, taken |-> m.taken, ran |-> m.ran]
    /\ IF has_converged(values', samplecount') \/ samplecount' >= maxsamples
       THEN pc' = "return" ELSE pc' = "turn"
    /\ m' = NoMeasure
    /\ UNCHANGED <<build, settings, cache_buf, cyc, cyc_per_tick, cal, seen, calls,
                   result>>

Return ==
    /\ pc = "return"
    /\ result' = values[1] /\ values' = <<>>
    /\ pc' = "idle"
    /\ samples' = <<>> /\ reading' = NoReading
    /\ UNCHANGED <<build, settings, cache_buf, samplecount, cyc, cyc_per_tick, cal, seen,
                   m, calls>>
-----------------------------------------------------------------------------
(* ftimer.c.  A time is read as seconds and microseconds: gettimeofday     *)
(* since an epoch, getitimer what is left of MAX_ETIME seconds.            *)
Split(t) == [sec |-> t \div USEC, usec |-> t % USEC]
Micros(sec, usec) == USEC * sec + usec

gettod_diff(s, e) ==
    LET stv == Split(s)
        etv == Split(e)
    IN  Micros(etv.sec - stv.sec, etv.usec - stv.usec)

get_etime(elapsed) ==
    LET r_curr == Split(MAX_ETIME * USEC - elapsed)
    IN  Micros(MAX_ETIME - r_curr.sec, 0 - r_curr.usec)

(* The first reading: for the interval timer, some time after it was set.  *)
StartTimer(t) ==
    /\ pc = "idle" /\ method # "fcyc" /\ calls < MaxCalls
    /\ calls' = calls + 1
    /\ m' = [NoMeasure EXCEPT !.started = t, !.now = t]
    /\ pc' = "timed"
    /\ UNCHANGED <<build, settings, cache_buf, sampler, clock, result>>

(* One call of the function.  SIGALRM ends the program when the real-time  *)
(* timer has run down.                                                     *)
RunTimed(d) ==
    /\ pc = "timed" /\ m.i < N
    /\ m' = [m EXCEPT !.now = @ + d, !.i = @ + 1, !.own = @ + d]
    /\ pc' = IF method = "itimer" /\ m'.now >= MAX_ETIME * USEC
             THEN "killed" ELSE pc
    /\ UNCHANGED <<build, settings, cache_buf, sampler, clock, calls, result>>

(* The sum over N runs, in microseconds; dividing by N gives the average.  *)
EndTimer ==
    /\ pc = "timed" /\ m.i = N
    /\ result' = IF method = "gettod" THEN gettod_diff(m.started, m.now)
                 ELSE get_etime(m.now) - get_etime(m.started)
    /\ pc' = "idle"
    /\ UNCHANGED <<build, settings, cache_buf, sampler, clock, m, calls>>
-----------------------------------------------------------------------------
(* A clear without end reads the same int again and again.                 *)
Over == pc \in {"exit", "fault", "killed", "clear"} \/ (pc = "idle" /\ calls = MaxCalls)

Next ==
    \/ \E k \in Ks, max \in MaxSamples, c, b \in BOOLEAN : SetSampling(k, max, c, b)
    \/ \E bytes \in CacheSizes : set_fcyc_cache_size(bytes)
    \/ \E bytes \in BlockSizes : set_fcyc_cache_block(bytes)
    \/ StartFcyc \/ Turn \/ Callibrated \/ Return \/ EndTimer
    \/ \E t \in StartTimes, early \in {0, 1} : StartCallibrate(t, early)
    \/ \E g \in Gaps, tick, late \in TickCosts \cup {0} : Callibrate(g, tick, late)
    \/ \E t \in StartTimes, late \in {0, 1} : StartCounter(t, late)
    \/ \E c \in TickCosts : Tick(c)
    \/ \E d \in OwnTimes : Run(d)
    \/ \E late \in {0, 1} : Read(late)
    \/ \E t \in TimerStarts : StartTimer(t)
    \/ \E d \in OwnTimes : RunTimed(d)
    \/ Over /\ UNCHANGED vars

Spec == Init /\ [][Next]_vars

(* The program runs; that ticks keep coming is Period's bound.             *)
FairSpec == Spec /\ WF_vars(pc # "idle" /\ ~Over /\ Next)
-----------------------------------------------------------------------------
(* However the samples arrive, values holds the K smallest in order.       *)
KBest ==
    values # <<>> =>
        LET n == Least(kbest, samplecount)
        IN  SubSeq(values, 1, n) = SubSeq(samples, 1, n)

(* The difference of two readings is the time between them: of the cycle   *)
(* counter, whichever half wraps (on the Alpha, which has no high half,    *)
(* unless the low half wraps), and of the descending timer and the time of *)
(* day, however their seconds and microseconds carry.                      *)
ReadingExact ==
    /\ platform = "i386" \/ ~reading.wraps => reading.cyc = reading.exact
    /\ method # "fcyc" /\ pc = "idle" /\ calls > 0 => result = m.now - m.started

(* A corrected sample is above the cycles of the function itself by no     *)
(* more than what the ticks that came meanwhile cost above the cheapest    *)
(* one callibrate met: the correction subtracts at least that for each.    *)
(* The only exceptions are a tick that fell between two readings of        *)
(* callibrate and a calibration of 2^64 cycles.                            *)
OnlySplitOverestimates ==
    /\ compensate /\ cyc_per_tick # 0 /\ platform = "i386"
    /\ ~seen.split /\ ~seen.round
    => reading.val <=
         UNIT * (reading.own + reading.taken - reading.ran * seen.cheapest)

(* clear never reads outside its buffer, however sizes change meanwhile.   *)
ClearInside == pc # "fault"

(* fcyc returns or exits, however long its samples take to converge, with  *)
(* two exceptions: cache blocks smaller than an int, which clear cannot    *)
(* step over, and a calibration on the Alpha that lasts until the low half *)
(* of the counter has come round, after which newt may never again be      *)
(* THRESHOLD above oldt.                                                   *)
Returns ==
    pc # "idle" ~> \/ pc \in {"idle", "exit", "killed"}
                   \/ ClearSpins
                   \/ platform = "alpha" /\ pc = "loop" /\ seen.round
=============================================================================
