# TLA+ models of the CSO labs

The repository is a set of C laboratory exercises. Some parts are working code
that students build on (a hash table and its multi-threaded test, a malloc
package, the driver that judges it, timers, a grading script), others are stubs
to be filled in, with tests and main programs around them.
This directory models the working code, and the code around the stubs together
with what may be put in their place, checks it with TLC on small instances,
and proves with TLAPS the invariants that hold for every instance.

## Inventory

| Part | Files | State | Operations | Hard behaviour | What makes it correct |
|---|---|---|---|---|---|
| hash table | `threadlab/htable.c`, `.h` | slot array, its size, chained nodes | `htable_init`, `_insert`, `_lookup`, `_resize`, `_destroy` | no locks: stale heads and links, a resize in the middle of other calls | one thread: a map; many threads, no resize: no invalid access, no ring, no duplicate, losses only by a stale link; resizes that meet no call do no harm |
| table sizes, hash | `htable.c` 16-70 | loop variables | `is_prime`, `get_prime`, `madd`, `mmul`, `hashcode` | boundaries (3, 4, 9, `BIG_PRIME`) | least prime; congruent; in range and an index unless a character is negative |
| table test | `threadlab/testhash.c`, `tester.c` | phase, per-thread loop index, verdict | `test_htable`, `test_htable_run` | unsynchronised workers, join, destroying what a race left | ends; inserts every key; never blames a correct table |
| read-write lock | `threadlab/rwlock.c`, `.h` | none (stub) | `rwl_rlock`, `_wlock`, `_runlock`, `_wunlock`, `_nwaiters`, `cond_timedwait` | readers share, writers exclude and go first, timed calls | see its test |
| read-write lock test | `threadlab/testrwlock.c` | four flags, threads, two condition variables | `test_rwl_basic`, `test_rwl_priority` | polling, wakeups, a deadline that is too close | passes only locks that exclude; blames no correct one; ends |
| simulated heap | `malloclab/memlib.c` | bytes, `mem_brk` | `mem_init`, `mem_sbrk`, `mem_reset_brk` | heap limit, negative increment | a refused request changes nothing |
| malloc package | `malloclab/mm.c`, `mm.h` | headers in the heap | `mm_malloc`, `mm_free`, `mm_realloc` | `int` increment, header read back, failing realloc | independent aligned blocks, data kept |
| malloc driver | `malloclab/mdriver.c` | trace, blocks, range list, totals, errors | `eval_mm_valid`, `_util`, `_speed`, `main` | three passes over one heap, rejection in mid-trace | rejects bad packages, accepts good ones, counts right |
| timing | `fcyc.c`, `fsecs.c`, `ftimer.c`, `clock.c` | samples, cache buffer, counter halves, cycles per tick | `fsecs`, `fcyc`, `get_comp_counter`, `callibrate`, `ftimer_*` | ticks between any two steps, 64-bit borrow, late samples | k smallest kept, exact differences, bounded error of the correction, stops |
| Rabin-Karp | `rklab/rkmatch.c`, `rkmatch_main.c`, `bloom.c` | chunk and window offsets, hashes, filter | `main`, `madd`, `mdel`, `mmul`, `hash_i`; stubs for the matching | `BIG_PRIME` boundary, last chunk, filter size 0 | congruence; all algorithms count alike |
| C exercises | `clab/part*.c` | none | `assert(0)` stubs | none | unit tests |
| grading | `clab/gradelib.py`, `grade-lab` | test registry, scores, last output, log files | `test`, `run_tests`, `Runner.match` | tests that pull in tests, shared output, Ctrl-C, logs of earlier gradings | each program once; score, exit status and logs are true |
| binary lab, aux lab, traces | `binarylab/`, `auxlab/`, `malloclab/traces/` | data, objects | none | none | none |

Interactions: `tester.c` calls `test_htable`, which starts threads that call
`htable.c` concurrently on one table. `mdriver.c` calls `mm.c`, which calls
`memlib.c`; the driver also asks `memlib.c` for the heap's ends when it checks
what `mm.c` returned, and hands `eval_mm_speed` to `fsecs.c`, which calls it
back through `fcyc.c` and `clock.c`, or through `ftimer.c`, several times.
`testrwlock.c` calls the lock from eleven threads that main steers through flags.
`rkmatch_main.c` calls the matchers of `rkmatch.c`, the last of which uses
`bloom.c`. `grade-lab` registers its tests with `gradelib.py`, which runs the
programs of `clab/`.

`PROJECT.json` lists the hazards at their lines and the properties that watch
them.

## Modules

| Module | Models | Notes |
|---|---|---|
| `Primes` | `is_prime`, `get_prime` as functions | used by the table |
| `PrimeSearch` | the same, loop turn by loop turn | shown to compute `Primes` |
| `TableArith` | `htable_init`'s search, then `hashcode` with `madd`, `mmul` | characters are signed; the exact polynomial is a history variable |
| `ArithProofs` | proofs about `PrimeSearch` and `TableArith` | |
| `HTable` | `htable.c` | one action per access to shared memory, any number of threads |
| `KVMap` | what the calls promise: one map | abstract specification |
| `HTableMap` | the refinement mapping | `IsAMap` |
| `HTableInv` | inductive invariants of the table | |
| `HTableOverlap` | `HTable` with a history variable: whether a resize has met another call | |
| `HTableProofs` | proofs about `HTable`, its refinement of `KVMap`, and `TestHash` | threads that race; one thread that resizes |
| `TestHash` | `tester.c` and `testhash.c` driving `HTable` | composes with the table; the lock's tests are what they do to main |
| `MM` | `memlib.c`, `mm.c`, `mm.h` | functions from a heap to a result and a heap |
| `Allocator` | what a malloc package promises | abstract specification |
| `MMClient`, `MMProofs` | any client of `mm.c` | invariant, refinement and their proofs |
| `MDriver`, `MDriverProofs` | `mdriver.c` | over `mm.c` or over an arbitrary package |
| `TestRWLock`, `TestRWLockProofs` | `testrwlock.c` on a lock under test; `rwlock.c` is one | the lock is a choice of admission rules |
| `Clock` | `clock.c`: reading and subtracting counters | pure operators |
| `FSecs`, `FSecsProofs` | `fsecs.c`, `fcyc.c`, `ftimer.c`, the rest of `clock.c` | ticks of the timer are part of every step |
| `RKHash` | `madd`, `mdel`, `mmul`, `hash_i`; rolling hash | a failed assertion is a value |
| `RKMatch`, `RKProofs` | `rkmatch_main.c` with stubs or with matchers | |
| `GradeLib`, `GradeLibProofs` | `gradelib.py` as `grade-lab` uses it | Python's call stack is explicit |
| `MCHTable`, `MCHTableOverlap`, `MCTestHash`, `MCMDriver` | values of constants for TLC | |

### How HTable corresponds to the code

`size`, `store`, `arrays` are `ht->size`, `ht->store` and the slot arrays
`malloc` has returned, with a flag for those freed; `node` is the memory of the
nodes. Each thread has a program counter `pc`, the arguments of its call `arg`,
the locals of insert and lookup `loc` and those of resize `rsz`. Every action
makes at most one access to memory another thread may change: `ReadSize`,
`ReadBase` and `ReadHead` are lines 145-149, which read `ht->size`, the address
of the array and its element one after the other, `LinkAfterPrev` and
`LinkHead` are the writes of lines 168 and 170, and `NewStore` to `SetStore`
are `htable_resize` line by line, `SetSize`, `FreeStore` and `SetStore` being
three separate steps. Accesses to memory of the thread alone (the new node, the
new array) and to fields that never change once they can be seen (`key`,
`val`) are folded into the neighbouring step.

The code has data races. A step reads or writes a whole word, as the machine
does; an index outside an array, or an access to a freed one, sets `fault`, and
nothing is predicted after it.

`htable_init` sets `allow_resize` to what its caller asks for, one of the values
in `AllowResize`. A key's hash is a constant function: `hashcode` reads only the
caller's string. `HashAssumption` makes it a natural number, which is so for
keys without bytes of 128 and above (`Congruent`); the test makes its keys of
`'A'` to `'Z'`.
The collision count is kept up to `MAX_COLLISION`, the only value it is
compared with. Bounds: `MaxNodes`, `MaxStores`, `MaxCalls`. `htable_destroy` is
only called when no thread is in the table, and is part of `TestHash`.

`TestHash` adds what main and the workers of the test do between calls of the
table: `FirstCall` and `SecondCall` are the two calls in a turn of
`test_htable_run`'s loop, `Join`, `ValidateCall`, `ValidateStep`, `Restart` and
`Pass` the phases of `test_htable`. Both phases end with `htable_destroy`:
`DestroyFaults` says when it reads a freed array or outside its bounds, frees a
node twice or follows a ring, which only racing resizes bring about;
`DestroyFault` is that end, `Restart` and `Pass` take the other one. The table is freed
in one step, because main is alone with it. After the fixed table, `-t all`
goes through `test_rwl_basic` and `test_rwl_priority`. These share nothing with
the table (`TestRWLock` is their model), so they are one step here,
`RwlTests`: with `lock_passes` they return, and without, as with the repository's stub,
`test_fatal` exits. `NextTest` is main's second call of `test_htable`. The main
thread is one more thread of the table.

### How TableArith corresponds to the code

`Search` is the loop of `get_prime` and `is_prime` (`PrimeSearch`), `Read` one
turn of the loop in `hashcode`. A byte above 127 is a negative `char`
(`ToChar`), and `%` of C has the sign of the dividend (`Rem`). So both the hash
and the slot of line 146 may be negative. `q` is the polynomial
without any reduction and `plain` says that no character has been negative.
An `int` holds every intermediate value (`ArithAssumption`).

### How MM and MMClient correspond to the code

Addresses are offsets from `mem_start_brk`. A `size_t` header is one cell of
memory; `SIZE_T_SIZE` cells still lie between a header and its payload.
`newsize` is computed in `size_t` and converted to `int` as line 52 of `mm.c`
does, `IntMod` and `SizeMod` being the two ranges. `mem_reset_brk` keeps the
bytes. The client calls the package in any order with at most one block per
name, writes only to bytes of its blocks, and may start over.

Sizes go up to `INT_MAX`, because the driver's sizes are `int`; `size_t`
requests beyond that are not made by any caller in the repository.

### How MDriver corresponds to the code

`pc` names the pass, `i` the loop index, and the other variables carry the names
of the code. One action interprets one request in one pass, with everything the
code does for it: in `eval_mm_valid` the call, `remove_range`, `add_range` with
its three tests, the comparison of the old data and `memset`. The `char` that
is compared with `index & 0xFF` is signed, as on the machines the lab builds
for. Traces are all sequences of up to `MaxOps` requests in which a block is
allocated before it is reallocated or freed, as in `malloclab/traces`; each
trace is chosen when `read_trace` reads it.

`setup` is what main was built and started with: the package it is linked to,
the number of trace files, and how often `ftimer_gettod` runs `eval_mm_speed`.
The package `"mm.c"` is `MM`; the package `"any"` stands for everything a
student may hand in: it returns NULL or any address in `Answers`, leaves the end
of the heap where it is or moves it up to any in `Breaks`, and copies any prefix.
The proofs hold for any sets of integers `Answers` and of ends `Breaks`.
`MCMDriver` lists the setups for TLC: `mm.c` on two traces with the timed pass
run twice, and any package on one trace, with ends of a heap of 5 bytes and all
addresses in, at and next to it.

### How TestRWLock corresponds to the code

The lock under test is chosen at the start: whom it admits beside readers and
beside a writer, whether waiting writers or readers go first or neither, whether
it looks at the clock before it tries, and whether `rwl_nwaiters` counts
holders. `Stub` is the lock in the repository; `KeepsContract` is what its
header comment and the comment on `rwl_nwaiters` ask for. `Basic` lists the
calls of `test_rwl_basic` with the answers it demands. In `test_rwl_priority`
main is `stage`; each thread has a place `pc`. Every access to the flags is made
under `test_m`, so a critical section is one step; a wait on a condition
variable is two, and may end without a broadcast. `get_expiretime` says that the
deadline 100 ns ahead is still to come when the lock looks, is past, or has more
than 999,999,999 nanoseconds: then `pthread_cond_timedwait` returns `EINVAL` and
the assertion in `cond_timedwait` ends the program. `usleep` gives no
guarantee of who has run when it returns.

### How Clock and FSecs correspond to the code

Time is counted in cycles. `StartCounter`, `Run` and `Read` are the three
statements in a turn of `fcyc`'s loop. A timer interrupt counts one tick of
user time and takes any of `TickCosts`, not always the same. Any number of them
come while the function runs (`Tick`), and one may come between a reading of
the counter and the call of `times` next to it (`late`, `early`), where the code
cannot tell. `StartCallibrate` and `Callibrate` are the start and a turn of the
loop of `callibrate`. It takes `newt` through `get_counter`, as
the code does, so on the Alpha a wrap of the low half borrows there too. `seen`
keeps of a calibration the cost of the cheapest tick, whether a tick
split two readings, and whether the counter came round. Cycle values that are
real numbers in the source are kept in sixths, in which a quotient by one, two
or three ticks is exact; others are rounded down.
`values` is the array `add_sample` sorts into, `samples` a history variable of
all samples. The buffer of `clear` is its length, and reading behind it is
`fault`; a cache block smaller than an `int` makes the step of its loop 0, which
is the place `clear`. Nothing in the repository calls
`set_fcyc_cache_block`; the sizes tried are not negative. Cache sizes are set
only where `clear` is called at all, since nothing else reads them. Bounds:
`MaxTaken` and `MaxTicks` on the ticks of one measurement, `Period` on the
cycles between ticks in `callibrate`, `MaxLag` on the ticks it finds at once,
`MaxCalls`. `build` is what the program was compiled for: `USE_FCYC` on the
three platforms `clock.c` knows, `USE_ITIMER` or `USE_GETTOD`. `init_fsecs`
sets `K`, `maxsamples` and the two flags once; all values are tried.

### How RKHash and RKMatch correspond to the code

The functions that compare documents are stubs that return 0. `solved` chooses
between them and matchers that main's calls ask for: a search that compares
windows, one that compares rolling hashes first, and a Bloom filter of all
chunks. All arithmetic goes through `madd`, `mdel` and `mmul` as they are, with
their assertions; `ABORT` is the result of a failed one. `Chunk(i)` is
the text `qdoc+i`, of length `k`. Documents are read and normalized in `ReadFiles`, which
may exit; documents are then any sequences up to the bounds. `-k` is taken to be
zero or more.

### How GradeLib corresponds to the code

`proc` is the Python process: the globals of `gradelib.py`, the call stack of
`run_test` calls (a test calls its parent in the middle of its own call), the
set of complete tests, the callbacks, and `proc_output`, which belongs to the
one `Runner`. `logs` are the files that outlive it. Each statement of `run_test`
that touches shared state is a step, because Ctrl-C can come between any two.
A program prints any subset of the lines its tests look for, or never ends. The
filters of the command line choose any set of tests, by their titles.

## Runs

| Run | Question | Instance |
|---|---|---|
| `htable_seq` | Is the table a map for one thread, through resizes? | 5 calls, 3 keys (two with one hash), sizes 2, 5, 11 |
| `htable_race` | What survives without locks? | 2 threads, 2 calls each, 4 keys, three in one slot |
| `htable_race_resize` | And while threads resize, or when they resize afterwards? | 2 threads, 2 calls each, any of which may resize; 2 keys in one slot that a resize parts |
| `test_table` | Does the test pass with one thread; can it hang, skip a key or see a wrong value with more? | 2 keys, 1 to 3 workers, every `-t`, a lock that passes its tests and one that does not |
| `table_arith` | Does `get_prime` find the least prime; is the hash congruent, in range, and the slot an index? | arguments 1 .. 30; modulus 13, keys up to 5 of the characters 1, 2, 3, -4, -1 |
| `mm_client` | Does `mm.c` implement an allocator? | 2 blocks, heap of 12, sizes 1, 3 and the largest int |
| `mdriver` | Is `mm.c` judged correctly in every pass; what can an accepted payload be? | `mm.c`: all pairs of traces of up to 3 requests, blocks 0 and 128; any package: traces up to 3 requests, heap of 5 |
| `mdriver_overlap` | Do accepted payloads never overlap? (no) | arbitrary package, as above |
| `rwlock` | Which locks does the test pass, which does it blame, does it end? | 192 locks, 2 competing readers, a writer, a lingering reader |
| `timing` | Are the K smallest samples kept, are readings exact, how far off is a correction, does it stop? | 2 measurements of up to 3 samples, K of 2, words of 4 values, ticks of 1 and 2 cycles |
| `rkmatch` | Does the rolling hash stay right; do the algorithms agree; does it end? | documents up to 3 characters, chunks of 0, 1, 2, moduli 2, 7, 11 with radix 3 |
| `grade` | Are outputs, score, exit status and logs right, whatever is run and interrupted? | 2 programs with 2 tests each, 2 gradings |

Why the bounds are enough. A lost entry, a duplicate, or a node seen too early
needs two threads, two operations on one chain, and a chain with a head and a
tail: `htable_race` has these and a second slot to tell chains apart. In
`htable_race_resize` a key that meets the other in its slot makes its thread
resize, and `PartHash` then parts them. Four calls are enough for a race that
loses a key followed by a resize that meets no call (the case
`ResizeAloneIsSafe` is about), and for two resizes at once, which tie rings and
use freed arrays. `SplitHash` makes a chain that a resize splits and two keys
that no resize separates. In `mm_client` the
heap takes two large blocks or three small ones, so every call also fails; two
cell values tell every copied byte from one that was not. In `mdriver` two
traces are the fewest in which something left behind can matter, three requests
the fewest that exhaust the heap after a reallocation. For the arbitrary
package sizes 1 and 5 in a heap of 5 give every relation of two intervals that `add_range`
distinguishes. Modulus 13 with radix 7 reaches the sum 13 that `madd` does not
reduce, and with eight character values, three of them above 0 and two below,
negative hashes and slots. In `test_table` two workers have a key each, and of
three the last has both, as the remainder. `BIG_PRIME` is
scaled to 2, so that a worker's second key may be the other's: the workers
insert the same keys. The keys collide in a table of two slots and in one
of five, and a collision resizes: two resizes at once occur, and a table that
`htable_destroy` cannot free. Two
competing readers are as many as `test_rwl_priority` can tell apart: it asks only
whether a reader or the writer came first and whether all are counted. In
`timing` words of 4 values make the low half wrap with and without a borrow and
the high half wrap too; ticks of 1 and 2 cycles give calibrations that meet only
dear ones, only cheap ones and both; two ticks may come in a run, more than
the correction was measured on; 3 samples with K of 2 replace a kept value. In `rkmatch` the smallest modulus is below the radix, so
the assertions fail; with 7 and 11 only a hash of 0 makes them fail, and both cases occur. Two
programs are what it takes to mix up outputs, two gradings to leave a log
behind.

Fairness. `FairSpec` of `HTable` and `TSpec` of `TestHash` assume that the
scheduler eventually runs each thread that can take a step (weak fairness per
thread); the code has no locks, so no step waits for another thread except
`pthread_join`, which is `Join`. `FairSpec` of `TestRWLock` assumes the same of
main and of each worker; a call that waits in the lock under test goes on when
it stays admitted, which is what a lock with condition variables does. No
fairness is assumed of spurious wakeups. `Spec` of `RKMatch` and `FairSpec` of
`FSecs` assume that their one thread runs. `callibrate`
waits for `NEVENT` ticks; that ticks keep coming is not fairness but the
bound `Period`: the timer interrupt of the system comes after so many
cycles at the latest. Nothing else assumes fairness.

### Where code and comments disagree

* `mdriver_overlap`: `add_range` looks only at the ends of the new payload, so
  one that encloses an older one passes. `OverlapOnlyByContainment` shows that this is the
  only gap.
* Two inserts that both find the end of a chain overwrite each other's link. The
  lab asks for locks to be added; the code as it stands has none, and
  `testhash.c:112` reports the loss as an error. `OnlyStaleLinkLoses` shows that
  this is the only way to lose an entry.
* `mdriver.c:650` compares a `char`, signed on the machines the lab builds
  for, with an `int`: from block 128 on, a low byte is never equal to it and
  data that `mm.c` kept is reported lost. `OnlyOutOfMemory` has this and the
  full heap as the only reasons for rejecting `mm.c`. The traces in the
  repository reallocate block 0 only.
* `testrwlock.c:40` says "100ms in the future", line 45 adds 100 ns and carries
  nothing. A lock that keeps the contract can therefore fail the test or be
  aborted by the assertion of `rwlock.c:26`, and a lock that gives up at once
  can pass it for the wrong reason. `OnlyBadDeadlineBlames` shows that there is
  no other way to blame a correct lock, and `PassedMeansContract` names the
  same exception.
* `clock.c:98-100` says that the Alpha's counter can time about 9 seconds;
  lines 126-128 borrow from a high half that is always 0, so an interval in
  which the low half wraps, however short, gives a reading near 2^64. `ReadingExact`
  shows that this is the only error, and that the Pentium version has none.
  `callibrate` subtracts the same way: when it lasts until the low half has
  come round, `newt` may never again be `THRESHOLD` above `oldt`, and it waits
  forever. `Returns` names this exception.
* `rkmatch.c:41` says `(a-b) % BIG_PRIME`, but `mdel(a, a)` is `BIG_PRIME`,
  and so may be the result of `madd`; the next operation's assertion refuses it. With chunks of
  one character every first slide of the window aborts.
  `CrashesOnlyAtZero` shows that nothing else makes the assertions fail as
  long as the modulus is a prime above the radix, and `CountsAgree` that Rabin-Karp misses a chunk only for
  this reason: a hash that is 0.

Found on the way, outside the models: `rkmatch_test.c:66-74` reads `buf[10]` and
`buf[11]`, which lie behind the string it hashes; the usage text of `mdriver.c`
lists `-l`, for which its `switch` has no case.

Two comments of `htable.c` promise more than the code does, without harm to the
table (`LeastPrime` and `Congruent` hold): line 60 says that `get_prime` returns
a prime larger than `min`, but it returns `min` when that is prime, and 1 for 1;
`madd`, called modulo addition in line 16, leaves a sum of exactly `BIG_PRIME`
unreduced, so that a hash lies in `0 .. BIG_PRIME`.

Where no comment promises otherwise, but a reader may be surprised:

* A key with a byte of 128 or above has a hash, and then a slot
  (`htable.c:146`), that may be negative, an index in front of the array.
  `Congruent` says in which range; no caller in the repository has such a key.
* A resize that meets another call is not safe in any way: the other call uses
  the slot of the old size or the freed array, and two resizes tie rings
  and leave a table whose destruction frees nodes twice. `ResizeAloneIsSafe`
  shows that a resize which meets no call is safe, whatever earlier races did.
* With the lock as it stands in the repository `-t all` exits in the test of
  the lock and never starts the resizing test (`Passes`).
* `set_fcyc_cache_block` with less than the size of an `int` makes `clear`
  read one `int` forever (`Returns` names this exception).
* Ticks differ in cost and `callibrate` keeps the cheapest, so a corrected time
  is too large by what dearer ticks cost above it. `OnlySplitOverestimates`
  bounds the error by just that.

## Proofs

TLAPS checks the theorems below for every value of the constants that the named
assumptions of the modules admit. Each inductive invariant was first checked by
TLC on the instance of the run that checks the property.

| Module | Theorem | States | Along |
|---|---|---|---|
| `HTableProofs` | `Invariance`, `Safety`, `Placement`, `NoCycle` | `HInv`, `NoInvalidAccess`, `WellPlaced`, `Acyclic` | `HInv` |
| | `NoDuplicates`, `OnlyStaleLinks` | `NoDuplicateKeys`, `OnlyStaleLinkLoses` | `RaceInv` |
| | `NewArrays` | `ArraysOwned` | `ExchangeInv` |
| | `Types`, `Private` | `TypeOK`, `PrivateUntilLinked` | `PointerInv` |
| | `Values` (of `TestHash`) | `ValuesBelong` | `TestInv` |
| | `Shares` (of `TestHash`) | `SharesCoverKeys` | `ShareInv` |
| | `SeqInvariance`, `SeqSafety`, `SeqPlacement`, `SeqNoDuplicates`, `SeqNoCycle`, `SeqRefinement` | `SeqInv`, `NoInvalidAccess`, `WellPlaced`, `NoDuplicateKeys`, `Acyclic`, `IsAMap` | `SeqInv` |
| `ArithProofs` | `LeastPrimeFound`, `HashCongruent`, `GetPrimeEnds` | `LeastPrime`, `Congruent`, primes without end | `SearchInv`, `HashInv` |
| `MMProofs` | `HeapInvariance`, `Refinement` | `HeapInv`, `IsAnAllocator` | `HeapInv` |
| `MDriverProofs` | `TypeCorrect` | `Types` | |
| | `RangesTracked`, `OverlapsAreContainments` | `RangesTrackBlocks`, `OverlapOnlyByContainment` | `RangesInv` |
| | `NeverExits` | `LaterPassesAgree` | `EndsInv` |
| | `JudgesMM` | `OnlyOutOfMemory` | `JudgedInv` |
| | `CountsPeakDemand` | `HwmIsPeakDemand` | `UtilInv` |
| `TestRWLockProofs` | `Invariance`, `PassedIsSound`, `BlameIsSound` | `IInv`, `PassedMeansContract`, `OnlyBadDeadlineBlames` | `IInv` |
| `FSecsProofs` | `BufferWalk` | `ClearInside` | `BufferInv` |
| | `ExactReadings` | `ReadingExact` | `ReadInv` |
| | `Compensation` | `OnlySplitOverestimates` | `TickInv` |
| | `KBestKept` | `KBest` | `SamplerInv` |
| `RKProofs` | `RollInvariance`, `Rolling` | `RollInv`, `RollingHash` | `RollInv` |
| | `Crashes` | `CrashesOnlyAtZero`, for a prime modulus | `RollInv` |
| | `Counting`, `Counts` | `CountInv`, `CountsAgree` | `CountInv`, `RollInv` |
| `GradeLibProofs` | `Invariance`, `JudgedByOwnOutput`, `EachProgramOnce`, `ExactScore`, `HonestExit`, `TruthfulLogs` | `GInv`, `OwnOutput`, `OneExecution`, `ScoreExact`, `ExitHonest`, `LogsTruthful` | `GInv` |

### The hash table

All theorems are for any numbers of keys, nodes, arrays and calls, any hash
function and any initial size. Who calls, and whether the table grows, differs:

* any threads, no resizing (`AllowResize = {FALSE}`): `Invariance`, `Safety`,
  `Placement`, `NoCycle`, `NoDuplicates`, `OnlyStaleLinks`;
* any threads, any resizing: `Types`, `NewArrays`, `Private`, and
  `Values` and `Shares` for the test of the table;
* one thread (`Threads = {t}`), any resizing: `SeqInvariance` and the other `Seq` theorems.

Of several threads that resize no more is proved than the second group says: two
loops that move the same nodes at once may tear their lists apart. What the run
`htable_race_resize` adds for resizes that meet no other call is model-checked.

`HInv` adds to the type invariant that there is one live array, that lists
ascend (a node is only linked behind one allocated earlier, of the same slot),
that heads are in their slots, what each thread's locals mean at each place in
the code, and that a new node is private until linked. None of the properties
is inductive alone: a stale link is harmless to the shape of the lists only
because the overwriting node is younger than the node it is linked to and still
has no successor. Placement uses that the nodes of one slot are a closed set
containing everything its head reaches; absence of rings takes the greatest
node of a supposed ring.

`RaceInv` adds how a walk knows that its key is absent. A node is entered from
one place only, and for the node `prev` a walk has reached there is a set of
nodes that contains `prev` and whatever leads to it and no node of the key.
Both survive the writes of other threads: a lost update cuts nodes off, and no
write makes a second way into a node. So an insert never links its key behind
one that the same list already holds. `OnlyStaleLinks` follows: a node leaves
what a head reaches only by a write over a link or head that is not the one its
thread read.

`ExchangeInv` says that the array a thread fills in `htable_resize` is its own:
live, not the table's, not filled or about to be freed by anyone else
(`ArraysOwned`). With it goes that the table's array is a freed one only while
some thread is about to assign `ht->store`. Neither says that no other
thread uses the freed array in between: it may, and that is a fault of the code.

`PointerInv` says of every pointer a thread can come across, in an array, in a
list or in its locals, that it leads to a node that is linked or has been, and
that a node an insert has allocated is not among them before its link is
written. Threads that resize move such pointers about, and the arrays they fill
are their own by `ExchangeInv`, so none of them meets a node that is half built.

`TestInv` adds to `PointerInv` and `ExchangeInv` that every node holds its own key as its
value, as does every insert on its way, that an answer on its way back is NULL or the
key asked for, and who may be in the table in each phase of `test_htable`. So a
race can lose a key, but no lookup is ever answered with the value of another;
a node whose link is yet to be written, or has been overwritten, changes nothing of this.
`TestAssumption` states what the test passes to the table; it is a hypothesis
of `Values` and `Shares` alone, and TLC evaluates it in `MCTestHash`.

`ShareInv` says how far each worker's loop has come in its share, and that it is
at the share's end once the workers are joined. Shares of equal size follow each
other from 0, and the last one ends at `TESTSZ`: a key is in the share of its
quotient by the size, or in the last one when there is no such worker
(`OneShare`). `Shares` follows.

`SeqInv` has a part for the calm table and one for each place in the move loop of
`htable_resize`. On the calm table the heads lead to all linked nodes, each in
the slot of its key, by lists without rings in which no key occurs twice. In
the middle of a resize there are two tables, what has been moved and what is
left, and the node in hand; together they hold what the calm table held. A walk
has seen every node before the one it looks at, so an insert that reaches the
end of a chain links a key the table does not have. For `SeqRefinement` a call takes effect
when it finds its key, an insert otherwise with the write of the link and a lookup at
the end of the chain; resizing is a stutter. It assumes `NULL \notin Vals`: the caller cannot tell a stored NULL
from a missing key.

### Table sizes and hash

`SearchInv` says that the loop of `is_prime` has found no divisor among the odd
numbers below `i`, and that no number passed over is prime. `LeastPrimeFound`
needs besides that odd candidates are enough once the number itself is odd.
`HashInv` is the range and the congruence of the hash for keys of
any bytes: each of `mmul` and `madd` changes a number by a multiple of the
modulus, a negative sum stays above minus a modulus and a character, and
without a negative character none arises. `GetPrimeEnds` says that `get_prime` finds a
prime from every start on (a divisor of `n! + 1` is above `n`); by it the
`while (1)` of line 64 meets a prime, and no table has size 0, whatever number
`Sz` the caller of `htable_init` passes.

### The malloc package

`HeapInv` joins placement, separation and headers, for every alignment, heap
size and pair of word widths allowed by `HeapAssumption`: `mm_realloc` stays
inside the old block only because the header it reads is intact, the header is
intact only because no client write reaches it, and that follows from the
separation of blocks. The arithmetic lemmas (`AlignRounds`, `Increment`) show
that the conversion to `int` either makes the request fail or leaves room for
header and payload. `Refinement` maps every step of a client to a step of
`Allocator` or to a stutter; it is `HeapInv` that keeps a call for one block
from changing what the map shows of another. `ClientAssumption` says that the
mark `FREE` is no address and no content of a block.

### The malloc driver

All theorems are for any `MAX_HEAP`, widths and alignment, traces of any length
and any number of trace files and timed runs.

* `RangesInv`, for any package: the list has one record per block held, and a
  record added later overlaps an earlier one only by sticking out on both sides.
  That records start at different addresses is part of the invariant: otherwise
  `remove_range` might take out the record of another block.
* `EndsInv`, for `mm.c`: there is a sequence of heap ends that depends on the
  requests only. `eval_mm_valid` finds it out, and each later pass meets
  the same ends because it starts on an empty heap, so no request fails there.
* `JudgedInv`, for `mm.c`: in `eval_mm_valid` every block's header holds its
  size and each of its bytes the low byte of its index, below the end of the
  heap. So the comparison can fail only where a `char` is negative.
* `UtilInv`, for any package: `block_sizes` holds the size of the last request
  about each block, so the running total is the number of bytes the trace
  holds, and the maximum is taken over every prefix, although `eval_mm_util`
  compares only after requests that may raise it.

### The read-write lock test

For any number of competing readers above one (`ReadersAssumption`; the source
has eight) and every lock of the family. `IInv` says for each stage of main
which threads exist and where they may be, that holders and waiters are counted
right, what the flags imply, and what each answer has told main about the lock.
With one reader `test_rwl_priority` could not tell a lock that prefers readers.

### Timing

`FSecsAssumption` says that no measurement, with its ticks, lasts as long as
the double word of the counter: then a difference with a borrow is exact except
on the Alpha. For `Compensation` ticks may cost anything, each something else,
and any number may come within the bounds. `TickInv` says that while no
tick has come between two readings that belong together and the counter has not
come round, every gap `callibrate` has divided by its ticks held at least as
many times the cost of the cheapest. So its result is at
least that cost, and the correction takes at least as much off for each tick. For `KBestKept` the K smallest samples are
defined by orders of all samples; `SamplerInv` says that `values` holds the
first ones of such an order and that the K-th is not above any left out.

### Rabin-Karp

For documents and chunks of any length, any radix above 0 and all characters
below it, any moduli above 1 and any size of the filter (`RKAssumption`,
`DocsAssumption`).

What `rkhash_init`, the power and the exact value compute are folds over a
text. `FoldGoes` says that a fold has a value for each prefix, each got from
the one before by one operation; with it `Induction`, which follows from the
least element of a set of numbers, reaches texts of any length. `ValueRolls` is
the exact identity behind rolling: leaving out the first character and adding
one at the end changes the polynomial by `* RADIX - first * Pow(n) + next`.

* `RollInv` says where the loops stand (offsets are multiples of the chunk
  length, the last chunk ends inside X) and that `ph`, `h` and `curr` are in
  range and congruent to the chunk, to the power of the radix and to the
  window. A window that is one further is hashed right because `h` is the power for exactly
  `k` characters, and `rkhash_next` does not abort.
* `Crashes` follows each failed assertion back to its operand. An operand is
  refused only when it is `BIG_PRIME` itself, that is, when something before
  it had the hash 0. For `rkhash_next` this gives `(x * RADIX) % BIG_PRIME = 0`
  for the hash `x` of the characters that stay; that `x` itself is 0 needs a
  prime modulus (`Euclid`). `PrimesArePrime` is therefore a hypothesis of this
  theorem alone: `rkmatch_main.c:51` calls the argument of `-q` a prime, and nothing tests it.
  With the modulus 4 and the radix 2, for example, an assertion fails when the
  window 110 is left, although none of its pieces hashes to 0.
* `CountInv` counts the chunks below `i` that occur, and those of them that do
  not hash to 0, as bounds of `num_matched`; no window before `j` was the
  chunk; every chunk inserted has all its bits in the filter, which only grows; and the
  windows before `j` that are chunks have all been counted. Two hashes of one
  text are equal unless one is 0 and the other `BIG_PRIME`
  (`SameTextSameHash`), which is the whole difference between the algorithms.

### The grading library

For any number of parts, tests and gradings, any filters, and Ctrl-C at any
step. `GInv` relates the call stack to the complete flags, executions, results
shown, scores, verdicts and the log files of this and of earlier gradings: a
test complete but not yet shown is on the stack, a program has run exactly when
its call is past `fn`, and the last output is that of the last part that ran.

### What is only model-checked

* Liveness, which the prover cannot treat: `CallsReturn`, `Ends`, `Passes`,
  `ContractEnds`, `Returns`.
* `ResizeAloneIsSafe`, for two threads with two calls each.
* `CrashesOnlyAtZero` for a modulus that is not prime: it is false there, and
  the run's moduli are primes.

## Not modelled

The stubs of `clab/` and `binarylab/` are exercises without behaviour, and their
tests are sequential. Left out of `mdriver.c`: option parsing, printing, the
floating-point performance index and the libc passes; of `clock.c`: `ovhd`, which
nothing calls, and `mhz`, which scales results by a measured rate; of
`gradelib.py`: `end_part`, which `grade-lab` does not use, colours and the text
of messages; of `rkmatch_main.c`: the printing. Failures of libc's own `malloc`,
on which the programs exit, are modelled where an exit leaves something behind.
Students' solutions are not in the repository, except as the arbitrary package
of `MDriver`, the locks of `TestRWLock` and the matchers of `RKMatch`.

## Plan

1. `OnlyStaleLinkLoses` while threads resize, with the moves of a resize as a further reason.
2. In `MDriver`, the options and the libc passes.
