------------------------------- MODULE MDriver --------------------------------
(***************************************************************************)
(* malloclab/mdriver.c: main runs three passes over every trace with the   *)
(* malloc package under test, eval_mm_valid, eval_mm_util and (several     *)
(* times, from ftimer.c) eval_mm_speed.  The package is mm.c, or any       *)
(* package a student may hand in: it returns NULL or any address, extends  *)
(* the heap as it likes and copies what it likes.                          *)
(*                                                                         *)
(* The traces are well formed, like those of malloclab/traces: a block is  *)
(* allocated before it is reallocated or freed, sizes are positive.        *)
(***************************************************************************)
EXTENDS MM, Sequences, FiniteSets, SequencesExt

CONSTANTS
    Indices,          \* the block ids of the traces
    TraceSizes,       \* the sizes of their requests
    MaxOps,           \* bound on num_ops
    Setups,           \* what main may be run with
    Answers, Breaks   \* bounds: the addresses and ends of the heap that
                      \* a package other than mm.c comes up with

ASSUME DriverAssumption ==
    /\ Indices \subseteq Nat /\ TraceSizes \subseteq 1..INT_MAX
    /\ MaxOps \in Nat
    /\ Setups \subseteq [package : {"mm.c", "any"}, num_tracefiles : Nat,
                         repeats : Nat \ {0}]
    /\ Answers \subseteq Int /\ Breaks \subseteq 0..MAX_HEAP

VARIABLES
    setup,            \* the package under test, the number of trace files and
                      \* how often ftimer_gettod runs eval_mm_speed
    pc,               \* "read", a pass about to start, a pass ("valid",
                      \* "util", "speed"), "done" or "exit"
    tracenum,         \* main's i
    trace,            \* the requests, read_trace's ops array
    i,                \* requests interpreted in this pass
    blocks,           \* trace->blocks
    block_sizes,      \* trace->block_sizes
    ranges,           \* the range list, first element first
    heap,
    total_size, max_total_size,   \* of eval_mm_util
    runs,             \* runs of eval_mm_speed so far
    valid,            \* mm_stats[].valid
    errors,
    message           \* the last message of malloc_error or app_error
vars == <<setup, pc, tracenum, trace, i, blocks, block_sizes, ranges, heap,
          total_size, max_total_size, runs, valid, errors, message>>

Arbitrary      == setup.package = "any"
num_tracefiles == setup.num_tracefiles

-------------------------------------------------------------------------------
Request == [type : {"ALLOC", "REALLOC"}, index : Indices, size : TraceSizes]
             \cup [type : {"FREE"}, index : Indices, size : {0}]

(* The blocks a trace holds after its first n requests.                    *)
HeldAfter(ops, n) ==
    {x \in Indices : \E k \in 1..n :
        /\ ops[k].index = x /\ ops[k].type # "FREE"
        /\ \A l \in (k + 1)..n : ops[l].index = x => ops[l].type # "FREE"}

WellFormed(ops) == \A k \in DOMAIN ops :
    ops[k].type = "ALLOC" <=> ops[k].index \notin HeldAfter(ops, k - 1)

Traces == {ops \in UNION {[1..n -> Request] : n \in 1..MaxOps} : WellFormed(ops)}

op    == trace[i + 1]
More  == i < Len(trace)
Held  == HeldAfter(trace, i)

-------------------------------------------------------------------------------
(* The package under test.                                                 *)

AnyResult(h) == {[p |-> NULL, heap |-> h]} \cup
    {[p |-> q, heap |-> [h EXCEPT !.brk = b]] :
        q \in Answers, b \in {b \in Breaks \cup {h.brk} : b >= h.brk}}

MallocResults(h, n) == IF Arbitrary THEN AnyResult(h) ELSE {mm_malloc(h, n)}

(* The first c bytes are copied.                                           *)
ReallocResults(h, q, n) ==
    IF ~Arbitrary THEN {mm_realloc(h, q, n)}
    ELSE AnyResult(h) \cup
         {[r EXCEPT !.heap.mem = memcpy(@, r.p, q, c)] :
             r \in {r \in AnyResult(h) : r.p \in 0..(MAX_HEAP - n)},
             c \in {c \in 1..n : 0 <= q /\ q + c <= MAX_HEAP}}

-------------------------------------------------------------------------------
(* The range list.                                                         *)

Hi(lo, n) == lo + n - 1

OutsideHeap(h, lo, hi) ==
    \/ lo < mem_heap_lo \/ lo > mem_heap_hi(h)
    \/ hi < mem_heap_lo \/ hi > mem_heap_hi(h)

(* Mutant of Overlaps: only the first byte of the new payload is tested.   *)
OverlapsFirst(lo, hi, r) == r.lo <= lo /\ lo <= r.hi

Overlaps(lo, hi, r) ==
    \/ r.lo <= lo /\ lo <= r.hi
    \/ r.lo <= hi /\ hi <= r.hi

(* The complaint of add_range about a payload, or "" when it takes it.     *)
RangeError(rs, h, lo, n) ==
    CASE ~IS_ALIGNED(lo)                 -> "not aligned"
      [] OutsideHeap(h, lo, Hi(lo, n))   -> "lies outside heap"
      [] \E k \in DOMAIN rs : Overlaps(lo, Hi(lo, n), rs[k]) -> "overlaps"
      [] OTHER                           -> ""

add_range(rs, lo, n) == <<[lo |-> lo, hi |-> Hi(lo, n)]>> \o rs

remove_range(rs, lo) == RemoveFirstMatch(rs, LAMBDA r : r.lo = lo)

(* Mutant of clear_ranges: the list is kept.                               *)
clear_rangesNot(rs) == rs

clear_ranges(rs) == <<>>

-------------------------------------------------------------------------------
(* A char is signed in this build; memset writes the low byte of the index.*)
Char(b) == IF b \in Int /\ b >= 128 THEN b - 256 ELSE b
LowByte(x) == x % 256

memset(mem, p, b, n) == [a \in DOMAIN mem |-> IF a \in p..(p + n - 1) THEN b ELSE mem[a]]

Remember(p) ==
    /\ blocks' = [blocks EXCEPT ![op.index] = p]
    /\ block_sizes' = [block_sizes EXCEPT ![op.index] = op.size]

NextOp == i' = i + 1

-------------------------------------------------------------------------------
(* main *)

Init ==
    /\ setup \in Setups
    /\ pc = "read" /\ tracenum = 1 /\ trace = <<>> /\ i = 0
    /\ blocks = [x \in Indices |-> JUNK] /\ block_sizes = [x \in Indices |-> JUNK]
    /\ ranges = <<>>
    /\ heap = mem_init
    /\ total_size = 0 /\ max_total_size = 0 /\ runs = 0
    /\ valid = [t \in 1..num_tracefiles |-> FALSE]
    /\ errors = 0 /\ message = ""

(* read_trace; its arrays come from malloc.                                *)
ReadTrace ==
    /\ pc = "read" /\ tracenum <= num_tracefiles
    /\ trace' \in Traces
    /\ blocks' = [x \in Indices |-> JUNK] /\ block_sizes' = [x \in Indices |-> JUNK]
    /\ pc' = "start valid"
    /\ UNCHANGED <<tracenum, i, ranges, heap, total_size, max_total_size, runs,
                   valid, errors, message>>

(* free_trace, and on to the next trace.                                   *)
NextTrace == pc' = "read" /\ tracenum' = tracenum + 1

(* The results are counted and printed.                                    *)
Finish ==
    /\ pc = "read" /\ tracenum > num_tracefiles
    /\ pc' = "done"
    /\ ranges' = clear_ranges(ranges)
    /\ UNCHANGED <<tracenum, trace, i, blocks, block_sizes, heap, total_size,
                   max_total_size, runs, valid, errors, message>>

(* malloc_error, and eval_mm_valid returns 0.                              *)
malloc_error(msg) ==
    /\ errors' = errors + 1 /\ message' = msg
    /\ NextTrace
    /\ UNCHANGED valid

app_error(msg) ==
    /\ message' = msg /\ pc' = "exit"
    /\ UNCHANGED <<tracenum, valid, errors>>

InitFails == IF Arbitrary THEN BOOLEAN ELSE {FALSE}

-------------------------------------------------------------------------------
(* eval_mm_valid *)

StartValid ==
    /\ pc = "start valid"
    /\ heap' = mm_init(mem_reset_brk(heap))
    /\ ranges' = clear_ranges(ranges)
    /\ i' = 0
    /\ \/ TRUE \in InitFails /\ malloc_error("mm_init failed.")
       \/ /\ pc' = "valid"
          /\ UNCHANGED <<tracenum, valid, errors, message>>
    /\ UNCHANGED <<trace, blocks, block_sizes, total_size, max_total_size, runs>>

Goes(p) == /\ Remember(p) /\ NextOp
           /\ UNCHANGED <<pc, tracenum, valid, errors, message>>
Stops(msg) == malloc_error(msg) /\ UNCHANGED <<i, blocks, block_sizes>>

ValidAlloc ==
    /\ pc = "valid" /\ More /\ op.type = "ALLOC"
    /\ \E r \in MallocResults(heap, op.size) :
          LET e == RangeError(ranges, r.heap, r.p, op.size)
          IN  \/ /\ r.p = NULL
                 /\ heap' = r.heap /\ UNCHANGED ranges
                 /\ Stops("mm_malloc failed.")
              \/ /\ r.p # NULL /\ e # ""
                 /\ heap' = r.heap /\ UNCHANGED ranges
                 /\ Stops(e)
              \/ /\ r.p # NULL /\ e = ""
                 /\ ranges' = add_range(ranges, r.p, op.size)
                 /\ heap' = [r.heap EXCEPT !.mem =
                                memset(@, r.p, LowByte(op.index), op.size)]
                 /\ Goes(r.p)
    /\ UNCHANGED <<trace, total_size, max_total_size, runs>>

(* The old data, as far as the new block holds it, is in place.            *)
Preserved(mem, p) ==
    \A j \in 0..(op.size - 1) :
        j < block_sizes[op.index] => Char(mem[p + j]) = LowByte(op.index)

ValidRealloc ==
    /\ pc = "valid" /\ More /\ op.type = "REALLOC"
    /\ \E r \in ReallocResults(heap, blocks[op.index], op.size) :
          LET rs == remove_range(ranges, blocks[op.index])
              e  == RangeError(rs, r.heap, r.p, op.size)
          IN  \/ /\ r.p = NULL
                 /\ heap' = r.heap /\ UNCHANGED ranges
                 /\ Stops("mm_realloc failed.")
              \/ /\ r.p # NULL /\ e # ""
                 /\ heap' = r.heap /\ ranges' = rs
                 /\ Stops(e)
              \/ /\ r.p # NULL /\ e = ""
                 /\ ranges' = add_range(rs, r.p, op.size)
                 /\ IF Preserved(r.heap.mem, r.p)
                    THEN /\ heap' = [r.heap EXCEPT !.mem =
                                        memset(@, r.p, LowByte(op.index), op.size)]
                         /\ Goes(r.p)
                    ELSE heap' = r.heap /\ Stops("did not preserve")
    /\ UNCHANGED <<trace, total_size, max_total_size, runs>>

ValidFree ==
    /\ pc = "valid" /\ More /\ op.type = "FREE"
    /\ ranges' = remove_range(ranges, blocks[op.index])
    /\ heap' = mm_free(heap, blocks[op.index])
    /\ NextOp
    /\ UNCHANGED <<pc, tracenum, trace, blocks, block_sizes, total_size,
                   max_total_size, runs, valid, errors, message>>

(* "As far as we know, this is a valid malloc package": eval_mm_valid      *)
(* returns 1.                                                              *)
ValidEnd ==
    /\ pc = "valid" /\ ~More
    /\ valid' = [valid EXCEPT ![tracenum] = TRUE]
    /\ pc' = "start util"
    /\ UNCHANGED <<tracenum, trace, i, blocks, block_sizes, ranges, heap,
                   total_size, max_total_size, runs, errors, message>>

-------------------------------------------------------------------------------
(* eval_mm_util *)

(* Mutant of ResetForPass: the heap is not emptied.                        *)
ResetForPassNot(next, msg) ==
    /\ heap' = mm_init(heap)
    /\ i' = 0
    /\ \/ TRUE \in InitFails /\ app_error(msg)
       \/ pc' = next /\ UNCHANGED <<tracenum, valid, errors, message>>

(* Both later passes start on an empty heap.                               *)
ResetForPass(next, msg) ==
    /\ heap' = mm_init(mem_reset_brk(heap))
    /\ i' = 0
    /\ \/ TRUE \in InitFails /\ app_error(msg)
       \/ pc' = next /\ UNCHANGED <<tracenum, valid, errors, message>>

StartUtil ==
    /\ pc = "start util"
    /\ ResetForPass("util", "mm_init failed in eval_mm_util")
    /\ total_size' = 0 /\ max_total_size' = 0 /\ runs' = 0
    /\ UNCHANGED <<trace, blocks, block_sizes, ranges>>

Total(n) ==
    /\ total_size' = n
    /\ max_total_size' = IF n > max_total_size THEN n ELSE max_total_size

UtilAlloc ==
    /\ pc = "util" /\ More /\ op.type = "ALLOC"
    /\ \E r \in MallocResults(heap, op.size) :
          /\ heap' = r.heap
          /\ \/ /\ r.p = NULL
                /\ app_error("mm_malloc failed in eval_mm_util")
                /\ UNCHANGED <<i, blocks, block_sizes, total_size, max_total_size>>
             \/ /\ r.p # NULL
                /\ Goes(r.p)
                /\ Total(total_size + op.size)
    /\ UNCHANGED <<trace, ranges, runs>>

(* Mutant of Growth: the old size is not subtracted.                       *)
GrowthGross == op.size

Growth == op.size - block_sizes[op.index]

UtilRealloc ==
    /\ pc = "util" /\ More /\ op.type = "REALLOC"
    /\ \E r \in ReallocResults(heap, blocks[op.index], op.size) :
          /\ heap' = r.heap
          /\ \/ /\ r.p = NULL
                /\ app_error("mm_realloc failed in eval_mm_util")
                /\ UNCHANGED <<i, blocks, block_sizes, total_size, max_total_size>>
             \/ /\ r.p # NULL
                /\ Goes(r.p)
                /\ Total(total_size + Growth)
    /\ UNCHANGED <<trace, ranges, runs>>

UtilFree ==
    /\ pc = "util" /\ More /\ op.type = "FREE"
    /\ heap' = mm_free(heap, blocks[op.index])
    /\ NextOp
    /\ total_size' = total_size - block_sizes[op.index]
    /\ UNCHANGED <<pc, tracenum, trace, blocks, block_sizes, ranges,
                   max_total_size, runs, valid, errors, message>>

(* The quotient max_total_size / mem_heapsize is the utilisation.          *)
UtilEnd ==
    /\ pc = "util" /\ ~More
    /\ pc' = "start speed"
    /\ UNCHANGED <<tracenum, trace, i, blocks, block_sizes, ranges, heap,
                   total_size, max_total_size, runs, valid, errors, message>>

-------------------------------------------------------------------------------
(* eval_mm_speed, run over and over by ftimer_gettod *)

StartSpeed ==
    /\ pc = "start speed"
    /\ ResetForPass("speed", "mm_init failed in eval_mm_speed")
    /\ UNCHANGED <<trace, blocks, block_sizes, ranges, total_size, max_total_size, runs>>

SpeedCall(type, results, msg) ==
    /\ pc = "speed" /\ More /\ op.type = type
    /\ \E r \in results :
          /\ heap' = r.heap
          /\ \/ r.p = NULL /\ app_error(msg) /\ UNCHANGED <<i, blocks>>
             \/ /\ r.p # NULL
                /\ blocks' = [blocks EXCEPT ![op.index] = r.p]
                /\ NextOp
                /\ UNCHANGED <<pc, tracenum, valid, errors, message>>
    /\ UNCHANGED <<trace, block_sizes, ranges, total_size, max_total_size, runs>>

SpeedAlloc ==
    SpeedCall("ALLOC", MallocResults(heap, op.size), "mm_malloc error in eval_mm_speed")

SpeedRealloc ==
    SpeedCall("REALLOC", ReallocResults(heap, blocks[op.index], op.size),
              "mm_realloc error in eval_mm_speed")

SpeedFree ==
    /\ pc = "speed" /\ More /\ op.type = "FREE"
    /\ heap' = mm_free(heap, blocks[op.index])
    /\ NextOp
    /\ UNCHANGED <<pc, tracenum, trace, blocks, block_sizes, ranges, total_size,
                   max_total_size, runs, valid, errors, message>>

SpeedEnd ==
    /\ pc = "speed" /\ ~More
    /\ runs' = runs + 1
    /\ IF runs' < setup.repeats THEN pc' = "start speed" /\ UNCHANGED tracenum
       ELSE NextTrace
    /\ UNCHANGED <<trace, i, blocks, block_sizes, ranges, heap, total_size,
                   max_total_size, valid, errors, message>>

(* The process has exited.                                                 *)
Exited == pc \in {"done", "exit"} /\ UNCHANGED vars

Next ==
    /\ \/ ReadTrace \/ Finish \/ Exited
       \/ StartValid \/ ValidAlloc \/ ValidRealloc \/ ValidFree \/ ValidEnd
       \/ StartUtil \/ UtilAlloc \/ UtilRealloc \/ UtilFree \/ UtilEnd
       \/ StartSpeed \/ SpeedAlloc \/ SpeedRealloc \/ SpeedFree \/ SpeedEnd
    /\ UNCHANGED setup

Spec == Init /\ [][Next]_vars

-------------------------------------------------------------------------------
(* mdriver.c:362-366: while a trace is checked the range list is "the      *)
(* extent of every allocated block payload", one record per block the      *)
(* trace holds, whatever addresses the package under test returns.         *)
RangesTrackBlocks ==
    pc = "valid" =>
        /\ Len(ranges) = Cardinality(Held)
        /\ ToSet(ranges) = {[lo |-> blocks[x], hi |-> Hi(blocks[x], block_sizes[x])] :
                               x \in Held}

(* What the checks of add_range (mdriver.c:384-410) guarantee of the       *)
(* payloads of a package not yet rejected: each is aligned and in the      *)
(* heap, and two of them overlap only if the one accepted later sticks     *)
(* out of the earlier one on both sides.                                   *)
OverlapOnlyByContainment ==
    pc = "valid" =>
        /\ \A k \in DOMAIN ranges :
              /\ IS_ALIGNED(ranges[k].lo)
              /\ mem_heap_lo <= ranges[k].lo /\ ranges[k].hi <= mem_heap_hi(heap)
        /\ \A k, l \in DOMAIN ranges :
              /\ k < l
              /\ ranges[k].lo <= ranges[l].hi /\ ranges[l].lo <= ranges[k].hi
              => ranges[k].lo < ranges[l].lo /\ ranges[l].hi < ranges[k].hi

(* "The payload must not overlap any other payloads" (mdriver.c:401): the  *)
(* blocks of a package not yet rejected share no byte.                     *)
AcceptedDisjoint ==
    pc = "valid" =>
        \A x, y \in Held : x # y =>
            \/ Hi(blocks[x], block_sizes[x]) < blocks[y]
            \/ Hi(blocks[y], block_sizes[y]) < blocks[x]

(* mdriver.c:299-307: with mm.c, a trace eval_mm_valid accepts runs to its *)
(* end in eval_mm_util and in every run of eval_mm_speed: the driver never *)
(* leaves through app_error, although the heap still holds the bytes of    *)
(* the passes before.                                                      *)
LaterPassesAgree == ~Arbitrary => pc # "exit"

(* mdriver.c:571-679: eval_mm_valid has only two things to hold against    *)
(* mm.c: that the heap is too small for the trace, and, of a reallocation  *)
(* of a block whose index has a low byte of 128 or more, that it did not   *)
(* preserve the data, which it did: the char read back is negative.        *)
RejectedLast == pc = "read" /\ tracenum > 1 /\ ~valid[tracenum - 1]
OnlyOutOfMemory ==
    ~Arbitrary /\ RejectedLast =>
        \/ message \in {"mm_malloc failed.", "mm_realloc failed."}
        \/ /\ message = "did not preserve"
           /\ op.type = "REALLOC" /\ LowByte(op.index) >= 128

LastSize(n, x) ==
    LET k == CHOOSE k \in 1..n :
                /\ trace[k].index = x
                /\ \A l \in (k + 1)..n : trace[l].index # x
    IN  trace[k].size

(* The bytes of the blocks in S, and how many a trace asks for.            *)
Payloads(S, sizes) == UNION {{x} \X (1..sizes[x]) : x \in S}
Demand(n) == Cardinality(Payloads(HeldAfter(trace, n),
                                  [x \in Indices |-> LastSize(n, x)]))

(* mdriver.c:682-687: max_total_size is the high water mark of an optimal  *)
(* allocator, the most bytes the trace holds at any one time.              *)
HwmIsPeakDemand ==
    pc = "start speed" =>
        max_total_size = Max({Demand(n) : n \in 0..Len(trace)})
===============================================================================
