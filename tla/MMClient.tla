------------------------------- MODULE MMClient -------------------------------
(***************************************************************************)
(* A client of mm.c: it holds up to one block per name, writes to the      *)
(* bytes of its blocks and to no others, and may start over on an empty    *)
(* heap, as mdriver.c does for every pass over a trace.                    *)
(***************************************************************************)
EXTENDS MM, Sequences

CONSTANTS Ids, Bytes, Sizes, FREE

ASSUME ClientAssumption ==
    /\ Sizes \subseteq 1..INT_MAX
    /\ Bytes \subseteq Int
    /\ FREE \notin Int
    /\ \A n \in Sizes \cup {0} : FREE \notin [1..n -> Bytes \cup {JUNK} \cup Sizes]

VARIABLES
    heap,   \* the heap of memlib.c
    ptr,    \* per name: the address of its block, or FREE
    size    \* per name: the size last asked for
vars == <<heap, ptr, size>>

Live == {id \in Ids : ptr[id] # FREE}

Init ==
    /\ heap = mm_init(mem_init)
    /\ ptr  = [id \in Ids |-> FREE]
    /\ size = [id \in Ids |-> 0]

Take(id, r, n) ==
    /\ heap' = r.heap
    /\ ptr'  = [ptr EXCEPT ![id] = r.p]
    /\ size' = [size EXCEPT ![id] = n]

Malloc(id, n) ==
    /\ id \notin Live
    /\ LET r == mm_malloc(heap, n)
       IN  IF r.p = NULL THEN UNCHANGED vars ELSE Take(id, r, n)

Realloc(id, n) ==
    /\ id \in Live
    /\ LET r == mm_realloc(heap, ptr[id], n)
       IN  IF r.p = NULL THEN UNCHANGED vars ELSE Take(id, r, n)

Free(id) ==
    /\ id \in Live
    /\ heap' = mm_free(heap, ptr[id])
    /\ ptr'  = [ptr EXCEPT ![id] = FREE]
    /\ UNCHANGED size

Write(id) ==
    /\ id \in Live
    /\ \E k \in 0..(size[id] - 1), b \in Bytes :
          heap' = [heap EXCEPT !.mem[ptr[id] + k] = b]
    /\ UNCHANGED <<ptr, size>>

Reset ==
    /\ heap' = mm_init(mem_reset_brk(heap))
    /\ ptr'  = [id \in Ids |-> FREE]
    /\ UNCHANGED size

Next ==
    \/ Reset
    \/ \E id \in Ids : \/ Free(id) \/ Write(id)
                       \/ \E n \in Sizes : Malloc(id, n) \/ Realloc(id, n)

Spec == Init /\ [][Next]_vars

-------------------------------------------------------------------------------
Cells == Bytes \cup {JUNK} \cup Sizes

(* mem_brk stays between the ends of the heap (memlib.c:18-20), and every  *)
(* block starts at an address of the heap.                                 *)
TypeOK ==
    /\ heap \in [brk : 0..MAX_HEAP, mem : [Addr -> Cells]]
    /\ ptr \in [Ids -> Addr \cup {FREE}]
    /\ size \in [Ids -> Sizes \cup {0}]

(* The bytes of a block, and the cell mm_malloc keeps its size in.         *)
Payload(id) == ptr[id]..(ptr[id] + size[id] - 1)
Header(id)  == ptr[id] - SIZE_T_SIZE

(* A block lies in the heap, behind its header.                            *)
InHeap(id) ==
    /\ SIZE_T_SIZE <= ptr[id]
    /\ ptr[id] + size[id] <= heap.brk

(* mm.c:47-60, mm.h:11-12: every block handed out is aligned, lies between *)
(* mem_heap_lo and mem_heap_hi in all its bytes whatever size was asked    *)
(* for (the int newsize may have become negative), and shares no byte with *)
(* another block or another block's header.                                *)
BlocksApart ==
    /\ \A id \in Live : IS_ALIGNED(ptr[id]) /\ InHeap(id)
    /\ \A i, j \in Live : i # j =>
          (Payload(i) \cup {Header(i)}) \cap (Payload(j) \cup {Header(j)}) = {}

(* mm.c:81: the size mm_realloc reads in front of a block is the size the  *)
(* block was asked for, however much has been written and moved since.     *)
HeaderIntact == \A id \in Live : heap.mem[Header(id)] = size[id]

(* All of this at every moment of mm.c and memlib.c, and mem_brk aligned,  *)
(* so that the next block will be: the invariant that is inductive.        *)
HeapInv == TypeOK /\ BlocksApart /\ HeaderIntact /\ IS_ALIGNED(heap.brk)

-------------------------------------------------------------------------------
Contents == [id \in Ids |->
               IF ptr[id] = FREE THEN FREE
               ELSE [k \in 1..size[id] |-> heap.mem[ptr[id] + k - 1]]]

Abstract == INSTANCE Allocator WITH block <- Contents

(* mm.c implements the promises of Allocator: blocks are independent, a    *)
(* failed call (partial failure of mm_realloc: mm.c:78-80) changes         *)
(* nothing, and mm_realloc keeps the contents up to the lesser size.       *)
IsAnAllocator == Abstract!Spec
===============================================================================
