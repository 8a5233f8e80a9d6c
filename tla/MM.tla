---------------------------------- MODULE MM ----------------------------------
(***************************************************************************)
(* malloclab/memlib.c and malloclab/mm.c: the simulated heap and the       *)
(* student malloc package, as functions of a heap                          *)
(*     [brk |-> mem_brk - mem_start_brk,  mem |-> the bytes of the heap].  *)
(* Addresses are offsets from mem_start_brk, which libc's malloc returns   *)
(* aligned to ALIGNMENT bytes.  The size_t header of a block is one cell.  *)
(*                                                                         *)
(* A call returns [p |-> address or NULL, heap |-> the heap it leaves].    *)
(***************************************************************************)
EXTENDS Integers

CONSTANTS
    ALIGNMENT,
    SIZEOF_SIZE_T,   \* sizeof(size_t)
    MAX_HEAP,
    SizeMod,         \* 2 ^ the bits of a size_t
    IntMod,          \* 2 ^ the bits of an int
    JUNK,            \* what memory holds that nobody has written
    NULL

ASSUME HeapAssumption ==
    /\ ALIGNMENT \in Nat \ {0} /\ SIZEOF_SIZE_T \in Nat \ {0}
    /\ MAX_HEAP \in Nat
    /\ IntMod \in Nat /\ SizeMod \in Nat
    /\ IntMod % 2 = 0 /\ IntMod > 2 * MAX_HEAP
    /\ SizeMod >= IntMod
    /\ SIZEOF_SIZE_T + 2 * ALIGNMENT <= IntMod \div 2
    /\ NULL \notin Int

Addr    == 0..(MAX_HEAP - 1)
INT_MAX == IntMod \div 2 - 1

(* The conversion of a size_t to the int newsize.                          *)
ToInt(n) == IF n % IntMod > INT_MAX THEN (n % IntMod) - IntMod ELSE n % IntMod

(* & ~(ALIGNMENT - 1) clears the low bits, ALIGNMENT being a power of two. *)
ALIGN(n) == ALIGNMENT * (((n + (ALIGNMENT - 1)) % SizeMod) \div ALIGNMENT)
IS_ALIGNED(p) == p % ALIGNMENT = 0
SIZE_T_SIZE == ALIGN(SIZEOF_SIZE_T)

-------------------------------------------------------------------------------
(* memlib.c *)

mem_init     == [brk |-> 0, mem |-> [a \in Addr |-> JUNK]]
(* The bytes stay as they are.                                             *)
mem_reset_brk(h) == [h EXCEPT !.brk = 0]

mem_heap_lo     == 0
mem_heap_hi(h)  == h.brk - 1
mem_heapsize(h) == h.brk

(* Mutant of CannotExtend: negative increments are let through.            *)
CannotExtendSigned(h, incr) == h.brk + incr > MAX_HEAP

CannotExtend(h, incr) == incr < 0 \/ h.brk + incr > MAX_HEAP
mem_sbrk(h, incr) ==
    IF CannotExtend(h, incr) THEN [p |-> NULL, heap |-> h]
    ELSE [p |-> h.brk, heap |-> [h EXCEPT !.brk = @ + incr]]

-------------------------------------------------------------------------------
(* mm.c *)

mm_init(h) == h

newsize(size) == ToInt(ALIGN((size + SIZE_T_SIZE) % SizeMod))

mm_malloc(h, size) ==
    LET s == mem_sbrk(h, newsize(size))
    IN  IF s.p = NULL THEN s
        ELSE [p    |-> s.p + SIZE_T_SIZE,
              heap |-> [s.heap EXCEPT !.mem[s.p] = size]]

mm_free(h, ptr) == h

(* Mutant of memcpy: the last byte is not copied.                          *)
memcpyShort(mem, dst, src, n) ==
    [a \in DOMAIN mem |->
        IF a \in dst..(dst + n - 2) THEN mem[src + (a - dst)] ELSE mem[a]]

memcpy(mem, dst, src, n) ==
    [a \in DOMAIN mem |->
        IF a \in dst..(dst + n - 1) THEN mem[src + (a - dst)] ELSE mem[a]]

copySize(h, ptr, size) ==
    LET old == h.mem[ptr - SIZE_T_SIZE] IN IF size < old THEN size ELSE old

mm_realloc(h, oldptr, size) ==
    LET new == mm_malloc(h, size)
        n   == copySize(new.heap, oldptr, size)
    IN  IF new.p = NULL THEN new
        ELSE [p    |-> new.p,
              heap |-> mm_free([new.heap EXCEPT
                                  !.mem = memcpy(@, new.p, oldptr, n)], oldptr)]
===============================================================================
