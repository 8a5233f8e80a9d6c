------------------------------ MODULE Allocator -------------------------------
(***************************************************************************)
(* What a malloc package promises its client.  Every allocated block is an *)
(* array of its own: nothing the client does to another block, and no call *)
(* for another block, changes its contents.  A request may fail, and then  *)
(* it has no effect at all (a stuttering step here).  malloclab/mm.c is    *)
(* shown to implement this in MMClient.                                    *)
(***************************************************************************)
EXTENDS Integers, Sequences

CONSTANTS
    Ids,     \* the names the client gives its blocks
    Cells,   \* what a byte of memory can hold
    Sizes,   \* the sizes the client asks for
    FREE     \* marks a name without a block

VARIABLE block   \* [Ids -> a block's contents, or FREE]

Init == block = [id \in Ids |-> FREE]

(* Only this block changes, to one of n bytes.                             *)
Becomes(id, n) ==
    /\ block'[id] \in [1..n -> Cells]
    /\ block' = [block EXCEPT ![id] = block'[id]]

(* A new block has the requested size; its contents are unspecified.       *)
Malloc(id, n) ==
    /\ block[id] = FREE
    /\ Becomes(id, n)

(* The contents are kept up to the lesser of the two sizes.                *)
Realloc(id, n) ==
    /\ block[id] # FREE
    /\ Becomes(id, n)
    /\ \A k \in 1..n : k <= Len(block[id]) => block'[id][k] = block[id][k]

Free(id) ==
    /\ block[id] # FREE
    /\ block' = [block EXCEPT ![id] = FREE]

Write(id) ==
    /\ block[id] # FREE
    /\ Becomes(id, Len(block[id]))

(* The client starts over: all its blocks are gone.                        *)
Reset == block' = [id \in Ids |-> FREE]

Next ==
    \/ Reset
    \/ \E id \in Ids : \/ Free(id) \/ Write(id)
                       \/ \E n \in Sizes : Malloc(id, n) \/ Realloc(id, n)

Spec == Init /\ [][Next]_block
===============================================================================
