---------------------------- MODULE HTableOverlap ----------------------------
(***************************************************************************)
(* HTable with a history variable: whether a resize has met another call.  *)
(* The calls of htable.c take no lock, and what a resize may do to a call  *)
(* that it meets is without limit (the slot of htable.c:146 is that of     *)
(* another size, the array it is used with is freed, two resizes tie a     *)
(* ring).  What is left is the table of threads that race while nobody     *)
(* resizes it, and are never in a call when somebody does.                 *)
(***************************************************************************)
EXTENDS HTableInv

VARIABLE overlapped

Overlap == \E t, u \in Threads : t # u /\ pc[t] \in ResizePcs /\ pc[u] # "idle"

OInit == Init /\ overlapped = FALSE
ONext == Next /\ overlapped' = (overlapped \/ Overlap')
OSpec == OInit /\ [][ONext]_<<vars, overlapped>>

(* As long as no call has overlapped a resize, every access is valid, every*)
(* key is in the slot where htable_lookup searches for it, and no list is  *)
(* a ring: the entries that racing inserts lose, and the nodes they leave  *)
(* unlinked, do no harm to the resizes that follow.                        *)
ResizeAloneIsSafe == ~overlapped => ~fault /\ WellPlaced /\ Acyclic
=============================================================================
