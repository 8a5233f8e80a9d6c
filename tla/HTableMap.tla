------------------------------ MODULE HTableMap ------------------------------
(***************************************************************************)
(* The refinement mapping from htable.c to the map of KVMap.  An insert    *)
(* takes effect when it finds the key or writes the link; a resize that    *)
(* follows is no change of the map.                                        *)
(***************************************************************************)
EXTENDS HTable

Resolved(t) == pc[t] \in {"ret"} \cup ResizePcs

Map == INSTANCE KVMap WITH
    kv     <- Stored,
    status <- [t \in Threads |-> IF pc[t] = "idle" THEN "idle"
                                 ELSE IF Resolved(t) THEN "done" ELSE "called"],
    req    <- [t \in Threads |-> IF pc[t] = "idle" THEN NULL ELSE arg[t]],
    res    <- [t \in Threads |-> IF Resolved(t) THEN loc[t].ret ELSE NULL]

(* One thread alone gets from htable_insert and htable_lookup exactly what *)
(* a map would give it, through any number of resizes.                     *)
IsAMap == Map!Spec
=============================================================================
