--------------------------- MODULE MCHTableOverlap ---------------------------
(* Two keys that share a slot of a table of two and part in one of five.   *)
EXTENDS HTableOverlap

PartHash == [k \in Keys |-> IF k = "a" THEN 0 ELSE 12]
=============================================================================
