------------------------------- MODULE MCHTable -------------------------------
(* Values of the constants of HTable for the runs that check it alone.     *)
EXTENDS HTableMap, HTableInv

(* Four keys in a table of two slots, then five, then eleven: chains that  *)
(* split, chains that stay together, and two keys with one hash.           *)
SplitHash == [k \in Keys |-> CASE k = "a" -> 0 [] k = "b" -> 10
                                [] k = "c" -> 5 [] k = "d" -> 10]
(* All keys in one slot of a table of two, but the last.                   *)
SlotHash == [k \in Keys |-> IF k = "z" THEN 1 ELSE IF k = "a" THEN 0 ELSE 2]
=============================================================================
