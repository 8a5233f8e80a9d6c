------------------------------ MODULE MCTestHash ------------------------------
(* Values of the constants of TestHash: numbered keys, with hashes that    *)
(* put two of them in one slot of a table of two slots or of five.         *)
EXTENDS TestHash

ASSUME TestAssumption

TestThreads == 0..MaxThreads
TestKeys == 0..(TESTSZ - 1)
TestHashes == [k \in TestKeys |-> 10 * k]
=============================================================================
