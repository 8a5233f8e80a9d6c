------------------------------ MODULE MCMDriver ------------------------------
(* Values of the constants of MDriver: mm.c on pairs of traces, every      *)
(* timed pass run twice; any package on one trace, with all answers that   *)
(* lie in, touch or stick out of a heap of five bytes.                     *)
EXTENDS MDriver

TestSetups ==
    {[package |-> "mm.c", num_tracefiles |-> 2, repeats |-> 2],
     [package |-> "any", num_tracefiles |-> 1, repeats |-> 1]}
AnySetups == {s \in TestSetups : s.package = "any"}
TestAnswers == -1..5
TestBreaks == {0, 3, 5}
===============================================================================
