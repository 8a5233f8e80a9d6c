------------------------------ MODULE GradeLib ------------------------------
(***************************************************************************)
(* clab/gradelib.py, as clab/grade-lab uses it.  Part p of the lab is one  *)
(* program; the test <<p, 0>> runs it, and its matchtests <<p, 1>>,        *)
(* <<p, 2>>, ... look for their line in what it printed.  A grading is one *)
(* run of grade-lab: it builds, runs the tests the command line chooses,   *)
(* each pulling in its parent, adds up TOTAL and POSSIBLE and leaves a log *)
(* file for every matchtest that failed.  The logs outlive the grading.    *)
(* Ctrl-C can strike between any two steps.                                *)
(***************************************************************************)
EXTENDS Integers, Sequences, FiniteSets

CONSTANTS
    NumParts,       \* programs in the lab (6 in grade-lab)
    NumMatches,     \* matchtests of a program (2 to 5 in grade-lab)
    Points,         \* points of a matchtest (5 in grade-lab)
    MaxGradings     \* bound: gradings in a behaviour

ASSUME GradeAssumption ==
    {NumParts, NumMatches, Points, MaxGradings} \subseteq Nat \ {0}

Part    == 1..NumParts
Test    == Part \X (0..NumMatches)
Matches == Part \X (1..NumMatches)
None    == <<0, 0>>

VARIABLES
    phase,      \* where the grading is, or how it ended
    proc,       \* the globals and the call stack of the Python process
    status,     \* its exit status
    logs,       \* the .out files in the directory
    verdict,    \* history: the last result of each matchtest
    gradings    \* gradings so far

vars == <<phase, proc, status, logs, verdict, gradings>>

Over == {"done", "no build", "interrupted"}

\* The tests in the order of grade-lab: a part's program, then its matchtests.
TESTSProgramsFirst ==
    [n \in 1..Cardinality(Test) |->
        <<((n - 1) % NumParts) + 1, (n - 1) \div NumParts>>]
TESTS ==
    LET size == NumMatches + 1
    IN  [n \in 1..Cardinality(Test) |-> <<((n - 1) \div size) + 1, (n - 1) % size>>]

parent(t) == IF t[2] = 0 THEN None ELSE <<t[1], 0>>
points(t) == IF t[2] = 0 THEN 0 ELSE Points

\* The globals of a fresh process; executed and shown are history.
Fresh(chosen) ==
    [chosen |-> chosen, next |-> 1, stack |-> <<>>, complete |-> {},
     CURRENT_TEST |-> None, TOTAL |-> 0, POSSIBLE |-> 0,
     proc_output |-> [part |-> 0, lines |-> {}], on_finish |-> {}, fail |-> FALSE,
     executed |-> [p \in Part |-> 0], shown |-> {}]

Init ==
    /\ phase = "shell" /\ proc = Fresh({}) /\ status = 0 /\ logs = {}
    /\ verdict = [t \in Matches |-> "none"] /\ gradings = 0

----------------------------------------------------------------------------
(***************************************************************************)
(* run_tests: the command line, the build, the loop and the exit status.   *)
(***************************************************************************)
\* limit is the set of filters given, as the tests whose title holds one.
should_run(t, filtered, limit, limit_inverse) ==
    \/ ~filtered
    \/ limit_inverse /\ t \notin limit
    \/ ~limit_inverse /\ t \in limit

StartGrading ==
    /\ phase \in Over \union {"shell"} /\ gradings < MaxGradings
    /\ \E filtered, inverse \in BOOLEAN, limit \in SUBSET Test :
           proc' = Fresh({t \in Test : should_run(t, filtered, limit, inverse)})
    /\ phase' = "make" /\ gradings' = gradings + 1
    /\ UNCHANGED <<status, logs, verdict>>

\* Nothing catches a Ctrl-C that comes during the build.
make ==
    /\ phase = "make"
    /\ \/ phase' = "tests" /\ UNCHANGED status
       \/ phase' \in {"no build", "interrupted"} /\ status' = 1
    /\ UNCHANGED <<proc, logs, verdict, gradings>>

Frame(t) == [test |-> t, step |-> "enter"]

NextTest ==
    /\ phase = "tests" /\ proc.stack = <<>> /\ proc.next <= Len(TESTS)
    /\ LET t == TESTS[proc.next]
       IN  proc' = [proc EXCEPT !.next = @ + 1,
                                !.stack = IF t \in proc.chosen THEN <<Frame(t)>> ELSE <<>>]
    /\ UNCHANGED <<phase, status, logs, verdict, gradings>>

ExitStatusLax == IF proc.TOTAL = 0 THEN 1 ELSE 0
ExitStatus == IF proc.TOTAL < proc.POSSIBLE THEN 1 ELSE 0

Exit ==
    /\ phase = "tests" /\ proc.stack = <<>> /\ proc.next > Len(TESTS)
    /\ phase' = "done" /\ status' = ExitStatus
    /\ UNCHANGED <<proc, logs, verdict, gradings>>

----------------------------------------------------------------------------
(***************************************************************************)
(* run_test: the call on top of the stack.                                 *)
(***************************************************************************)
Top == proc.stack[Len(proc.stack)]
At(step) == phase = "tests" /\ proc.stack # <<>> /\ Top.step = step
Goto(stack, step) == [stack EXCEPT ![Len(stack)].step = step]
Return(stack) == SubSeq(stack, 1, Len(stack) - 1)
Keep == UNCHANGED <<phase, status, logs, verdict, gradings>>

\* The flag is set before the parent runs, the rest of the call comes after it.
CallParent(t, stack) ==
    LET waiting == Goto(stack, "begin")
    IN  IF parent(t) = None THEN waiting ELSE Append(waiting, Frame(parent(t)))

EnterAgain ==
    /\ At("enter")
    /\ proc' = [proc EXCEPT !.complete = @ \union {Top.test},
                            !.stack = CallParent(Top.test, @)]
    /\ Keep
Enter ==
    /\ At("enter")
    /\ proc' = IF Top.test \in proc.complete
               THEN [proc EXCEPT !.stack = Return(@)]
               ELSE [proc EXCEPT !.complete = @ \union {Top.test},
                                 !.stack = CallParent(Top.test, @)]
    /\ Keep

Begin ==
    /\ At("begin")
    /\ proc' = [proc EXCEPT !.CURRENT_TEST = Top.test, !.fail = FALSE,
                            !.stack = Goto(@, "fn")]
    /\ Keep

\* Runner.run_test: the program prints some of its lines (a crash cuts them
\* short), or it runs forever, and communicate() waits for it.
RunProgram ==
    /\ At("fn") /\ parent(Top.test) = None
    /\ LET p == Top.test[1]
       IN  \/ \E lines \in SUBSET (1..NumMatches) :
                  proc' = [proc EXCEPT !.proc_output = [part |-> p, lines |-> lines],
                                       !.executed[p] = @ + 1,
                                       !.stack = Goto(@, "count")]
           \/ proc' = [proc EXCEPT !.stack = Goto(@, "hung")]
    /\ Keep

\* A line of another part's program matches no regexp of this one.
assert_lines_match(output, t) == output.part = t[1] /\ t[2] \in output.lines

\* Runner.match: the callback first, then the assertion.
match ==
    /\ At("fn") /\ parent(Top.test) # None
    /\ proc' = [proc EXCEPT !.on_finish = @ \union {proc.CURRENT_TEST},
                            !.fail = ~assert_lines_match(proc.proc_output, Top.test),
                            !.stack = Goto(@, "count")]
    /\ Keep

\* POSSIBLE grows before the result is shown, TOTAL after it.
Count ==
    /\ At("count")
    /\ proc' = [proc EXCEPT !.POSSIBLE = @ + points(Top.test),
                            !.stack = Goto(@, "show")]
    /\ Keep

AwardAlways(t) == points(t)
Award(t) == IF proc.fail THEN 0 ELSE points(t)

Show ==
    /\ At("show")
    /\ proc' = [proc EXCEPT !.shown = @ \union {Top.test},
                            !.TOTAL = @ + Award(Top.test),
                            !.stack = Goto(@, "finish")]
    /\ verdict' = [t \in Matches |-> IF t # Top.test THEN verdict[t]
                                     ELSE IF proc.fail THEN "fail" ELSE "ok"]
    /\ UNCHANGED <<phase, status, logs, gradings>>

\* The callback of match writes the log of a failed test, and removes the one
\* an earlier grading left when the test passes.
save_on_finishKeeps(t) == IF proc.fail THEN logs \union {t} ELSE logs
save_on_finish(t) == IF proc.fail THEN logs \union {t} ELSE logs \ {t}

Finish ==
    /\ At("finish")
    /\ logs' = IF Top.test \in proc.on_finish THEN save_on_finish(Top.test) ELSE logs
    /\ proc' = [proc EXCEPT !.CURRENT_TEST = None, !.stack = Return(@)]
    /\ UNCHANGED <<phase, status, verdict, gradings>>

\* KeyboardInterrupt leaves the loop; a result that was shown may miss its log.
Interrupt ==
    /\ phase = "tests"
    /\ phase' = "interrupted" /\ status' = ExitStatus
    /\ verdict' = [t \in Matches |->
                      IF At("finish") /\ Top.test = t THEN "cut" ELSE verdict[t]]
    /\ UNCHANGED <<proc, logs, gradings>>

run_test == Enter \/ Begin \/ RunProgram \/ match \/ Count \/ Show \/ Finish
Step == make \/ NextTest \/ run_test \/ Exit
Next == StartGrading \/ Step \/ Interrupt

Spec == Init /\ [][Next]_vars

----------------------------------------------------------------------------
\* A matchtest is judged by what its own part's program printed in this
\* grading, and its callback is registered for itself: when match runs, the
\* program has run although the filter may not have chosen it, no other
\* program has run since, and CURRENT_TEST survived the parent's call.
OwnOutput ==
    At("fn") /\ parent(Top.test) # None =>
        /\ proc.proc_output.part = Top.test[1]
        /\ proc.CURRENT_TEST = Top.test

\* Whatever is chosen, a grading runs a program at most once, so that the
\* matchtests of a part are judged by one and the same execution; and a
\* grading nobody interrupts has run every chosen test, the programs of the
\* chosen matchtests, and nothing else.
OneExecution ==
    /\ \A p \in Part : proc.executed[p] <= 1
    /\ phase = "done" =>
           proc.shown = proc.chosen
                        \union {parent(t) : t \in proc.chosen \intersect Matches}

\* Between tests POSSIBLE counts the matchtests that were graded and TOTAL
\* those that passed, in whatever order parents and filters made them run.
ScoreExact ==
    phase \in {"tests", "done"} /\ proc.stack = <<>> =>
        LET graded == proc.shown \intersect Matches
        IN  /\ proc.POSSIBLE = Points * Cardinality(graded)
            /\ proc.TOTAL = Points * Cardinality({t \in graded : verdict[t] = "ok"})

\* Exit status 0 means that no test whose result was shown failed, even when
\* Ctrl-C ended the grading in the middle of a test (POSSIBLE grows first);
\* and without Ctrl-C, status 1 means that a shown test failed.
ExitHonest ==
    LET failed == {t \in proc.shown \intersect Matches : verdict[t] = "fail"}
    IN  /\ phase \in {"done", "interrupted"} /\ status = 0 => failed = {}
        /\ phase = "done" /\ status = 1 => failed # {}

\* Over any sequence of gradings, with any filters and any Ctrl-C, a log file
\* is there exactly for the matchtests whose last result was a failure: a log
\* an earlier grading left never outlives a later success.  Excepted are the
\* test in its callbacks and one that Ctrl-C cut between result and callback.
LogsTruthful ==
    \A t \in Matches :
        \/ verdict[t] = "cut"
        \/ At("finish") /\ Top.test = t
        \/ t \in logs <=> verdict[t] = "fail"

=============================================================================
