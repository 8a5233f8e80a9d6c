---------------------------- MODULE GradeLibProofs ----------------------------
(***************************************************************************)
(* Proofs about GradeLib: any number of programs, matchtests and gradings, *)
(* any filters, and a Ctrl-C between any two steps.                        *)
(***************************************************************************)
EXTENDS GradeLib, FiniteSetTheorems, SequenceTheorems, TLAPS

CallSteps == {"enter", "begin", "fn", "hung", "count", "show", "finish"}
Frames == [test : Test, step : CallSteps]

Process ==
    [chosen : SUBSET Test, next : 1..(Cardinality(Test) + 1), stack : Seq(Frames),
     complete : SUBSET Test, CURRENT_TEST : Test \union {None},
     TOTAL : Nat, POSSIBLE : Nat,
     proc_output : [part : 0..NumParts, lines : SUBSET (1..NumMatches)],
     on_finish : SUBSET Test, fail : BOOLEAN,
     executed : [Part -> Nat], shown : SUBSET Test]

(* The variables hold values of their Python types.                        *)
TypeOK ==
    /\ phase \in Over \union {"shell", "make", "tests"}
    /\ proc \in Process
    /\ status \in {0, 1} /\ logs \subseteq Test
    /\ verdict \in [Matches -> {"none", "ok", "fail", "cut"}]
    /\ gradings \in 0..MaxGradings

(* Test t has a frame on the stack that is at one of the steps.            *)
On(t, steps) ==
    \E i \in 1..Len(proc.stack) :
        proc.stack[i].test = t /\ proc.stack[i].step \in steps

Current == TESTS[proc.next - 1]
CurrentPart == IF proc.next = 1 THEN 0 ELSE Current[1]

(* The stack is empty outside the loop of run_tests.  In it, it holds the  *)
(* test the loop is at, and while that one waits, its parent.              *)
StackOK ==
    /\ phase \notin {"tests", "interrupted"} => proc.stack = <<>>
    /\ phase = "done" => proc.next = Cardinality(Test) + 1
    /\ Len(proc.stack) <= 2
    /\ proc.stack # <<>> =>
         /\ proc.next > 1
         /\ proc.stack[1].test = Current /\ Current \in proc.chosen
    /\ Len(proc.stack) = 2 =>
         /\ proc.stack[1].step = "begin" /\ Current \in Matches
         /\ proc.stack[2].test = parent(Current)

(* The flag complete is set at the entry of a call, the parent's before    *)
(* the call itself begins, and for no test that nobody asked for.          *)
CompleteOK ==
    /\ \A i \in 1..Len(proc.stack) :
         proc.stack[i].step # "enter" => proc.stack[i].test \in proc.complete
    /\ \A t \in proc.complete \intersect Matches :
         parent(t) \in proc.complete \/ (On(t, {"begin"}) /\ On(parent(t), {"enter"}))
    /\ \A t \in proc.complete :
         t \in proc.chosen \/ \E c \in proc.chosen \intersect Matches : t = parent(c)
    /\ \A n \in 1..(proc.next - 1) :
         TESTS[n] \in proc.chosen =>
             TESTS[n] \in proc.complete \/ On(TESTS[n], {"enter"})

(* A program has run when its call is past fn, and once; the loop is at    *)
(* the last part one has run for, and the output is that program's.        *)
RunsOK ==
    /\ \A p \in Part :
         proc.executed[p] =
             IF <<p, 0>> \in proc.complete /\ ~On(<<p, 0>>, {"begin", "fn", "hung"})
             THEN 1 ELSE 0
    /\ \A t \in proc.complete : t[1] <= CurrentPart
    /\ proc.proc_output.part <= CurrentPart
    /\ \A p \in Part : proc.executed[p] > 0 => p <= proc.proc_output.part

(* A result is shown when the call is past show.                           *)
ShownOK ==
    proc.shown = {t \in proc.complete :
                     ~On(t, {"begin", "fn", "hung", "count", "show"})}

(* The globals at the call on top of the stack.                            *)
CallOK ==
    proc.stack # <<>> =>
        /\ Top.step = "fn" => proc.CURRENT_TEST = Top.test
        /\ Top.step \in {"count", "show", "finish"} /\ Top.test \in Matches =>
               Top.test \in proc.on_finish
        /\ phase = "tests" /\ Top.step = "finish" /\ Top.test \in Matches =>
               verdict[Top.test] = IF proc.fail THEN "fail" ELSE "ok"

Graded  == proc.shown \intersect Matches
Counted == Graded \union {t \in Matches : On(t, {"show"})}
Passed  == {t \in Graded : verdict[t] = "ok"}
Failed  == {t \in Graded : verdict[t] = "fail"}

(* POSSIBLE is a step ahead of the results, TOTAL is not.                  *)
ScoresOK ==
    phase \in {"make", "tests", "done"} =>
        /\ proc.POSSIBLE = Points * Cardinality(Counted)
        /\ proc.TOTAL = Points * Cardinality(Passed)
        /\ \A t \in Graded : verdict[t] \in {"ok", "fail"}

GInv ==
    /\ TypeOK /\ StackOK /\ CompleteOK /\ RunsOK /\ ShownOK /\ CallOK
    /\ ScoresOK /\ ExitHonest /\ LogsTruthful
-----------------------------------------------------------------------------
(* The order of TESTS.                                                     *)

(* A quotient does not decrease with the dividend.                         *)
LEMMA DivMonotone ==
    ASSUME NEW m \in Nat, NEW n \in Nat, m <= n, NEW b \in Nat \ {0}
    PROVE  m \div b <= n \div b
<1> DEFINE x == m \div b
           y == n \div b
<1>1. x \in Nat /\ m % b \in 0..(b - 1) /\ m = b * x + (m % b)
  OBVIOUS
<1>2. y \in Nat /\ n % b \in 0..(b - 1) /\ n = b * y + (n % b)
  OBVIOUS
<1> HIDE DEF x, y
<1> SUFFICES ASSUME y < x PROVE FALSE
  BY <1>1, <1>2 DEF x, y
<1>3. PICK d \in Nat : x = y + 1 + d
  BY <1>1, <1>2
<1>4. b * x = b * y + b + b * d /\ b * d \in Nat /\ b * y \in Nat
  BY <1>1, <1>2, <1>3
<1> QED BY <1>1, <1>2, <1>4

(* A quotient and a remainder are those of the number they make up.        *)
LEMMA DivModUnique ==
    ASSUME NEW q \in Nat, NEW b \in Nat \ {0}, NEW r \in 0..(b - 1)
    PROVE  (b * q + r) \div b = q /\ (b * q + r) % b = r
<1> DEFINE n == b * q + r
           x == n \div b
           e == n % b
<1>1. n \in Nat /\ x \in Nat /\ e \in 0..(b - 1) /\ n = b * x + e
  OBVIOUS
<1> HIDE DEF x, e
<1>2. ~(x < q)
  <2> SUFFICES ASSUME x < q PROVE FALSE
    OBVIOUS
  <2>1. PICK d \in Nat : q = x + 1 + d
    BY <1>1
  <2>2. b * q = b * x + b + b * d /\ b * d \in Nat /\ b * x \in Nat
    BY <1>1, <2>1
  <2> QED BY <1>1, <2>2
<1>3. ~(q < x)
  <2> SUFFICES ASSUME q < x PROVE FALSE
    OBVIOUS
  <2>1. PICK d \in Nat : x = q + 1 + d
    BY <1>1
  <2>2. b * x = b * q + b + b * d /\ b * d \in Nat /\ b * q \in Nat
    BY <1>1, <2>1
  <2> QED BY <1>1, <2>2
<1>4. x = q
  BY <1>1, <1>2, <1>3
<1>5. e = r
  BY <1>1, <1>4
<1> QED BY <1>4, <1>5 DEF x, e

(* How many tests there are.                                               *)
LEMMA TestCount ==
    /\ NumParts \in Nat \ {0} /\ NumMatches \in Nat \ {0} /\ Points \in Nat \ {0}
    /\ IsFiniteSet(Test) /\ Cardinality(Test) \in Nat
    /\ Cardinality(Test) = (NumMatches + 1) * NumParts
    /\ IsFiniteSet(Matches) /\ Matches \subseteq Test
<1>1. NumParts \in Nat \ {0} /\ NumMatches \in Nat \ {0} /\ Points \in Nat \ {0}
  BY GradeAssumption
<1>2. /\ IsFiniteSet(Part) /\ Cardinality(Part) = NumParts
      /\ IsFiniteSet(0..NumMatches) /\ Cardinality(0..NumMatches) = NumMatches + 1
      /\ IsFiniteSet(1..NumMatches)
  BY <1>1, FS_Interval DEF Part
<1>3. IsFiniteSet(Test) /\ Cardinality(Test) = NumParts * (NumMatches + 1)
  BY <1>2, FS_Product DEF Test
<1>4. NumParts * (NumMatches + 1) = (NumMatches + 1) * NumParts
      /\ (NumMatches + 1) * NumParts \in Nat
  BY <1>1
<1>5. IsFiniteSet(Matches)
  BY <1>2, FS_Product DEF Matches
<1>6. Matches \subseteq Test
  BY <1>1 DEF Matches, Test
<1> QED BY <1>1, <1>3, <1>4, <1>5, <1>6

(* A test is a program's, or a matchtest that has the program as parent.   *)
LEMMA ParentOf ==
    ASSUME NEW t \in Test
    PROVE  /\ t[1] \in Part /\ t = <<t[1], t[2]>>
           /\ t \in Matches => /\ parent(t) = <<t[1], 0>> /\ parent(t) # None
                               /\ parent(t) \in Test \ Matches
           /\ t \notin Matches => t = <<t[1], 0>> /\ parent(t) = None
<1>1. PICK a \in Part, b \in 0..NumMatches : t = <<a, b>>
  BY DEF Test
<1>2. a # 0 /\ <<a, 0>> \in Test \ Matches /\ <<a, 0>> # None
  BY TestCount DEF Part, Test, Matches, None
<1>3. CASE b = 0
  BY <1>1, <1>2, <1>3 DEF parent, None
<1>4. CASE b # 0
  <2>1. t \in Matches
    BY <1>1, <1>4, TestCount DEF Matches
  <2> QED BY <1>1, <1>2, <1>4, <2>1 DEF parent
<1> QED BY <1>3, <1>4

(* grade-lab lists every test, part after part.                            *)
LEMMA TestsInOrder ==
    /\ Len(TESTS) = Cardinality(Test)
    /\ \A n \in 1..Cardinality(Test) : TESTS[n] \in Test
    /\ \A n \in 1..(Cardinality(Test) - 1) : TESTS[n][1] <= TESTS[n + 1][1]
    /\ \A t \in Test : \E n \in 1..Cardinality(Test) : TESTS[n] = t
<1> DEFINE size == NumMatches + 1
           K == Cardinality(Test)
<1>1. /\ NumParts \in Nat \ {0} /\ NumMatches \in Nat \ {0} /\ size \in Nat \ {0}
      /\ K \in Nat /\ K = size * NumParts
  BY TestCount
<1>2. TESTS = [n \in 1..K |-> <<((n - 1) \div size) + 1, (n - 1) % size>>]
  BY DEF TESTS
<1> HIDE DEF size, K
<1>3. \A n \in 1..K : /\ (n - 1) \div size \in 0..(NumParts - 1)
                      /\ (n - 1) % size \in 0..(size - 1)
  <2> SUFFICES ASSUME NEW n \in 1..K
               PROVE  /\ (n - 1) \div size \in 0..(NumParts - 1)
                      /\ (n - 1) % size \in 0..(size - 1)
    OBVIOUS
  <2> DEFINE x == (n - 1) \div size
             e == (n - 1) % size
  <2>1. n - 1 \in Nat /\ x \in Nat /\ e \in 0..(size - 1) /\ n - 1 = size * x + e
    BY <1>1
  <2> HIDE DEF x, e
  <2>2. ~(x >= NumParts)
    <3> SUFFICES ASSUME x >= NumParts PROVE FALSE
      OBVIOUS
    <3>1. PICK d \in Nat : x = NumParts + d
      BY <1>1, <2>1
    <3>2. size * x = size * NumParts + size * d /\ size * d \in Nat
      BY <1>1, <2>1, <3>1
    <3> QED BY <1>1, <2>1, <3>2
  <2> QED BY <1>1, <2>1, <2>2 DEF x, e
<1>4. \A n \in 1..K : TESTS[n] \in Test
  <2> SUFFICES ASSUME NEW n \in 1..K PROVE TESTS[n] \in Test
    OBVIOUS
  <2>1. ((n - 1) \div size) + 1 \in Part /\ (n - 1) % size \in 0..NumMatches
    BY <1>1, <1>3 DEF Part, size
  <2> QED BY <2>1, <1>2 DEF Test
<1>5. \A n \in 1..(K - 1) : TESTS[n][1] <= TESTS[n + 1][1]
  <2> SUFFICES ASSUME NEW n \in 1..(K - 1) PROVE TESTS[n][1] <= TESTS[n + 1][1]
    OBVIOUS
  <2>1. (n - 1) \div size <= ((n + 1) - 1) \div size
    BY <1>1, DivMonotone
  <2>2. TESTS[n][1] = ((n - 1) \div size) + 1
        /\ TESTS[n + 1][1] = (((n + 1) - 1) \div size) + 1
    BY <1>1, <1>2
  <2>3. (n - 1) \div size \in Int /\ ((n + 1) - 1) \div size \in Int
    BY <1>1
  <2> QED BY <2>1, <2>2, <2>3
<1>6. \A t \in Test : \E n \in 1..K : TESTS[n] = t
  <2> SUFFICES ASSUME NEW p \in Part, NEW i \in 0..NumMatches
               PROVE  \E n \in 1..K : TESTS[n] = <<p, i>>
    BY DEF Test
  <2> DEFINE n == size * (p - 1) + i + 1
  <2>1. p - 1 \in Nat /\ i \in 0..(size - 1) /\ size * (p - 1) \in Nat
    BY <1>1 DEF Part, size
  <2>2. (n - 1) \div size = p - 1 /\ (n - 1) % size = i
    <3>1. n - 1 = size * (p - 1) + i
      BY <2>1
    <3>2. /\ (size * (p - 1) + i) \div size = p - 1
          /\ (size * (p - 1) + i) % size = i
      <4> DEFINE q == p - 1
      <4>1. q \in Nat
        BY <2>1
      <4> HIDE DEF q
      <4>2. (size * q + i) \div size = q /\ (size * q + i) % size = i
        BY <4>1, <2>1, <1>1, DivModUnique
      <4> QED BY <4>2 DEF q
    <3> QED BY <3>1, <3>2
  <2>3. n \in 1..K
    <3>1. PICK d \in Nat : NumParts = p + d
      BY <1>1 DEF Part
    <3>2. K = size * (p - 1) + size + size * d /\ size * d \in Nat
      <4>1. NumParts = (p - 1) + 1 + d /\ p - 1 \in Int
        BY <3>1 DEF Part
      <4> QED BY <4>1, <1>1
    <3> QED BY <3>2, <2>1, <1>1
  <2> HIDE DEF n
  <2>4. TESTS[n] = <<((n - 1) \div size) + 1, (n - 1) % size>>
    BY <1>2, <2>3
  <2>5. TESTS[n] = <<p, i>>
    BY <2>2, <2>4 DEF Part
  <2> QED BY <2>3, <2>5
<1>7. Len(TESTS) = K
  BY <1>1, <1>2
<1> QED BY <1>4, <1>5, <1>6, <1>7 DEF K
-----------------------------------------------------------------------------
(* The call stack.                                                         *)

(* The frames of the stack, and the one on top.                            *)
LEMMA StackTypes ==
    ASSUME TypeOK
    PROVE  /\ proc.stack \in Seq(Frames) /\ Len(proc.stack) \in Nat
           /\ proc.stack # <<>> => Len(proc.stack) \in Nat \ {0}
           /\ \A i \in 1..Len(proc.stack) :
                  proc.stack[i] \in Frames /\ proc.stack[i].test \in Test
                  /\ proc.stack[i].step \in CallSteps
<1>1. proc.stack \in Seq(Frames)
  BY DEF TypeOK, Process
<1>2. /\ Len(proc.stack) \in Nat
      /\ proc.stack # <<>> => Len(proc.stack) \in Nat \ {0}
  BY <1>1, EmptySeq, LenProperties
<1>3. \A i \in 1..Len(proc.stack) : proc.stack[i] \in Frames
  BY <1>1, ElementOfSeq
<1> QED BY <1>1, <1>2, <1>3 DEF Frames

(* Goto changes the step of the call on top.                               *)
LEMMA GotoStack ==
    ASSUME TypeOK, proc.stack # <<>>, NEW s \in CallSteps
    PROVE  LET S == Goto(proc.stack, s)
               n == Len(proc.stack)
           IN  /\ S \in Seq(Frames) /\ Len(S) = n /\ S # <<>>
               /\ \A i \in 1..n : S[i].test = proc.stack[i].test
               /\ \A i \in 1..n : S[i].step = IF i = n THEN s ELSE proc.stack[i].step
<1> DEFINE n == Len(proc.stack)
           f == [test |-> Top.test, step |-> s]
           S == [proc.stack EXCEPT ![n] = f]
<1>1. /\ proc.stack \in Seq(Frames) /\ n \in Nat \ {0}
      /\ n \in 1..n /\ Top = proc.stack[n] /\ Top \in Frames
  BY StackTypes DEF Top
<1>2. f \in Frames
  BY <1>1 DEF Frames
<1>3. Goto(proc.stack, s) = S
  BY <1>1 DEF Goto, Frames
<1>4. /\ S \in Seq(Frames) /\ Len(S) = n
      /\ \A i \in 1..n : S[i] = IF i = n THEN f ELSE proc.stack[i]
  <2> HIDE DEF f
  <2> QED BY <1>1, <1>2, ExceptSeq
<1>5. S # <<>>
  <2> HIDE DEF S
  <2> QED BY <1>1, <1>4, EmptySeq
<1> HIDE DEF S
<1> QED BY <1>1, <1>3, <1>4, <1>5

(* Return takes the call on top away.                                      *)
LEMMA ReturnStack ==
    ASSUME TypeOK, proc.stack # <<>>
    PROVE  LET S == Return(proc.stack)
               n == Len(proc.stack)
           IN  /\ S \in Seq(Frames) /\ Len(S) = n - 1
               /\ \A i \in 1..(n - 1) : S[i] = proc.stack[i]
<1> DEFINE n == Len(proc.stack)
<1>1. proc.stack \in Seq(Frames) /\ n \in Nat \ {0}
  BY StackTypes
<1>2. \A i \in 1..(n - 1) : proc.stack[i] \in Frames
  BY <1>1, ElementOfSeq
<1>3. /\ SubSeq(proc.stack, 1, n - 1) \in Seq(Frames)
      /\ Len(SubSeq(proc.stack, 1, n - 1)) = IF 1 <= n - 1 THEN n - 1 - 1 + 1 ELSE 0
      /\ \A i \in 1..(n - 1 - 1 + 1) : SubSeq(proc.stack, 1, n - 1)[i] = proc.stack[1 + i - 1]
  <2> HIDE DEF n
  <2>1. 1 \in Int /\ n - 1 \in Int
    BY <1>1
  <2> QED BY <2>1, <1>2, SubSeqProperties
<1> QED BY <1>1, <1>3 DEF Return

(* A stack of one new frame.                                               *)
LEMMA OneFrame ==
    ASSUME NEW t \in Test
    PROVE  /\ <<Frame(t)>> \in Seq(Frames) /\ Len(<<Frame(t)>>) = 1
           /\ <<Frame(t)>> # <<>> /\ <<Frame(t)>>[1] = Frame(t)
           /\ Frame(t) \in Frames /\ Frame(t).test = t /\ Frame(t).step = "enter"
  BY DEF Frame, Frames, CallSteps

(* A call of the parent goes on top of the call that waits for it.         *)
LEMMA CallParentStack ==
    ASSUME TypeOK, proc.stack # <<>>, parent(Top.test) # None
    PROVE  LET S == CallParent(Top.test, proc.stack)
               n == Len(proc.stack)
           IN  /\ S \in Seq(Frames) /\ Len(S) = n + 1
               /\ \A i \in 1..n : S[i].test = proc.stack[i].test
               /\ \A i \in 1..n : S[i].step = IF i = n THEN "begin" ELSE proc.stack[i].step
               /\ S[n + 1] = Frame(parent(Top.test))
<1> DEFINE n == Len(proc.stack)
           W == Goto(proc.stack, "begin")
           f == Frame(parent(Top.test))
<1>1. /\ W \in Seq(Frames) /\ Len(W) = n /\ n \in Nat \ {0}
      /\ \A i \in 1..n : W[i].test = proc.stack[i].test
      /\ \A i \in 1..n : W[i].step = IF i = n THEN "begin" ELSE proc.stack[i].step
  BY GotoStack, StackTypes DEF CallSteps
<1>2. f \in Frames
  <2>1. Top.test \in Test
    BY StackTypes DEF Top
  <2>2. parent(Top.test) \in Test
    BY <2>1, TestCount DEF parent, Test
  <2> QED BY <2>2, OneFrame
<1>3. CallParent(Top.test, proc.stack) = Append(W, f)
  BY DEF CallParent
<1> HIDE DEF W, f
<1>4. /\ Append(W, f) \in Seq(Frames) /\ Len(Append(W, f)) = n + 1
      /\ \A i \in 1..n : Append(W, f)[i] = W[i]
      /\ Append(W, f)[n + 1] = f
  BY <1>1, <1>2
<1> QED BY <1>1, <1>3, <1>4 DEF f

(* The tests on the stack differ.                                          *)
LEMMA OnTop ==
    ASSUME TypeOK, StackOK, proc.stack # <<>>
    PROVE  /\ Top.test \in Test /\ Top.step \in CallSteps
           /\ Top.test \in Matches => Len(proc.stack) = 1 /\ Top.test = Current
           /\ Top.test = Current \/ (Current \in Matches /\ Top.test = parent(Current))
           /\ \A i \in 1..Len(proc.stack) :
                  proc.stack[i].test = Top.test => i = Len(proc.stack)
           /\ \A steps : On(Top.test, steps) <=> Top.step \in steps
<1> DEFINE n == Len(proc.stack)
<1>1. n \in 1..2 /\ Top = proc.stack[n] /\ Top.test \in Test /\ Top.step \in CallSteps
  <2>1. n \in Nat \ {0} /\ n <= 2 /\ Top = proc.stack[n]
    BY StackTypes DEF Top, StackOK
  <2>2. n \in 1..2 /\ n \in 1..n
    <3> HIDE DEF n
    <3> QED BY <2>1
  <2> QED BY <2>1, <2>2, StackTypes
<1>2. CASE n = 1
  <2>1. Top = proc.stack[1] /\ Top.test = Current
    BY <1>1, <1>2 DEF StackOK
  <2>2. \A i \in 1..n : i = 1
    BY <1>2
  <2> QED BY <1>1, <1>2, <2>1, <2>2 DEF On
<1>3. CASE n = 2
  <2>1. /\ Top.test = parent(Current) /\ Current \in Matches
        /\ proc.stack[1].test = Current
    BY <1>1, <1>3 DEF StackOK
  <2>2. Top.test \notin Matches /\ Top.test # Current
    BY <2>1 DEF parent, Matches, None
  <2>3. \A i \in 1..n : i = 1 \/ i = 2
    BY <1>3
  <2> QED BY <1>1, <1>3, <2>1, <2>2, <2>3 DEF On
<1> QED BY <1>1, <1>2, <1>3

(* Moving the call on top to another step moves no other call.             *)
LEMMA OnMoved ==
    ASSUME TypeOK, StackOK, proc.stack # <<>>, NEW s \in CallSteps,
           proc'.stack = Goto(proc.stack, s)
    PROVE  /\ \A t, steps : On(t, steps)' <=> IF t = Top.test THEN s \in steps
                                                            ELSE On(t, steps)
           /\ Len(proc'.stack) = Len(proc.stack) /\ proc'.stack # <<>>
           /\ Top'.test = Top.test /\ Top'.step = s
<1> DEFINE n == Len(proc.stack)
<1>1. /\ Len(proc'.stack) = n /\ proc'.stack # <<>> /\ n \in Nat \ {0}
      /\ \A i \in 1..n : proc'.stack[i].test = proc.stack[i].test
      /\ \A i \in 1..n : proc'.stack[i].step = IF i = n THEN s ELSE proc.stack[i].step
  BY GotoStack, StackTypes
<1>2. \A i \in 1..n : proc.stack[i].test = Top.test <=> i = n
  BY OnTop, <1>1 DEF Top
<1>3. Top'.test = Top.test /\ Top'.step = s
  BY <1>1 DEF Top
<1>4. ASSUME NEW t, NEW steps
      PROVE  On(t, steps)' <=> IF t = Top.test THEN s \in steps ELSE On(t, steps)
  <2>1. On(t, steps)' <=> \E i \in 1..n : proc'.stack[i].test = t /\ proc'.stack[i].step \in steps
    BY <1>1 DEF On
  <2>2. CASE t = Top.test
    BY <2>1, <2>2, <1>1, <1>2
  <2>3. CASE t # Top.test
    BY <2>1, <2>3, <1>1, <1>2 DEF On
  <2> QED BY <2>2, <2>3
<1> QED BY <1>1, <1>3, <1>4

(* A call on top that has entered: no parent is about to enter.            *)
LEMMA Entered ==
    ASSUME TypeOK, StackOK, CompleteOK, proc.stack # <<>>, Top.step # "enter"
    PROVE  /\ \A t : ~On(t, {"enter"})
           /\ Top.test \in proc.complete
           /\ \A t \in proc.complete \intersect Matches : parent(t) \in proc.complete
<1> DEFINE n == Len(proc.stack)
<1>1. n \in Nat \ {0} /\ n <= 2 /\ Top = proc.stack[n] /\ n \in 1..n
  <2>1. n \in Nat \ {0} /\ n <= 2 /\ Top = proc.stack[n]
    BY StackTypes DEF Top, StackOK
  <2>2. n \in 1..n
    <3> HIDE DEF n
    <3> QED BY <2>1
  <2> QED BY <2>1, <2>2
<1>2. \A i \in 1..n : proc.stack[i].step # "enter"
  <2>1. \A i \in 1..n : i = n \/ (n = 2 /\ i = 1)
    <3> HIDE DEF n
    <3> QED BY <1>1
  <2>2. n = 2 => proc.stack[1].step = "begin"
    BY DEF StackOK
  <2> QED BY <1>1, <2>1, <2>2
<1>3. \A t : ~On(t, {"enter"})
  BY <1>2 DEF On
<1> QED BY <1>1, <1>3 DEF CompleteOK

(* What a step inside a call leaves alone.                                 *)
Inside ==
    /\ proc'.next = proc.next /\ proc'.chosen = proc.chosen
    /\ proc'.complete = proc.complete
    /\ phase = "tests" /\ phase' = phase

(* The stack stays well formed when the call on top goes on.               *)
LEMMA Moved ==
    ASSUME TypeOK, StackOK, CompleteOK, Inside, proc.stack # <<>>,
           Top.step # "enter", NEW s \in CallSteps \ {"enter"},
           proc'.stack = Goto(proc.stack, s)
    PROVE  StackOK' /\ CompleteOK'
<1> DEFINE n == Len(proc.stack)
<1>1. /\ Len(proc'.stack) = n /\ proc'.stack # <<>> /\ n \in Nat \ {0}
      /\ \A i \in 1..n : proc'.stack[i].test = proc.stack[i].test
      /\ \A i \in 1..n : proc'.stack[i].step = IF i = n THEN s ELSE proc.stack[i].step
  BY GotoStack, StackTypes
<1>2. Current' = Current
  BY DEF Current, Inside
<1>3. StackOK'
  BY <1>1, <1>2 DEF StackOK, Inside
<1>4. CompleteOK'
  <2>1. \A i \in 1..Len(proc'.stack) :
           proc'.stack[i].step # "enter" => proc'.stack[i].test \in proc'.complete
    <3>1. proc.stack[n].test \in proc.complete
      BY Entered DEF Top
    <3> QED BY <3>1, <1>1 DEF CompleteOK, Inside
  <2>2. \A t \in proc'.complete \intersect Matches : parent(t) \in proc'.complete
    BY Entered DEF Inside
  <2>3. \A m \in 1..(proc'.next - 1) :
           TESTS[m] \in proc'.chosen => TESTS[m] \in proc'.complete
    BY Entered DEF CompleteOK, Inside
  <2> QED BY <2>1, <2>2, <2>3 DEF CompleteOK, Inside
<1> QED BY <1>3, <1>4

(* Before its result is shown, a call changes neither results nor logs.    *)
LEMMA BeforeShow ==
    ASSUME TypeOK, StackOK, CompleteOK, ShownOK, LogsTruthful, Inside,
           proc.stack # <<>>,
           NEW s \in {"fn", "hung", "count", "show"},
           Top.step \in {"begin", "fn", "count"},
           proc'.stack = Goto(proc.stack, s),
           proc'.shown = proc.shown, UNCHANGED <<verdict, logs>>
    PROVE  ShownOK' /\ LogsTruthful' /\ ExitHonest' /\ Graded' = Graded /\ Passed' = Passed
<1>1. s \in CallSteps
  BY DEF CallSteps
<1>2. ShownOK'
  <2>1. \A t : On(t, {"begin", "fn", "hung", "count", "show"})'
              <=> On(t, {"begin", "fn", "hung", "count", "show"})
    BY <1>1, OnMoved, OnTop
  <2> QED BY <2>1 DEF ShownOK, Inside
<1>3. LogsTruthful'
  <2>1. ~At("finish")
    BY DEF At
  <2> QED BY <2>1 DEF LogsTruthful
<1>4. ExitHonest'
  BY DEF ExitHonest, Inside
<1> QED BY <1>2, <1>3, <1>4 DEF Graded, Passed
-----------------------------------------------------------------------------
(* Every action preserves the invariant.                                   *)

LEMMA BeginInv == GInv /\ Begin => GInv'
<1> SUFFICES ASSUME GInv, Begin PROVE GInv'
  OBVIOUS
<1>1. /\ TypeOK /\ StackOK /\ CompleteOK /\ RunsOK /\ ShownOK /\ CallOK
      /\ ScoresOK /\ LogsTruthful
  BY DEF GInv
<1>2. /\ proc.stack # <<>> /\ Top.step = "begin" /\ phase = "tests"
      /\ UNCHANGED <<phase, status, logs, verdict, gradings>>
  BY DEF Begin, At, Keep
<1>3. /\ proc' = [proc EXCEPT !.CURRENT_TEST = Top.test, !.fail = FALSE,
                              !.stack = Goto(proc.stack, "fn")]
      /\ "fn" \in CallSteps \ {"enter"}
  BY DEF Begin, CallSteps
<1>4. /\ proc' \in Process /\ Inside
      /\ proc'.stack = Goto(proc.stack, "fn") /\ proc'.CURRENT_TEST = Top.test
      /\ proc'.shown = proc.shown /\ proc'.executed = proc.executed
      /\ proc'.proc_output = proc.proc_output
      /\ proc'.POSSIBLE = proc.POSSIBLE /\ proc'.TOTAL = proc.TOTAL
  BY <1>1, <1>2, <1>3, GotoStack, OnTop DEF TypeOK, Process, Inside
<1>5. TypeOK'
  BY <1>1, <1>2, <1>4 DEF TypeOK
<1>6. StackOK' /\ CompleteOK'
  BY <1>1, <1>2, <1>3, <1>4, Moved
<1>7. ShownOK' /\ LogsTruthful' /\ ExitHonest' /\ Graded' = Graded /\ Passed' = Passed
  BY <1>1, <1>2, <1>3, <1>4, BeforeShow
<1>8. RunsOK'
  <2>1. \A t : On(t, {"begin", "fn", "hung"})' <=> On(t, {"begin", "fn", "hung"})
    BY <1>1, <1>2, <1>3, <1>4, OnMoved, OnTop
  <2>2. CurrentPart' = CurrentPart
    BY <1>4 DEF CurrentPart, Current, Inside
  <2> QED BY <1>1, <1>4, <2>1, <2>2 DEF RunsOK, Inside
<1>9. CallOK'
  <2>1. Top'.test = Top.test /\ Top'.step = "fn"
    BY <1>1, <1>2, <1>3, <1>4, OnMoved
  <2> QED BY <2>1, <1>4 DEF CallOK
<1>10. ScoresOK'
  <2>1. \A t : On(t, {"show"})' <=> On(t, {"show"})
    BY <1>1, <1>2, <1>3, <1>4, OnMoved, OnTop
  <2>2. Counted' = Counted
    BY <2>1, <1>7 DEF Counted
  <2> QED BY <1>1, <1>2, <1>4, <1>7, <2>2 DEF ScoresOK
<1> QED BY <1>5, <1>6, <1>7, <1>8, <1>9, <1>10 DEF GInv

LEMMA matchInv == GInv /\ match => GInv'
<1> SUFFICES ASSUME GInv, match PROVE GInv'
  OBVIOUS
<1>1. /\ TypeOK /\ StackOK /\ CompleteOK /\ RunsOK /\ ShownOK /\ CallOK
      /\ ScoresOK /\ LogsTruthful
  BY DEF GInv
<1>2. /\ proc.stack # <<>> /\ Top.step = "fn" /\ phase = "tests"
      /\ UNCHANGED <<phase, status, logs, verdict, gradings>>
      /\ parent(Top.test) # None
  BY DEF match, At, Keep
<1> DEFINE f == ~assert_lines_match(proc.proc_output, Top.test)
           o == proc.on_finish \union {proc.CURRENT_TEST}
<1>3. /\ proc' = [proc EXCEPT !.on_finish = o, !.fail = f,
                              !.stack = Goto(proc.stack, "count")]
      /\ "count" \in CallSteps \ {"enter"}
  BY DEF match, CallSteps
<1>4. f \in BOOLEAN /\ o = proc.on_finish \union {Top.test} /\ o \subseteq Test
  BY <1>1, <1>2, OnTop DEF assert_lines_match, CallOK, TypeOK, Process
<1> HIDE DEF f, o
<1>5. /\ proc' \in Process /\ Inside
      /\ proc'.stack = Goto(proc.stack, "count") /\ Top.test \in proc'.on_finish
      /\ proc'.shown = proc.shown /\ proc'.executed = proc.executed
      /\ proc'.proc_output = proc.proc_output
      /\ proc'.POSSIBLE = proc.POSSIBLE /\ proc'.TOTAL = proc.TOTAL
  BY <1>1, <1>2, <1>3, <1>4, GotoStack, OnTop DEF TypeOK, Process, Inside
<1>6. TypeOK'
  BY <1>1, <1>2, <1>5 DEF TypeOK
<1>7. StackOK' /\ CompleteOK'
  BY <1>1, <1>2, <1>3, <1>5, Moved
<1>8. ShownOK' /\ LogsTruthful' /\ ExitHonest' /\ Graded' = Graded /\ Passed' = Passed
  BY <1>1, <1>2, <1>3, <1>5, BeforeShow
<1>9. RunsOK'
  <2>1. \A p \in Part : On(<<p, 0>>, {"begin", "fn", "hung"})'
                         <=> On(<<p, 0>>, {"begin", "fn", "hung"})
    <3>1. \A p \in Part : <<p, 0>> # Top.test
      BY <1>2 DEF parent
    <3> QED BY <3>1, <1>1, <1>2, <1>3, <1>5, OnMoved
  <2>2. CurrentPart' = CurrentPart
    BY <1>5 DEF CurrentPart, Current, Inside
  <2> QED BY <1>1, <1>5, <2>1, <2>2 DEF RunsOK, Inside
<1>10. CallOK'
  <2>1. Top'.test = Top.test /\ Top'.step = "count"
    BY <1>1, <1>2, <1>3, <1>5, OnMoved
  <2> QED BY <2>1, <1>5 DEF CallOK
<1>11. ScoresOK'
  <2>1. \A t : On(t, {"show"})' <=> On(t, {"show"})
    BY <1>1, <1>2, <1>3, <1>5, OnMoved, OnTop
  <2>2. Counted' = Counted
    BY <2>1, <1>8 DEF Counted
  <2> QED BY <1>1, <1>2, <1>5, <1>8, <2>2 DEF ScoresOK
<1> QED BY <1>6, <1>7, <1>8, <1>9, <1>10, <1>11 DEF GInv

(* The calls on the stack are for the part the loop is at.                 *)
LEMMA TopPart ==
    ASSUME TypeOK, StackOK, proc.stack # <<>>
    PROVE  /\ CurrentPart = Current[1] /\ Top.test[1] = CurrentPart
           /\ CurrentPart \in Part
           /\ Current \in Test /\ Top.test \in {Current, parent(Current)}
<1>1. proc.next \in Nat /\ proc.next > 1 /\ proc.next <= Cardinality(Test) + 1
  BY TestCount DEF TypeOK, Process, StackOK
<1>2. proc.next - 1 \in 1..Cardinality(Test)
  BY <1>1, TestCount
<1>3. Current \in Test /\ Current[1] \in Part
  BY <1>2, TestsInOrder DEF Current, Test
<1>4. CurrentPart = Current[1]
  BY <1>1 DEF CurrentPart
<1>5. Top.test = Current \/ (Current \in Matches /\ Top.test = parent(Current))
  BY OnTop
<1>6. Current \in Matches => parent(Current)[1] = Current[1]
  BY DEF parent, Matches
<1> QED BY <1>3, <1>4, <1>5, <1>6

LEMMA RunProgramInv == GInv /\ RunProgram => GInv'
<1> SUFFICES ASSUME GInv, RunProgram PROVE GInv'
  OBVIOUS
<1>1. /\ TypeOK /\ StackOK /\ CompleteOK /\ RunsOK /\ ShownOK /\ CallOK
      /\ ScoresOK /\ LogsTruthful
  BY DEF GInv
<1>2. /\ proc.stack # <<>> /\ Top.step = "fn" /\ phase = "tests"
      /\ UNCHANGED <<phase, status, logs, verdict, gradings>>
      /\ Top.test \in proc.complete
  BY <1>1, Entered DEF RunProgram, At, Keep
<1>3. PICK p \in Part : p = CurrentPart /\ Top.test = <<p, 0>> /\ Top.test \notin Matches
  <2>1. Top.test \in Test /\ parent(Top.test) = None
    BY <1>1, <1>2, OnTop DEF RunProgram
  <2> QED BY <2>1, <1>1, <1>2, ParentOf, TopPart
<1>4. PICK s \in {"count", "hung"}, out \in [part : 0..NumParts, lines : SUBSET (1..NumMatches)],
           e \in [Part -> Nat] :
        /\ proc' = [proc EXCEPT !.proc_output = out, !.executed = e,
                                !.stack = Goto(proc.stack, s)]
        /\ s = "count" => out.part = p /\ e = [proc.executed EXCEPT ![p] = @ + 1]
        /\ s = "hung" => out = proc.proc_output /\ e = proc.executed
  <2>1. proc.executed \in [Part -> Nat] /\ p \in 0..NumParts
        /\ proc \in Process
        /\ proc.proc_output \in [part : 0..NumParts, lines : SUBSET (1..NumMatches)]
    <3>1. proc \in Process
      BY <1>1 DEF TypeOK
    <3>2. p \in 0..NumParts
      BY TestCount DEF Part
    <3> QED BY <3>1, <3>2 DEF Process
  <2>4. Top.test[1] = p
    BY <1>3
  <2>2. CASE \E lines \in SUBSET (1..NumMatches) :
               proc' = [proc EXCEPT !.proc_output = [part |-> p, lines |-> lines],
                                    !.executed[p] = @ + 1,
                                    !.stack = Goto(@, "count")]
    <3>1. PICK lines \in SUBSET (1..NumMatches) :
               proc' = [proc EXCEPT !.proc_output = [part |-> p, lines |-> lines],
                                    !.executed[p] = @ + 1,
                                    !.stack = Goto(@, "count")]
      BY <2>2
    <3> DEFINE out == [part |-> p, lines |-> lines]
               e == [proc.executed EXCEPT ![p] = @ + 1]
    <3>4. out \in [part : 0..NumParts, lines : SUBSET (1..NumMatches)] /\ out.part = p
      BY <2>1
    <3>5. e \in [Part -> Nat]
      BY <2>1
    <3>2. out \in [part : 0..NumParts, lines : SUBSET (1..NumMatches)] /\ out.part = p
          /\ e \in [Part -> Nat]
      BY <3>4, <3>5
    <3>3. proc' = [proc EXCEPT !.proc_output = out, !.executed = e,
                              !.stack = Goto(proc.stack, "count")]
      BY <2>1, <3>1 DEF Process
    <3> QED BY <3>2, <3>3
  <2>3. CASE proc' = [proc EXCEPT !.stack = Goto(@, "hung")]
    <3>1. proc' = [proc EXCEPT !.proc_output = proc.proc_output, !.executed = proc.executed,
                              !.stack = Goto(proc.stack, "hung")]
      BY <2>1, <2>3 DEF Process
    <3> QED BY <2>1, <3>1
  <2> QED BY <2>2, <2>3, <2>4 DEF RunProgram
<1>5. s \in CallSteps \ {"enter"}
  BY DEF CallSteps
<1>6. /\ proc' \in Process /\ Inside
      /\ proc'.stack = Goto(proc.stack, s)
      /\ proc'.shown = proc.shown /\ proc'.executed = e
      /\ proc'.proc_output = out
      /\ proc'.POSSIBLE = proc.POSSIBLE /\ proc'.TOTAL = proc.TOTAL
  BY <1>1, <1>2, <1>4, <1>5, GotoStack DEF TypeOK, Process, Inside
<1>7. TypeOK'
  BY <1>1, <1>2, <1>6 DEF TypeOK
<1>8. StackOK' /\ CompleteOK'
  BY <1>1, <1>2, <1>5, <1>6, Moved
<1>9. ShownOK' /\ LogsTruthful' /\ ExitHonest' /\ Graded' = Graded /\ Passed' = Passed
  BY <1>1, <1>2, <1>6, BeforeShow
<1>10. RunsOK'
  <2>1. CurrentPart' = CurrentPart
    BY <1>6 DEF CurrentPart, Current, Inside
  <2>2. /\ On(<<p, 0>>, {"begin", "fn", "hung"})
        /\ On(<<p, 0>>, {"begin", "fn", "hung"})' <=> s = "hung"
        /\ \A q \in Part : q # p =>
              (On(<<q, 0>>, {"begin", "fn", "hung"})' <=> On(<<q, 0>>, {"begin", "fn", "hung"}))
    BY <1>1, <1>2, <1>3, <1>5, <1>6, OnMoved, OnTop
  <2>3. proc.executed[p] = 0 /\ CurrentPart \in Nat /\ proc.executed \in [Part -> Nat]
    BY <1>1, <1>2, <1>3, <2>2 DEF RunsOK, TypeOK, Process, Part
  <2>4. CASE s = "count"
    <3>1. e[p] = 1 /\ \A q \in Part : q # p => e[q] = proc.executed[q]
      BY <1>3, <1>4, <2>3, <2>4
    <3>2. \A q \in Part : e[q] = IF <<q, 0>> \in proc.complete /\ ~On(<<q, 0>>, {"begin", "fn", "hung"})'
                                 THEN 1 ELSE 0
      BY <1>1, <1>2, <1>3, <2>2, <2>4, <3>1 DEF RunsOK
    <3>3. \A q \in Part : e[q] > 0 => q <= p
      <4>1. proc.proc_output.part \in Nat /\ p \in Nat
        BY <1>1, TestCount DEF TypeOK, Process, Part
      <4>2. proc.proc_output.part <= p
            /\ \A q \in Part : proc.executed[q] > 0 => q <= proc.proc_output.part
        BY <1>1, <1>3 DEF RunsOK
      <4> QED BY <3>1, <4>1, <4>2 DEF Part
    <3> QED BY <1>1, <1>3, <1>4, <1>6, <2>1, <2>4, <2>3, <3>2, <3>3 DEF RunsOK, Inside
  <2>5. CASE s = "hung"
    <3>1. \A q \in Part : On(<<q, 0>>, {"begin", "fn", "hung"})' <=> On(<<q, 0>>, {"begin", "fn", "hung"})
      BY <1>3, <2>2, <2>5
    <3> QED BY <1>1, <1>4, <1>6, <2>1, <2>5, <3>1 DEF RunsOK, Inside
  <2> QED BY <2>4, <2>5
<1>11. CallOK'
  <2>1. Top'.test = Top.test /\ Top'.step = s
    BY <1>1, <1>2, <1>5, <1>6, OnMoved
  <2> QED BY <2>1, <1>3 DEF CallOK
<1>12. ScoresOK'
  <2>1. \A t : On(t, {"show"})' <=> On(t, {"show"})
    BY <1>1, <1>2, <1>5, <1>6, OnMoved, OnTop
  <2>2. Counted' = Counted
    BY <2>1, <1>9 DEF Counted
  <2> QED BY <1>1, <1>2, <1>6, <1>9, <2>2 DEF ScoresOK
<1> QED BY <1>7, <1>8, <1>9, <1>10, <1>11, <1>12 DEF GInv

(* The matchtests that were graded, counted and passed are finitely many.  *)
LEMMA Scored ==
    ASSUME TypeOK
    PROVE  /\ IsFiniteSet(Counted) /\ Cardinality(Counted) \in Nat
           /\ IsFiniteSet(Graded) /\ Cardinality(Graded) \in Nat
           /\ IsFiniteSet(Passed) /\ Cardinality(Passed) \in Nat
           /\ Passed \subseteq Graded /\ Graded \subseteq Counted
<1>1. Counted \subseteq Matches /\ Graded \subseteq Counted /\ Passed \subseteq Graded
  BY DEF Counted, Graded, Passed
<1> QED BY <1>1, TestCount, FS_Subset, FS_CardinalityType

LEMMA CountInv == GInv /\ Count => GInv'
<1> SUFFICES ASSUME GInv, Count PROVE GInv'
  OBVIOUS
<1>1. /\ TypeOK /\ StackOK /\ CompleteOK /\ RunsOK /\ ShownOK /\ CallOK
      /\ ScoresOK /\ LogsTruthful
  BY DEF GInv
<1>2. /\ proc.stack # <<>> /\ Top.step = "count" /\ phase = "tests"
      /\ UNCHANGED <<phase, status, logs, verdict, gradings>>
      /\ "show" \in CallSteps \ {"enter"}
  BY DEF Count, At, Keep, CallSteps
<1>3. PICK t \in Test : t = Top.test
  BY <1>1, <1>2, OnTop
<1>4. points(t) \in Nat /\ points(t) = IF t \in Matches THEN Points ELSE 0
  <2>1. t[2] = 0 <=> t \notin Matches
    BY TestCount DEF Test, Matches
  <2> QED BY <2>1, TestCount DEF points
<1>5. /\ proc' \in Process /\ Inside
      /\ proc'.stack = Goto(proc.stack, "show")
      /\ proc'.shown = proc.shown /\ proc'.executed = proc.executed
      /\ proc'.proc_output = proc.proc_output /\ proc'.on_finish = proc.on_finish
      /\ proc'.POSSIBLE = proc.POSSIBLE + points(t) /\ proc'.TOTAL = proc.TOTAL
  <2>1. proc' = [proc EXCEPT !.POSSIBLE = proc.POSSIBLE + points(t),
                            !.stack = Goto(proc.stack, "show")]
    BY <1>1, <1>3 DEF Count, TypeOK, Process
  <2> DEFINE v == proc.POSSIBLE + points(t)
  <2>2. v \in Nat
    BY <1>1, <1>4 DEF TypeOK, Process
  <2> HIDE DEF v
  <2>3. proc' = [proc EXCEPT !.POSSIBLE = v, !.stack = Goto(proc.stack, "show")]
    BY <2>1 DEF v
  <2>4. Goto(proc.stack, "show") \in Seq(Frames)
    BY <1>1, <1>2, GotoStack
  <2>5. proc' \in Process /\ Inside /\ proc'.stack = Goto(proc.stack, "show")
        /\ proc'.shown = proc.shown /\ proc'.executed = proc.executed
        /\ proc'.proc_output = proc.proc_output /\ proc'.on_finish = proc.on_finish
        /\ proc'.POSSIBLE = v /\ proc'.TOTAL = proc.TOTAL
    BY <2>2, <2>3, <2>4, <1>1, <1>2 DEF TypeOK, Process, Inside
  <2> QED BY <2>5 DEF v
<1>6. TypeOK'
  BY <1>1, <1>2, <1>5 DEF TypeOK
<1>7. StackOK' /\ CompleteOK'
  BY <1>1, <1>2, <1>5, Moved
<1>8. ShownOK' /\ LogsTruthful' /\ ExitHonest' /\ Graded' = Graded /\ Passed' = Passed
  BY <1>1, <1>2, <1>5, BeforeShow
<1>9. RunsOK'
  <2>1. \A q : On(q, {"begin", "fn", "hung"})' <=> On(q, {"begin", "fn", "hung"})
    BY <1>1, <1>2, <1>5, OnMoved, OnTop
  <2>2. CurrentPart' = CurrentPart
    BY <1>5 DEF CurrentPart, Current, Inside
  <2> QED BY <1>1, <1>5, <2>1, <2>2 DEF RunsOK, Inside
<1>10. CallOK'
  <2>1. Top'.test = Top.test /\ Top'.step = "show"
    BY <1>1, <1>2, <1>5, OnMoved
  <2> QED BY <2>1, <1>1, <1>2, <1>5 DEF CallOK
<1>11. ScoresOK'
  <2>1. /\ \A q : q # t => (On(q, {"show"})' <=> On(q, {"show"}))
        /\ On(t, {"show"})' /\ ~On(t, {"show"}) /\ On(t, {"count"})
    BY <1>1, <1>2, <1>3, <1>5, OnMoved, OnTop
  <2>2. t \notin proc.shown
    <3>1. On(t, {"begin", "fn", "hung", "count", "show"})
      BY <1>1, <1>2, <1>3, OnTop
    <3> QED BY <3>1, <1>1 DEF ShownOK
  <2>3. Counted' = IF t \in Matches THEN Counted \union {t} ELSE Counted
    BY <2>1, <1>8 DEF Counted
  <2>4. t \notin Counted
    BY <2>1, <2>2 DEF Counted, Graded
  <2>5. Cardinality(Counted') = IF t \in Matches THEN Cardinality(Counted) + 1
                                ELSE Cardinality(Counted)
    BY <2>3, <2>4, <1>1, Scored, FS_AddElement
  <2>6. proc'.POSSIBLE = Points * Cardinality(Counted')
    <3> DEFINE c == Cardinality(Counted)
    <3>1. c \in Nat /\ Points \in Nat /\ proc.POSSIBLE = Points * c
      BY <1>1, <1>2, Scored, TestCount DEF ScoresOK
    <3> HIDE DEF c
    <3>2. Points * (c + 1) = Points * c + Points /\ Points * c \in Nat
      BY <3>1
    <3> QED BY <2>5, <3>1, <3>2, <1>4, <1>5 DEF c
  <2> QED BY <2>6, <1>1, <1>2, <1>5, <1>8 DEF ScoresOK
<1> QED BY <1>6, <1>7, <1>8, <1>9, <1>10, <1>11 DEF GInv

LEMMA ShowInv == GInv /\ Show => GInv'
<1> SUFFICES ASSUME GInv, Show PROVE GInv'
  OBVIOUS
<1>1. /\ TypeOK /\ StackOK /\ CompleteOK /\ RunsOK /\ ShownOK /\ CallOK
      /\ ScoresOK /\ LogsTruthful
  BY DEF GInv
<1>2. /\ proc.stack # <<>> /\ Top.step = "show" /\ phase = "tests"
      /\ UNCHANGED <<phase, status, logs, gradings>>
      /\ "finish" \in CallSteps \ {"enter"}
  BY DEF Show, At, CallSteps
<1>3. PICK t \in Test : t = Top.test
  BY <1>1, <1>2, OnTop
<1>4. Award(t) \in Nat /\ Award(t) = IF t \in Matches /\ ~proc.fail THEN Points ELSE 0
  <2>1. t[2] = 0 <=> t \notin Matches
    BY TestCount DEF Test, Matches
  <2> QED BY <2>1, TestCount DEF points, Award
<1>5. /\ proc' \in Process /\ Inside
      /\ proc'.stack = Goto(proc.stack, "finish")
      /\ proc'.shown = proc.shown \union {t} /\ proc'.executed = proc.executed
      /\ proc'.proc_output = proc.proc_output /\ proc'.on_finish = proc.on_finish
      /\ proc'.fail = proc.fail
      /\ proc'.TOTAL = proc.TOTAL + Award(t) /\ proc'.POSSIBLE = proc.POSSIBLE
  <2>1. proc' = [proc EXCEPT !.shown = proc.shown \union {t}, !.TOTAL = proc.TOTAL + Award(t),
                            !.stack = Goto(proc.stack, "finish")]
    BY <1>1, <1>3 DEF Show, TypeOK, Process
  <2> DEFINE v == proc.TOTAL + Award(t)
             w == proc.shown \union {t}
  <2>2. v \in Nat /\ w \in SUBSET Test
    BY <1>1, <1>4 DEF TypeOK, Process
  <2> HIDE DEF v, w
  <2>3. proc' = [proc EXCEPT !.shown = w, !.TOTAL = v, !.stack = Goto(proc.stack, "finish")]
    BY <2>1 DEF v, w
  <2>4. Goto(proc.stack, "finish") \in Seq(Frames)
    BY <1>1, <1>2, GotoStack
  <2>5. proc' \in Process /\ Inside /\ proc'.stack = Goto(proc.stack, "finish")
        /\ proc'.shown = w /\ proc'.executed = proc.executed
        /\ proc'.proc_output = proc.proc_output /\ proc'.on_finish = proc.on_finish
        /\ proc'.fail = proc.fail
        /\ proc'.TOTAL = v /\ proc'.POSSIBLE = proc.POSSIBLE
    BY <2>2, <2>3, <2>4, <1>1, <1>2 DEF TypeOK, Process, Inside
  <2> QED BY <2>5 DEF v, w
<1>6. verdict' = [q \in Matches |-> IF q # t THEN verdict[q]
                                   ELSE IF proc.fail THEN "fail" ELSE "ok"]
  BY <1>3 DEF Show
<1>7. TypeOK'
  BY <1>1, <1>2, <1>5, <1>6 DEF TypeOK
<1>8. StackOK' /\ CompleteOK'
  BY <1>1, <1>2, <1>5, Moved
<1>9. RunsOK'
  <2>1. \A q : On(q, {"begin", "fn", "hung"})' <=> On(q, {"begin", "fn", "hung"})
    BY <1>1, <1>2, <1>5, OnMoved, OnTop
  <2>2. CurrentPart' = CurrentPart
    BY <1>5 DEF CurrentPart, Current, Inside
  <2> QED BY <1>1, <1>5, <2>1, <2>2 DEF RunsOK, Inside
<1>10. /\ \A q : On(q, {"begin", "fn", "hung", "count", "show"})'
               <=> q # t /\ On(q, {"begin", "fn", "hung", "count", "show"})
       /\ \A q : On(q, {"show"})' <=> q # t /\ On(q, {"show"})
       /\ On(t, {"begin", "fn", "hung", "count", "show"}) /\ On(t, {"show"})
       /\ Top'.test = t /\ Top'.step = "finish" /\ t \in proc.complete
       /\ proc'.stack # <<>>
  BY <1>1, <1>2, <1>3, <1>5, OnMoved, OnTop, Entered
<1>11. ShownOK'
  BY <1>1, <1>5, <1>10 DEF ShownOK, Inside
<1>12. CallOK'
  BY <1>1, <1>2, <1>3, <1>5, <1>6, <1>10 DEF CallOK
<1>13. t \notin proc.shown
  BY <1>1, <1>10 DEF ShownOK
<1>14. ScoresOK'
  <2>1. Counted' = Counted
    BY <1>5, <1>10 DEF Counted, Graded
  <2>2. \A q \in Graded' : verdict'[q] \in {"ok", "fail"}
    BY <1>1, <1>2, <1>5, <1>6 DEF ScoresOK, Graded
  <2>3. Passed' = IF t \in Matches /\ ~proc.fail THEN Passed \union {t} ELSE Passed
    BY <1>5, <1>6, <1>13 DEF Passed, Graded
  <2>4. Cardinality(Passed') = IF t \in Matches /\ ~proc.fail THEN Cardinality(Passed) + 1
                               ELSE Cardinality(Passed)
    <3>1. t \notin Passed
      BY <1>13 DEF Passed, Graded
    <3> QED BY <2>3, <3>1, <1>1, Scored, FS_AddElement
  <2>5. proc'.TOTAL = Points * Cardinality(Passed')
    <3> DEFINE c == Cardinality(Passed)
    <3>1. c \in Nat /\ Points \in Nat /\ proc.TOTAL = Points * c
      BY <1>1, <1>2, Scored, TestCount DEF ScoresOK
    <3> HIDE DEF c
    <3>2. Points * (c + 1) = Points * c + Points /\ Points * c \in Nat
      BY <3>1
    <3> QED BY <2>4, <3>1, <3>2, <1>4, <1>5 DEF c
  <2> QED BY <2>1, <2>2, <2>5, <1>1, <1>2, <1>5 DEF ScoresOK
<1>15. ExitHonest'
  BY <1>2 DEF ExitHonest
<1>16. LogsTruthful'
  <2>1. ~At("finish") /\ At("finish")'
    BY <1>2, <1>10 DEF At
  <2>2. \A q \in Matches : q # t => verdict'[q] = verdict[q]
    BY <1>6
  <2> QED BY <1>1, <1>2, <1>10, <2>1, <2>2 DEF LogsTruthful
<1> QED BY <1>7, <1>8, <1>9, <1>11, <1>12, <1>14, <1>15, <1>16 DEF GInv

(* A return leaves the calls below as they are: the one that waits for its *)
(* parent, or none.                                                        *)
LEMMA Returned ==
    ASSUME TypeOK, StackOK, Inside, proc.stack # <<>>,
           proc'.stack = Return(proc.stack)
    PROVE  /\ \A t, steps : On(t, steps)' <=> t # Top.test /\ On(t, steps)
           /\ proc'.stack \in Seq(Frames)
           /\ proc'.stack # <<>> => Top'.step = "begin"
           /\ \A i \in 1..Len(proc'.stack) : proc'.stack[i].step = "begin"
                                             /\ proc'.stack[i] = proc.stack[i]
                                             /\ i \in 1..Len(proc.stack)
           /\ StackOK'
<1> DEFINE n == Len(proc.stack)
<1>1. /\ proc'.stack \in Seq(Frames) /\ Len(proc'.stack) = n - 1
      /\ \A i \in 1..(n - 1) : proc'.stack[i] = proc.stack[i]
      /\ n \in Nat \ {0} /\ n <= 2
  BY ReturnStack, StackTypes DEF StackOK
<1>2. \A i \in 1..n : proc.stack[i].test = Top.test <=> i = n
  BY OnTop, <1>1 DEF Top
<1>3. ASSUME NEW t, NEW steps
      PROVE  On(t, steps)' <=> t # Top.test /\ On(t, steps)
  <2>1. On(t, steps)' <=>
           \E i \in 1..(n - 1) : proc.stack[i].test = t /\ proc.stack[i].step \in steps
    BY <1>1 DEF On
  <2>2. On(t, steps) <=>
           \E i \in 1..n : proc.stack[i].test = t /\ proc.stack[i].step \in steps
    BY DEF On
  <2> HIDE DEF n
  <2>3. \A i : i \in 1..(n - 1) <=> i \in 1..n /\ i # n
    BY <1>1
  <2> QED BY <2>1, <2>2, <2>3, <1>2
<1>4. \A i \in 1..(n - 1) : i = 1 /\ n = 2 /\ i \in 1..n
  <2> HIDE DEF n
  <2> QED BY <1>1
<1>5. n = 2 => proc.stack[1].step = "begin"
  BY DEF StackOK
<1>6. proc'.stack # <<>> => n = 2 /\ Top' = proc.stack[1]
  <2>1. proc'.stack # <<>> => n - 1 \in Nat \ {0}
    BY <1>1, EmptySeq
  <2>2. proc'.stack # <<>> => n = 2
    <3> HIDE DEF n
    <3> QED BY <2>1, <1>1
  <2> QED BY <2>2, <1>1 DEF Top
<1>7. StackOK'
  <2>1. Current' = Current
    BY DEF Current, Inside
  <2>2. Len(proc'.stack) <= 2 /\ Len(proc'.stack) # 2
    <3> HIDE DEF n
    <3> QED BY <1>1
  <2>3. proc'.stack # <<>> => proc'.stack[1] = proc.stack[1]
    BY <1>1, <1>6
  <2> QED BY <1>1, <2>1, <2>2, <2>3 DEF StackOK, Inside
<1> QED BY <1>1, <1>3, <1>4, <1>5, <1>6, <1>7

LEMMA FinishInv == GInv /\ Finish => GInv'
<1> SUFFICES ASSUME GInv, Finish PROVE GInv'
  OBVIOUS
<1>1. /\ TypeOK /\ StackOK /\ CompleteOK /\ RunsOK /\ ShownOK /\ CallOK
      /\ ScoresOK /\ LogsTruthful
  BY DEF GInv
<1>2. /\ proc.stack # <<>> /\ Top.step = "finish" /\ phase = "tests"
      /\ UNCHANGED <<phase, status, verdict, gradings>>
  BY DEF Finish, At
<1>3. PICK t \in Test : t = Top.test
  BY <1>1, <1>2, OnTop
<1>4. /\ proc' \in Process /\ Inside
      /\ proc'.stack = Return(proc.stack)
      /\ proc'.shown = proc.shown /\ proc'.executed = proc.executed
      /\ proc'.proc_output = proc.proc_output
      /\ proc'.TOTAL = proc.TOTAL /\ proc'.POSSIBLE = proc.POSSIBLE
  <2>1. proc' = [proc EXCEPT !.CURRENT_TEST = None, !.stack = Return(proc.stack)]
    BY <1>1 DEF Finish, TypeOK, Process
  <2>2. Return(proc.stack) \in Seq(Frames)
    BY <1>1, <1>2, ReturnStack
  <2> QED BY <2>1, <2>2, <1>1, <1>2 DEF TypeOK, Process, Inside
<1>5. logs' = IF t \in proc.on_finish
              THEN IF proc.fail THEN logs \union {t} ELSE logs \ {t}
              ELSE logs
  BY <1>3 DEF Finish, save_on_finish
<1>6. TypeOK'
  BY <1>1, <1>2, <1>4, <1>5 DEF TypeOK
<1>7. /\ \A q, steps : On(q, steps)' <=> q # t /\ On(q, steps)
      /\ proc'.stack # <<>> => Top'.step = "begin"
      /\ \A i \in 1..Len(proc'.stack) : proc'.stack[i].step = "begin"
                                        /\ proc'.stack[i] = proc.stack[i]
                                        /\ i \in 1..Len(proc.stack)
      /\ StackOK'
  BY <1>1, <1>2, <1>3, <1>4, Returned
<1>8. \A steps : On(t, steps) <=> "finish" \in steps
  BY <1>1, <1>2, <1>3, OnTop
<1>9. CompleteOK'
  <2>1. /\ \A q : ~On(q, {"enter"})
        /\ \A q \in proc.complete \intersect Matches : parent(q) \in proc.complete
    BY <1>1, <1>2, Entered
  <2>2. \A m \in 1..(proc'.next - 1) :
           TESTS[m] \in proc'.chosen => TESTS[m] \in proc'.complete
    BY <1>1, <1>4, <2>1 DEF CompleteOK, Inside
  <2>3. \A i \in 1..Len(proc'.stack) : proc'.stack[i].test \in proc'.complete
    BY <1>1, <1>4, <1>7 DEF CompleteOK, Inside
  <2> QED BY <1>1, <1>4, <2>1, <2>2, <2>3 DEF CompleteOK, Inside
<1>10. RunsOK'
  <2>1. \A q : On(q, {"begin", "fn", "hung"})' <=> On(q, {"begin", "fn", "hung"})
    BY <1>7, <1>8
  <2>2. CurrentPart' = CurrentPart
    BY <1>4 DEF CurrentPart, Current, Inside
  <2> QED BY <1>1, <1>4, <2>1, <2>2 DEF RunsOK, Inside
<1>11. ShownOK'
  <2>1. \A q : On(q, {"begin", "fn", "hung", "count", "show"})'
              <=> On(q, {"begin", "fn", "hung", "count", "show"})
    BY <1>7, <1>8
  <2> QED BY <2>1, <1>1, <1>4 DEF ShownOK, Inside
<1>12. CallOK'
  BY <1>7 DEF CallOK
<1>13. ScoresOK'
  <2>1. \A q : On(q, {"show"})' <=> On(q, {"show"})
    BY <1>7, <1>8
  <2>2. Counted' = Counted /\ Graded' = Graded /\ Passed' = Passed
    BY <2>1, <1>2, <1>4 DEF Counted, Graded, Passed
  <2> QED BY <2>2, <1>1, <1>2, <1>4 DEF ScoresOK
<1>14. ExitHonest'
  BY <1>2 DEF ExitHonest
<1>15. LogsTruthful'
  <2>1. ~At("finish")'
    BY <1>7 DEF At
  <2>2. \A q \in Matches : q # t =>
           verdict[q] = "cut" \/ (q \in logs <=> verdict[q] = "fail")
    BY <1>1, <1>3 DEF LogsTruthful
  <2>3. t \in Matches => t \in proc.on_finish /\ verdict[t] = IF proc.fail THEN "fail" ELSE "ok"
    BY <1>1, <1>2, <1>3 DEF CallOK
  <2>4. \A q \in Matches : q # t => (q \in logs' <=> q \in logs)
    BY <1>5
  <2>5. t \in Matches => (t \in logs' <=> verdict[t] = "fail")
    BY <2>3, <1>5
  <2> QED BY <1>2, <2>1, <2>2, <2>4, <2>5 DEF LogsTruthful
<1> QED BY <1>6, <1>7, <1>9, <1>10, <1>11, <1>12, <1>13, <1>14, <1>15 DEF GInv

(* The parts of the invariant an entry touches.                            *)
LEMMA EnterParts ==
    ASSUME GInv, Enter
    PROVE  /\ TypeOK' /\ StackOK' /\ CompleteOK'
           /\ \A p \in Part : On(<<p, 0>>, {"begin", "fn", "hung"})'
                    <=> \/ On(<<p, 0>>, {"begin", "fn", "hung"})
                        \/ <<p, 0>> \in proc'.complete \ proc.complete
           /\ \A q : On(q, {"begin", "fn", "hung", "count", "show"})'
                    <=> \/ On(q, {"begin", "fn", "hung", "count", "show"})
                        \/ q \in proc'.complete \ proc.complete
           /\ \A q : On(q, {"show"})' <=> On(q, {"show"})
           /\ proc'.stack # <<>> => Top'.step \in {"begin", "enter"}
           /\ proc'.complete = proc.complete \union {Top.test}
<1>1. TypeOK /\ StackOK /\ CompleteOK
  BY DEF GInv
<1>2. /\ proc.stack # <<>> /\ Top.step = "enter" /\ phase = "tests"
      /\ UNCHANGED <<phase, status, logs, verdict, gradings>>
  BY DEF Enter, At, Keep
<1>3. PICK t \in Test : t = Top.test
  BY <1>1, <1>2, OnTop
<1> DEFINE n == Len(proc.stack)
<1>4. /\ n \in {1, 2} /\ Top = proc.stack[n]
      /\ \A i \in 1..n : i = n \/ (n = 2 /\ i = 1)
      /\ n = 2 => proc.stack[1].step = "begin" /\ proc.stack[1].test = Current
      /\ n = 1 => t = Current
      /\ n \in 1..n
  <2>1. n \in Nat \ {0} /\ n <= 2
    BY <1>1, <1>2, StackTypes DEF StackOK
  <2>2. n \in {1, 2} /\ (\A i \in 1..n : i = n \/ (n = 2 /\ i = 1)) /\ n \in 1..n
    <3> HIDE DEF n
    <3> QED BY <2>1
  <2>3. Top = proc.stack[n]
    BY DEF Top
  <2> QED BY <1>1, <1>2, <1>3, <2>2, <2>3 DEF StackOK
<1>5. /\ \A steps : On(t, steps) <=> "enter" \in steps
      /\ \A q : On(q, {"enter"}) => q = t
      /\ t = Current \/ (Current \in Matches /\ t = parent(Current))
      /\ t \in Matches => n = 1
      /\ Current \in proc.chosen /\ Current \in Test /\ Current \in {TESTS[proc.next - 1]}
  <2>1. \A steps : On(t, steps) <=> "enter" \in steps
    BY <1>1, <1>2, <1>3, OnTop
  <2>2. \A q : On(q, {"enter"}) => q = t
    BY <1>3, <1>4 DEF On
  <2> QED BY <1>1, <1>2, <1>3, <2>1, <2>2, OnTop, TopPart DEF StackOK, Current
<1>6. \A q \in proc.complete \intersect Matches : parent(q) \in proc.complete \union {t}
  BY <1>1, <1>5 DEF CompleteOK
<1>7. \A m \in 1..(proc.next - 1) :
         TESTS[m] \in proc.chosen => TESTS[m] \in proc.complete \union {t}
  BY <1>1, <1>5 DEF CompleteOK
<1>8. t \in proc.chosen \/ \E c \in proc.chosen \intersect Matches : t = parent(c)
  BY <1>5
<1>9. CASE t \in proc.complete
  <2>1. /\ proc' \in Process /\ Inside /\ proc'.stack = Return(proc.stack)
    <3>1. proc' = [proc EXCEPT !.stack = Return(proc.stack)]
      BY <1>1, <1>3, <1>9 DEF Enter, TypeOK, Process
    <3>2. Return(proc.stack) \in Seq(Frames)
      BY <1>1, <1>2, ReturnStack
    <3> QED BY <3>1, <3>2, <1>1, <1>2 DEF TypeOK, Process, Inside
  <2>2. /\ \A q, steps : On(q, steps)' <=> q # t /\ On(q, steps)
        /\ proc'.stack # <<>> => Top'.step = "begin"
        /\ \A i \in 1..Len(proc'.stack) : proc'.stack[i].step = "begin"
                                          /\ proc'.stack[i] = proc.stack[i]
                                          /\ i \in 1..Len(proc.stack)
        /\ StackOK'
    BY <1>1, <1>2, <1>3, <2>1, Returned
  <2>3. TypeOK'
    BY <1>1, <1>2, <2>1 DEF TypeOK
  <2>4. proc'.complete = proc.complete /\ proc.complete \union {t} = proc.complete
    BY <1>9, <2>1 DEF Inside
  <2>5. CompleteOK'
    <3>1. \A i \in 1..Len(proc'.stack) : proc'.stack[i].test \in proc'.complete
      BY <1>1, <2>2, <2>4 DEF CompleteOK
    <3> QED BY <3>1, <1>1, <1>6, <1>7, <2>1, <2>4 DEF CompleteOK, Inside
  <2> QED BY <1>3, <1>5, <2>2, <2>3, <2>4, <2>5
<1>10. CASE t \notin proc.complete /\ t \notin Matches
  <2>1. /\ proc' \in Process /\ proc'.complete = proc.complete \union {t}
        /\ proc'.stack = Goto(proc.stack, "begin")
        /\ proc'.next = proc.next /\ proc'.chosen = proc.chosen
    <3>1. proc' = [proc EXCEPT !.complete = proc.complete \union {t},
                              !.stack = Goto(proc.stack, "begin")]
      <4>1. parent(Top.test) = None
        BY <1>3, <1>10, ParentOf
      <4> QED BY <4>1, <1>1, <1>3, <1>10 DEF Enter, TypeOK, Process, CallParent
    <3>2. Goto(proc.stack, "begin") \in Seq(Frames)
      BY <1>1, <1>2, GotoStack DEF CallSteps
    <3> QED BY <3>1, <3>2, <1>1 DEF TypeOK, Process
  <2>2. /\ \A q, steps : On(q, steps)' <=> IF q = t THEN "begin" \in steps ELSE On(q, steps)
        /\ Len(proc'.stack) = n /\ Top'.step = "begin"
        /\ \A i \in 1..n : proc'.stack[i].test = proc.stack[i].test
        /\ \A i \in 1..n : proc'.stack[i].step = IF i = n THEN "begin" ELSE proc.stack[i].step
    BY <1>1, <1>2, <1>3, <2>1, OnMoved, GotoStack DEF CallSteps
  <2>3. TypeOK'
    BY <1>1, <1>2, <2>1 DEF TypeOK
  <2>4. StackOK'
    <3>1. Current' = Current
      BY <2>1 DEF Current
    <3>2. n = 2 => proc'.stack[1].step = "begin"
      BY <1>4, <2>2
    <3> QED BY <3>1, <3>2, <1>1, <1>2, <1>4, <2>1, <2>2 DEF StackOK
  <2>5. CompleteOK'
    <3>1. \A i \in 1..n : proc'.stack[i].test \in proc'.complete
      <4>1. n = 2 => proc.stack[1].test \in proc.complete
        BY <1>1, <1>4 DEF CompleteOK
      <4> QED BY <4>1, <1>3, <1>4, <2>1, <2>2
    <3> QED BY <3>1, <1>1, <1>6, <1>7, <1>8, <1>10, <2>1, <2>2 DEF CompleteOK
  <2> QED BY <1>3, <1>5, <1>10, <2>1, <2>2, <2>3, <2>4, <2>5
<1>11. CASE t \notin proc.complete /\ t \in Matches
  <2>9. PICK u \in Test : u = parent(t)
    BY <1>11, ParentOf
  <2>1. n = 1 /\ t = Current /\ u # None /\ u \in Test \ Matches /\ u # t
    BY <2>9, <1>4, <1>5, <1>11, ParentOf
  <2>2. /\ proc' \in Process /\ proc'.complete = proc.complete \union {t}
        /\ proc'.next = proc.next /\ proc'.chosen = proc.chosen
        /\ Len(proc'.stack) = 2
        /\ proc'.stack[1].test = t /\ proc'.stack[1].step = "begin"
        /\ proc'.stack[2].test = u /\ proc'.stack[2].step = "enter"
    <3>1. /\ CallParent(t, proc.stack) \in Seq(Frames)
          /\ Len(CallParent(t, proc.stack)) = 1 + 1
          /\ CallParent(t, proc.stack)[1].test = proc.stack[1].test
          /\ CallParent(t, proc.stack)[1].step = "begin"
          /\ CallParent(t, proc.stack)[1 + 1] = Frame(u)
      BY <1>1, <1>2, <1>3, <2>1, <2>9, CallParentStack
    <3>2. proc.stack[1].test = t
      BY <1>3, <1>4, <2>1
    <3>3. proc' = [proc EXCEPT !.complete = proc.complete \union {t},
                              !.stack = CallParent(t, proc.stack)]
      BY <1>1, <1>3, <1>11 DEF Enter, TypeOK, Process
    <3>4. Frame(u).test = u /\ Frame(u).step = "enter"
      BY DEF Frame
    <3> HIDE DEF n
    <3>5. proc'.stack = CallParent(t, proc.stack) /\ 1 + 1 = 2
      BY <3>3, <1>1 DEF TypeOK, Process
    <3>6. /\ proc' \in Process /\ proc'.complete = proc.complete \union {t}
          /\ proc'.next = proc.next /\ proc'.chosen = proc.chosen
      BY <3>1, <3>3, <1>1 DEF TypeOK, Process
    <3> QED BY <3>1, <3>2, <3>4, <3>5, <3>6
  <2>3. \A q, steps : On(q, steps)' <=> \/ q = t /\ "begin" \in steps
                                        \/ q = u /\ "enter" \in steps
    <3>1. \A i : i \in 1..2 <=> i = 1 \/ i = 2
      OBVIOUS
    <3> QED BY <3>1, <2>2 DEF On
  <2>4. \A q, steps : On(q, steps) <=> q = t /\ "enter" \in steps
    <3>1. \A i : i \in 1..1 <=> i = 1
      OBVIOUS
    <3>2. proc.stack[1].test = t /\ proc.stack[1].step = "enter"
      BY <1>2, <1>3, <1>4, <2>1
    <3> QED BY <3>1, <3>2, <2>1 DEF On
  <2>5. TypeOK'
    BY <1>1, <1>2, <2>2 DEF TypeOK
  <2>6. StackOK'
    <3>1. Current' = Current
      BY <2>2 DEF Current
    <3> QED BY <3>1, <1>1, <1>2, <1>11, <2>1, <2>2, <2>9 DEF StackOK
  <2>7. CompleteOK'
    <3>1. \A i \in 1..Len(proc'.stack) :
             proc'.stack[i].step # "enter" => proc'.stack[i].test \in proc'.complete
      BY <2>2
    <3>2. \A q \in proc.complete \intersect Matches : parent(q) \in proc.complete
      BY <1>1, <2>4, ParentOf DEF CompleteOK, TypeOK, Process
    <3>3. \A q \in proc'.complete \intersect Matches :
             parent(q) \in proc'.complete \/ (On(q, {"begin"})' /\ On(parent(q), {"enter"})')
      <4>1. On(t, {"begin"})' /\ On(u, {"enter"})'
        BY <2>3
      <4> QED BY <3>2, <4>1, <2>2, <2>9
    <3> QED BY <3>1, <3>3, <1>1, <1>7, <1>8, <2>2 DEF CompleteOK
  <2>8. Top'.step = "enter" /\ u \notin Matches
    BY <2>1, <2>2 DEF Top
  <2> QED BY <1>3, <1>11, <2>2, <2>3, <2>4, <2>5, <2>6, <2>7, <2>8
<1> QED BY <1>9, <1>10, <1>11

LEMMA EnterInv == GInv /\ Enter => GInv'
<1> SUFFICES ASSUME GInv, Enter PROVE GInv'
  OBVIOUS
<1>1. /\ TypeOK /\ StackOK /\ CompleteOK /\ RunsOK /\ ShownOK /\ CallOK
      /\ ScoresOK /\ LogsTruthful
  BY DEF GInv
<1>2. /\ proc.stack # <<>> /\ Top.step = "enter" /\ phase = "tests"
      /\ UNCHANGED <<phase, status, logs, verdict, gradings>>
  BY DEF Enter, At, Keep
<1>3. PICK t \in Test : t = Top.test /\ t[1] <= CurrentPart /\ t[1] \in Part
  <2>1. Top.test[1] = CurrentPart /\ CurrentPart \in Part /\ Top.test \in Test
    BY <1>1, <1>2, OnTop, TopPart
  <2>2. CurrentPart <= CurrentPart
    BY <2>1, TestCount DEF Part
  <2> QED BY <2>1, <2>2
<1>4. /\ proc'.shown = proc.shown /\ proc'.executed = proc.executed
      /\ proc'.proc_output = proc.proc_output
      /\ proc'.TOTAL = proc.TOTAL /\ proc'.POSSIBLE = proc.POSSIBLE
      /\ proc'.next = proc.next
  BY <1>1 DEF Enter, TypeOK, Process
<1>5. /\ TypeOK' /\ StackOK' /\ CompleteOK'
      /\ \A p \in Part : On(<<p, 0>>, {"begin", "fn", "hung"})'
               <=> \/ On(<<p, 0>>, {"begin", "fn", "hung"})
                   \/ <<p, 0>> \in proc'.complete \ proc.complete
      /\ \A q : On(q, {"begin", "fn", "hung", "count", "show"})'
               <=> \/ On(q, {"begin", "fn", "hung", "count", "show"})
                   \/ q \in proc'.complete \ proc.complete
      /\ \A q : On(q, {"show"})' <=> On(q, {"show"})
      /\ proc'.stack # <<>> => Top'.step \in {"begin", "enter"}
      /\ proc'.complete = proc.complete \union {t}
  BY EnterParts, <1>3
<1>6. RunsOK'
  <2>1. CurrentPart' = CurrentPart
    BY <1>4 DEF CurrentPart, Current
  <2>2. \A p \in Part :
         proc'.executed[p] =
             IF <<p, 0>> \in proc'.complete /\ ~On(<<p, 0>>, {"begin", "fn", "hung"})'
             THEN 1 ELSE 0
    BY <1>1, <1>4, <1>5 DEF RunsOK
  <2>3. \A q \in proc'.complete : q[1] <= CurrentPart
    BY <1>1, <1>3, <1>5 DEF RunsOK
  <2> QED BY <1>1, <1>4, <2>1, <2>2, <2>3 DEF RunsOK
<1>7. ShownOK'
  BY <1>1, <1>4, <1>5 DEF ShownOK
<1>8. CallOK'
  BY <1>5 DEF CallOK
<1>9. ScoresOK'
  <2>1. Counted' = Counted /\ Graded' = Graded /\ Passed' = Passed
    BY <1>2, <1>4, <1>5 DEF Counted, Graded, Passed
  <2> QED BY <2>1, <1>1, <1>2, <1>4 DEF ScoresOK
<1>10. ExitHonest'
  BY <1>2 DEF ExitHonest
<1>11. LogsTruthful'
  <2>1. ~At("finish")
    BY <1>2 DEF At
  <2> QED BY <2>1, <1>1, <1>2 DEF LogsTruthful
<1> QED BY <1>5, <1>6, <1>7, <1>8, <1>9, <1>10, <1>11 DEF GInv

(* With an empty stack no test is in a call.                               *)
LEMMA NoCalls ==
    ASSUME proc.stack = <<>>
    PROVE  \A t, steps : ~On(t, steps)
<1>1. Len(proc.stack) = 0
  OBVIOUS
<1>2. \A i : i \notin 1..0
  OBVIOUS
<1> QED BY <1>1, <1>2 DEF On

LEMMA NextTestInv == GInv /\ NextTest => GInv'
<1> SUFFICES ASSUME GInv, NextTest PROVE GInv'
  OBVIOUS
<1>1. /\ TypeOK /\ StackOK /\ CompleteOK /\ RunsOK /\ ShownOK /\ CallOK
      /\ ScoresOK /\ LogsTruthful
  BY DEF GInv
<1>2. /\ proc.stack = <<>> /\ phase = "tests" /\ proc.next <= Len(TESTS)
      /\ UNCHANGED <<phase, status, logs, verdict, gradings>>
  BY DEF NextTest
<1>3. /\ proc.next \in 1..Cardinality(Test)
      /\ proc.next + 1 \in 2..(Cardinality(Test) + 1)
      /\ proc.next + 1 - 1 = proc.next /\ proc.next + 1 > 1
  BY <1>1, <1>2, TestCount, TestsInOrder DEF TypeOK, Process
<1>4. PICK t \in Test : t = TESTS[proc.next]
  BY <1>3, TestsInOrder
<1> DEFINE S == IF t \in proc.chosen THEN <<Frame(t)>> ELSE <<>>
<1>5. /\ S \in Seq(Frames)
      /\ t \notin proc.chosen => S = <<>> /\ Len(S) = 0
      /\ t \in proc.chosen => Len(S) = 1 /\ S[1].test = t /\ S[1].step = "enter"
  <2>1. <<>> \in Seq(Frames) /\ Len(<<>>) = 0
    BY EmptySeq
  <2> QED BY <2>1, OneFrame
<1>6. /\ proc' \in Process /\ proc'.stack = S /\ proc'.next = proc.next + 1
      /\ proc'.chosen = proc.chosen /\ proc'.complete = proc.complete
      /\ proc'.shown = proc.shown /\ proc'.executed = proc.executed
      /\ proc'.proc_output = proc.proc_output
      /\ proc'.TOTAL = proc.TOTAL /\ proc'.POSSIBLE = proc.POSSIBLE
  <2> DEFINE m == proc.next + 1
  <2>1. proc' = [proc EXCEPT !.next = m, !.stack = S]
    BY <1>1, <1>4 DEF NextTest, TypeOK, Process
  <2>2. m \in 1..(Cardinality(Test) + 1)
    BY <1>3, TestCount
  <2> HIDE DEF m, S
  <2>3. /\ proc' \in Process /\ proc'.stack = S /\ proc'.next = m
        /\ proc'.chosen = proc.chosen /\ proc'.complete = proc.complete
        /\ proc'.shown = proc.shown /\ proc'.executed = proc.executed
        /\ proc'.proc_output = proc.proc_output
        /\ proc'.TOTAL = proc.TOTAL /\ proc'.POSSIBLE = proc.POSSIBLE
    BY <2>1, <2>2, <1>1, <1>5 DEF TypeOK, Process
  <2> QED BY <2>3 DEF m
<1> HIDE DEF S
<1>7. \A i : i \in 1..Len(proc'.stack) => i = 1 /\ t \in proc.chosen
  <2>1. \A i : (i \in 1..1 => i = 1) /\ i \notin 1..0
    OBVIOUS
  <2> QED BY <2>1, <1>5, <1>6
<1>8. /\ \A q, steps : ~On(q, steps)
      /\ \A q, steps : On(q, steps)' <=> t \in proc.chosen /\ q = t /\ "enter" \in steps
  <2>1. 1 \in 1..1
    OBVIOUS
  <2>2. \A q, steps : On(q, steps)' <=> t \in proc.chosen /\ q = t /\ "enter" \in steps
    BY <2>1, <1>5, <1>6, <1>7 DEF On
  <2> QED BY <2>2, <1>2, NoCalls
<1>9. TypeOK'
  BY <1>1, <1>2, <1>6 DEF TypeOK
<1>10. StackOK'
  <2>1. Current' = t
    BY <1>3, <1>4, <1>6 DEF Current
  <2>2. Len(proc'.stack) <= 2 /\ Len(proc'.stack) # 2
    <3> DEFINE k == Len(proc'.stack)
    <3>1. k = 0 \/ k = 1
      BY <1>5, <1>6
    <3> HIDE DEF k
    <3>2. k <= 2 /\ k # 2
      BY <3>1
    <3> QED BY <3>2 DEF k
  <2>3. proc'.stack # <<>> => t \in proc.chosen /\ proc'.stack[1].test = t
    BY <1>5, <1>6
  <2> QED BY <1>2, <1>3, <1>6, <2>1, <2>2, <2>3 DEF StackOK
<1>11. CompleteOK'
  <2>1. \A m \in 1..(proc'.next - 1) :
           TESTS[m] \in proc'.chosen => TESTS[m] \in proc'.complete \/ On(TESTS[m], {"enter"})'
    <3> SUFFICES ASSUME NEW m \in 1..(proc'.next - 1), TESTS[m] \in proc'.chosen
                 PROVE  TESTS[m] \in proc'.complete \/ On(TESTS[m], {"enter"})'
      OBVIOUS
    <3>1. CASE m = proc.next
      BY <3>1, <1>4, <1>6, <1>8
    <3>2. CASE m # proc.next
      <4>1. m \in 1..(proc.next - 1)
        BY <3>2, <1>3, <1>6, TestCount
      <4> QED BY <4>1, <1>1, <1>6, <1>8 DEF CompleteOK
    <3> QED BY <3>1, <3>2
  <2>2. \A i \in 1..Len(proc'.stack) : proc'.stack[i].step = "enter"
    BY <1>5, <1>6, <1>7
  <2>3. \A q \in proc.complete \intersect Matches : parent(q) \in proc.complete
    BY <1>1, <1>8 DEF CompleteOK
  <2> QED BY <2>1, <2>2, <2>3, <1>1, <1>6 DEF CompleteOK
<1>12. RunsOK'
  <2>1. CurrentPart' = t[1] /\ t[1] \in Part
    BY <1>3, <1>4, <1>6, ParentOf DEF CurrentPart, Current
  <2>2. CurrentPart \in Nat /\ CurrentPart <= t[1] /\ t[1] \in Nat
    <3>0. t[1] \in Nat /\ t[1] >= 1
      BY <2>1, TestCount DEF Part
    <3>1. CASE proc.next = 1
      BY <3>0, <3>1 DEF CurrentPart
    <3>2. CASE proc.next # 1
      <4> DEFINE m == proc.next - 1
      <4>1. m \in 1..(Cardinality(Test) - 1) /\ m + 1 = proc.next
            /\ m \in 1..Cardinality(Test)
        BY <3>2, <1>3, TestCount
      <4>2. TESTS[m][1] <= TESTS[m + 1][1] /\ TESTS[m] \in Test
        BY <4>1, TestsInOrder
      <4>3. CurrentPart = TESTS[m][1]
        BY <3>2 DEF CurrentPart, Current
      <4>4. TESTS[m][1] \in Nat
        BY <4>2, ParentOf, TestCount DEF Part
      <4> QED BY <4>1, <4>2, <4>3, <4>4, <3>0, <1>4
    <3> QED BY <3>1, <3>2
  <2>3. \A q \in proc.complete : q[1] <= t[1]
    <3> SUFFICES ASSUME NEW q \in proc.complete PROVE q[1] <= t[1]
      OBVIOUS
    <3>1. q \in Test /\ q[1] <= CurrentPart
      BY <1>1 DEF TypeOK, Process, RunsOK
    <3>2. q[1] \in Nat
      BY <3>1, ParentOf, TestCount DEF Part
    <3> QED BY <3>1, <3>2, <2>2
  <2>4. proc.proc_output.part <= t[1]
    <3>1. proc.proc_output.part \in Nat /\ proc.proc_output.part <= CurrentPart
      BY <1>1, TestCount DEF TypeOK, Process, RunsOK
    <3> QED BY <3>1, <2>2
  <2>5. \A q : On(q, {"begin", "fn", "hung"})' <=> On(q, {"begin", "fn", "hung"})
    BY <1>8
  <2> QED BY <1>1, <1>6, <2>1, <2>3, <2>4, <2>5 DEF RunsOK
<1>13. ShownOK'
  <2>1. \A q : ~On(q, {"begin", "fn", "hung", "count", "show"})'
              /\ ~On(q, {"begin", "fn", "hung", "count", "show"})
    BY <1>8
  <2> QED BY <2>1, <1>1, <1>6 DEF ShownOK
<1>14. proc'.stack # <<>> => Top'.step = "enter"
  BY <1>5, <1>6 DEF Top
<1>15. CallOK'
  BY <1>14 DEF CallOK
<1>16. ScoresOK'
  <2>1. \A q : ~On(q, {"show"})' /\ ~On(q, {"show"})
    BY <1>8
  <2>2. Counted' = Counted /\ Graded' = Graded /\ Passed' = Passed
    BY <2>1, <1>2, <1>6 DEF Counted, Graded, Passed
  <2> QED BY <2>2, <1>1, <1>2, <1>6 DEF ScoresOK
<1>17. ExitHonest'
  BY <1>2 DEF ExitHonest
<1>18. LogsTruthful'
  <2>1. ~At("finish")
    BY <1>2 DEF At
  <2> QED BY <2>1, <1>1, <1>2 DEF LogsTruthful
<1> QED BY <1>9, <1>10, <1>11, <1>12, <1>13, <1>15, <1>16, <1>17, <1>18 DEF GInv

(* Only when everything counted has passed does TOTAL reach POSSIBLE.      *)
LEMMA AllPassed ==
    ASSUME TypeOK, ScoresOK, phase = "tests"
    PROVE  proc.TOTAL < proc.POSSIBLE <=> Passed # Counted
<1> DEFINE p == Cardinality(Passed)
           c == Cardinality(Counted)
<1>1. /\ p \in Nat /\ c \in Nat /\ Points \in Nat \ {0}
      /\ proc.TOTAL = Points * p /\ proc.POSSIBLE = Points * c
  BY Scored, TestCount DEF ScoresOK
<1>2. p <= c /\ (p = c => Passed = Counted) /\ (Passed = Counted => p = c)
  <2>1. Passed \subseteq Counted /\ IsFiniteSet(Counted)
    BY Scored
  <2> QED BY <2>1, FS_Subset
<1> HIDE DEF p, c
<1>3. p < c => Points * p < Points * c
  <2> SUFFICES ASSUME p < c PROVE Points * p < Points * c
    OBVIOUS
  <2>1. PICK d \in Nat : c = p + 1 + d
    BY <1>1
  <2>2. Points * c = Points * p + Points + Points * d
        /\ Points * p \in Nat /\ Points * d \in Nat
    BY <1>1, <2>1
  <2> QED BY <1>1, <2>2
<1>4. p < c \/ p = c
  BY <1>1, <1>2
<1>5. CASE p < c
  BY <1>1, <1>2, <1>3, <1>5
<1>6. CASE p = c
  <2>1. Points * p \in Nat /\ Points * p = Points * c
    BY <1>1, <1>6
  <2> QED BY <1>1, <1>2, <1>6, <2>1
<1> QED BY <1>4, <1>5, <1>6

(* These parts of the invariant are about the process alone.               *)
LEMMA SameProcess ==
    ASSUME UNCHANGED proc
    PROVE  /\ \A t, steps : On(t, steps)' <=> On(t, steps)
           /\ CompleteOK => CompleteOK'
           /\ RunsOK => RunsOK'
           /\ ShownOK => ShownOK'
<1>1. \A t, steps : On(t, steps)' <=> On(t, steps)
  BY DEF On
<1>2. CompleteOK => CompleteOK'
  BY <1>1 DEF CompleteOK
<1>3. RunsOK => RunsOK'
  <2>1. CurrentPart' = CurrentPart
    BY DEF CurrentPart, Current
  <2> QED BY <1>1, <2>1 DEF RunsOK
<1>4. ShownOK => ShownOK'
  BY <1>1 DEF ShownOK
<1> QED BY <1>1, <1>2, <1>3, <1>4

(* A grading that ends leaves no call on the stack.                        *)
LEMMA ExitInv == GInv /\ Exit => GInv'
<1> SUFFICES ASSUME GInv, Exit PROVE GInv'
  OBVIOUS
<1>1. /\ TypeOK /\ StackOK /\ CompleteOK /\ RunsOK /\ ShownOK /\ CallOK
      /\ ScoresOK /\ LogsTruthful
  BY DEF GInv
<1>2. /\ proc.stack = <<>> /\ phase = "tests" /\ proc.next > Len(TESTS)
      /\ phase' = "done" /\ UNCHANGED <<proc, logs, verdict, gradings>>
      /\ status' = IF proc.TOTAL < proc.POSSIBLE THEN 1 ELSE 0
  BY DEF Exit, ExitStatus
<1>3. proc.next = Cardinality(Test) + 1
  <2> DEFINE K == Cardinality(Test)
             n == proc.next
  <2>1. K \in Nat /\ n \in 1..(K + 1) /\ n > K
    BY <1>1, <1>2, TestCount, TestsInOrder DEF TypeOK, Process
  <2> HIDE DEF K, n
  <2>2. n = K + 1
    BY <2>1
  <2> QED BY <2>2 DEF K, n
<1>4. TypeOK'
  BY <1>1, <1>2 DEF TypeOK, Over
<1>5. StackOK'
  BY <1>1, <1>2, <1>3 DEF StackOK, Current
<1>6. CompleteOK' /\ RunsOK' /\ ShownOK'
  BY <1>1, <1>2, SameProcess
<1>7. CallOK'
  BY <1>2 DEF CallOK
<1>8. ScoresOK'
  BY <1>1, <1>2 DEF ScoresOK, Counted, Graded, Passed, On
<1>9. ExitHonest'
  <2>1. Counted = Graded
    BY <1>2, NoCalls DEF Counted
  <2>2. proc.TOTAL < proc.POSSIBLE <=> Passed # Graded
    BY <1>1, <1>2, <2>1, AllPassed
  <2>3. \A t \in Graded : verdict[t] \in {"ok", "fail"}
    BY <1>1, <1>2 DEF ScoresOK
  <2>4. proc.TOTAL < proc.POSSIBLE <=> Failed # {}
    BY <2>2, <2>3 DEF Passed, Failed
  <2> QED BY <1>2, <2>4 DEF ExitHonest, Failed, Graded
<1>10. LogsTruthful'
  BY <1>1, <1>2 DEF LogsTruthful, At
<1> QED BY <1>4, <1>5, <1>6, <1>7, <1>8, <1>9, <1>10 DEF GInv

(* A Ctrl-C leaves the stack and the globals where they are.               *)
LEMMA InterruptInv == GInv /\ Interrupt => GInv'
<1> SUFFICES ASSUME GInv, Interrupt PROVE GInv'
  OBVIOUS
<1>1. /\ TypeOK /\ StackOK /\ CompleteOK /\ RunsOK /\ ShownOK /\ CallOK
      /\ ScoresOK /\ LogsTruthful
  BY DEF GInv
<1>2. /\ phase = "tests" /\ phase' = "interrupted"
      /\ UNCHANGED <<proc, logs, gradings>>
      /\ status' = IF proc.TOTAL < proc.POSSIBLE THEN 1 ELSE 0
      /\ verdict' = [t \in Matches |->
                        IF At("finish") /\ Top.test = t THEN "cut" ELSE verdict[t]]
  BY DEF Interrupt, ExitStatus
<1>3. TypeOK'
  BY <1>1, <1>2 DEF TypeOK, Over
<1>4. StackOK'
  BY <1>1, <1>2 DEF StackOK, Current
<1>5. CompleteOK' /\ RunsOK' /\ ShownOK'
  BY <1>1, <1>2, SameProcess
<1>6. CallOK'
  BY <1>1, <1>2 DEF CallOK, Top
<1>7. ScoresOK'
  BY <1>2 DEF ScoresOK
<1>8. ExitHonest'
  <2>1. ~(proc.TOTAL < proc.POSSIBLE) => Passed = Graded
    BY <1>1, <1>2, Scored, AllPassed
  <2>2. \A t \in Graded : verdict'[t] = "fail" => verdict[t] = "fail"
    BY <1>2 DEF Graded
  <2>3. ~(proc.TOTAL < proc.POSSIBLE) => \A t \in Graded : verdict[t] = "ok"
    BY <2>1 DEF Passed
  <2> QED BY <1>2, <2>2, <2>3 DEF ExitHonest, Graded
<1>9. LogsTruthful'
  BY <1>1, <1>2 DEF LogsTruthful
<1> QED BY <1>3, <1>4, <1>5, <1>6, <1>7, <1>8, <1>9 DEF GInv

(* Before the first test there is nothing to undo.                         *)
LEMMA makeInv == GInv /\ make => GInv'
<1> SUFFICES ASSUME GInv, make PROVE GInv'
  OBVIOUS
<1>1. /\ TypeOK /\ StackOK /\ CompleteOK /\ RunsOK /\ ShownOK /\ CallOK
      /\ ScoresOK /\ LogsTruthful
  BY DEF GInv
<1>2. /\ phase = "make" /\ phase' \in {"tests", "no build", "interrupted"}
      /\ UNCHANGED <<proc, logs, verdict, gradings>>
      /\ status' = status \/ status' = 1
      /\ phase' \in {"done", "interrupted"} => status' = 1
  BY DEF make
<1>3. proc.stack = <<>>
  BY <1>1, <1>2 DEF StackOK
<1>4. TypeOK'
  BY <1>1, <1>2 DEF TypeOK, Over
<1>5. StackOK'
  BY <1>1, <1>2 DEF StackOK, Current
<1>6. CompleteOK' /\ RunsOK' /\ ShownOK'
  BY <1>1, <1>2, SameProcess
<1>7. CallOK'
  BY <1>2, <1>3 DEF CallOK
<1>8. ScoresOK'
  BY <1>1, <1>2 DEF ScoresOK, Counted, Graded, Passed, On
<1>9. ExitHonest'
  <2>1. phase' # "done"
    BY <1>2
  <2>2. phase' = "interrupted" => status' # 0
    BY <1>2
  <2> QED BY <2>1, <2>2 DEF ExitHonest
<1>10. LogsTruthful'
  BY <1>1, <1>2 DEF LogsTruthful, At
<1> QED BY <1>4, <1>5, <1>6, <1>7, <1>8, <1>9, <1>10 DEF GInv

(* A new process satisfies what the invariant says of processes.           *)
FreshProcess == \E chosen \in SUBSET Test : proc = Fresh(chosen)
ProcessOK ==
    /\ proc \in Process /\ proc.stack = <<>> /\ proc.shown = {}
    /\ StackOK /\ CompleteOK /\ RunsOK /\ ShownOK /\ CallOK /\ ScoresOK
LEMMA FreshOK ==
    FreshProcess /\ phase # "done" => ProcessOK
<1> SUFFICES ASSUME NEW c \in SUBSET Test, proc = Fresh(c), phase # "done"
             PROVE  ProcessOK
  BY DEF FreshProcess
<1>1. /\ proc.stack = <<>> /\ proc.shown = {} /\ proc.complete = {} /\ proc.next = 1
      /\ proc.TOTAL = 0 /\ proc.POSSIBLE = 0 /\ proc.proc_output.part = 0
      /\ proc.executed = [p \in Part |-> 0]
      /\ Len(proc.stack) = 0 /\ \A i : i \notin 1..0
  BY DEF Fresh
<1>2. proc \in Process
  BY TestCount, EmptySeq DEF Fresh, Process
<1>3. StackOK
  BY <1>1 DEF StackOK
<1>4. CompleteOK
  BY <1>1 DEF CompleteOK
<1>5. \A t, steps : ~On(t, steps)
  BY <1>1, NoCalls
<1>6. RunsOK
  BY <1>1, <1>5 DEF RunsOK, CurrentPart
<1>7. ShownOK
  BY <1>1 DEF ShownOK
<1>8. CallOK
  BY <1>1 DEF CallOK
<1>9. ScoresOK
  <2>1. Counted = {} /\ Graded = {} /\ Passed = {}
    BY <1>1, <1>5 DEF Counted, Graded, Passed
  <2> QED BY <1>1, <2>1, TestCount, FS_EmptySet DEF ScoresOK
<1> QED BY <1>1, <1>2, <1>3, <1>4, <1>6, <1>7, <1>8, <1>9 DEF ProcessOK

LEMMA StartGradingInv == GInv /\ StartGrading => GInv'
<1> SUFFICES ASSUME GInv, StartGrading PROVE GInv'
  OBVIOUS
<1>1. TypeOK /\ LogsTruthful
  BY DEF GInv
<1>2. /\ phase \in Over \union {"shell"} /\ phase' = "make"
      /\ gradings < MaxGradings /\ gradings' = gradings + 1
      /\ UNCHANGED <<status, logs, verdict>>
  BY DEF StartGrading
<1>3. FreshProcess' /\ phase' # "done"
  BY <1>2 DEF StartGrading, FreshProcess
<1>4. ProcessOK'
  <2>1. (FreshProcess /\ phase # "done" => ProcessOK)'
    BY FreshOK, PTL
  <2> QED BY <1>3, <2>1
<1>5. TypeOK'
  <2>1. gradings' \in 0..MaxGradings
    BY <1>1, <1>2, GradeAssumption DEF TypeOK
  <2> QED BY <2>1, <1>1, <1>2, <1>4 DEF TypeOK, ProcessOK
<1>6. ExitHonest'
  BY <1>2 DEF ExitHonest
<1>7. LogsTruthful'
  <2>1. ~At("finish")
    BY <1>2 DEF At, Over
  <2> QED BY <1>1, <1>2, <2>1 DEF LogsTruthful
<1> QED BY <1>4, <1>5, <1>6, <1>7 DEF GInv, ProcessOK

LEMMA InitInv == Init => GInv
<1> SUFFICES ASSUME Init PROVE GInv
  OBVIOUS
<1>1. /\ phase = "shell" /\ proc = Fresh({}) /\ status = 0 /\ logs = {}
      /\ verdict = [t \in Matches |-> "none"] /\ gradings = 0
  BY DEF Init
<1>2. FreshProcess /\ phase # "done"
  BY <1>1 DEF FreshProcess
<1>3. TypeOK
  BY <1>1, <1>2, FreshOK, GradeAssumption DEF TypeOK, ProcessOK
<1>4. ExitHonest /\ LogsTruthful
  BY <1>1 DEF ExitHonest, LogsTruthful
<1> QED BY <1>2, <1>3, <1>4, FreshOK DEF GInv, ProcessOK
-----------------------------------------------------------------------------
LEMMA NextInv == GInv /\ [Next]_vars => GInv'
<1> SUFFICES ASSUME GInv, [Next]_vars PROVE GInv'
  OBVIOUS
<1>1. CASE StartGrading
  BY <1>1, StartGradingInv
<1>2. CASE make
  BY <1>2, makeInv
<1>3. CASE NextTest
  BY <1>3, NextTestInv
<1>4. CASE run_test
  BY <1>4, EnterInv, BeginInv, RunProgramInv, matchInv, CountInv, ShowInv, FinishInv
     DEF run_test
<1>5. CASE Exit
  BY <1>5, ExitInv
<1>6. CASE Interrupt
  BY <1>6, InterruptInv
<1>7. CASE UNCHANGED vars
  <2>1. UNCHANGED <<phase, proc, status, logs, verdict, gradings>>
    BY <1>7 DEF vars
  <2>2. TypeOK' /\ StackOK' /\ CallOK'
    BY <2>1 DEF GInv, TypeOK, StackOK, CallOK, Current, Top
  <2>3. CompleteOK' /\ RunsOK' /\ ShownOK'
    BY <2>1, SameProcess DEF GInv
  <2>4. ScoresOK'
    BY <2>1 DEF GInv, ScoresOK, Counted, Graded, Passed, On
  <2>5. ExitHonest' /\ LogsTruthful'
    BY <2>1 DEF GInv, ExitHonest, LogsTruthful, At, Top
  <2> QED BY <2>2, <2>3, <2>4, <2>5 DEF GInv
<1> QED BY <1>1, <1>2, <1>3, <1>4, <1>5, <1>6, <1>7 DEF Next, Step

(* GInv is an inductive invariant of gradelib.py: what the call stack, the *)
(* flags complete, the scores and the files are to each other between any  *)
(* two steps, for any number of programs, matchtests and gradings.         *)
THEOREM Invariance == Spec => []GInv
<1> QED BY InitInv, NextInv, PTL DEF Spec

(* A matchtest is judged by the output of its own part's program, and      *)
(* match registers its callback for the test it is about: the parent's     *)
(* call was over before CURRENT_TEST was set, and no program has run since.*)
THEOREM JudgedByOwnOutput == Spec => []OwnOutput
<1>1. GInv => OwnOutput
  <2> SUFFICES ASSUME GInv, At("fn"), parent(Top.test) # None
               PROVE  proc.proc_output.part = Top.test[1] /\ proc.CURRENT_TEST = Top.test
    BY DEF OwnOutput
  <2>1. /\ TypeOK /\ StackOK /\ CompleteOK /\ RunsOK /\ CallOK
        /\ proc.stack # <<>> /\ Top.step = "fn"
    BY DEF GInv, At
  <2>2. PICK t \in Test : t = Top.test /\ t \in Matches
    BY <2>1, OnTop, ParentOf
  <2>3. t[1] \in Part /\ t[1] = CurrentPart /\ parent(t) = <<t[1], 0>>
    BY <2>1, <2>2, ParentOf, TopPart
  <2>4. <<t[1], 0>> \in proc.complete
    BY <2>1, <2>2, <2>3, Entered
  <2>5. ~On(<<t[1], 0>>, {"begin", "fn", "hung"})
    <3>1. Len(proc.stack) = 1 /\ <<t[1], 0>> # t
      BY <2>1, <2>2, <2>3, OnTop, ParentOf
    <3>2. \A i \in 1..1 : proc.stack[i].test = t
      BY <3>1, <2>2 DEF Top
    <3> QED BY <3>1, <3>2 DEF On
  <2>6. proc.executed[t[1]] = 1
    BY <2>1, <2>3, <2>4, <2>5 DEF RunsOK
  <2>7. t[1] <= proc.proc_output.part /\ proc.proc_output.part <= t[1]
    BY <2>1, <2>3, <2>6 DEF RunsOK
  <2>8. proc.proc_output.part \in Nat /\ t[1] \in Nat
    BY <2>1, <2>3, TestCount DEF TypeOK, Process, Part
  <2> QED BY <2>1, <2>2, <2>7, <2>8 DEF CallOK
<1> QED BY <1>1, Invariance, PTL

(* No program runs twice in a grading, and a grading that comes to its end *)
(* has shown the chosen tests, the programs of the chosen matchtests and   *)
(* no other.                                                               *)
THEOREM EachProgramOnce == Spec => []OneExecution
<1>1. GInv => OneExecution
  <2> SUFFICES ASSUME GInv PROVE OneExecution
    OBVIOUS
  <2>1. TypeOK /\ StackOK /\ CompleteOK /\ RunsOK /\ ShownOK
    BY DEF GInv
  <2>2. \A p \in Part : proc.executed[p] <= 1
    <3>1. \A p \in Part : proc.executed[p] \in {0, 1}
      BY <2>1 DEF RunsOK
    <3>2. \A x \in {0, 1} : x <= 1
      OBVIOUS
    <3> QED BY <3>1, <3>2
  <2>3. ASSUME phase = "done"
        PROVE  proc.shown = proc.chosen
                            \union {parent(t) : t \in proc.chosen \intersect Matches}
    <3>1. proc.stack = <<>> /\ proc.next = Cardinality(Test) + 1
      BY <2>1, <2>3 DEF StackOK
    <3>2. \A t, steps : ~On(t, steps)
      BY <3>1, NoCalls
    <3>3. proc.shown = proc.complete /\ proc.chosen \subseteq Test
      BY <2>1, <3>2 DEF ShownOK, TypeOK, Process
    <3>4. proc.chosen \subseteq proc.complete
      <4>1. proc.next - 1 = Cardinality(Test)
        BY <3>1, TestCount
      <4> QED BY <2>1, <3>2, <3>3, <4>1, TestsInOrder DEF CompleteOK
    <3>5. \A t \in proc.chosen \intersect Matches : parent(t) \in proc.complete
      BY <2>1, <3>2, <3>4 DEF CompleteOK
    <3>6. \A t \in proc.complete :
             t \in proc.chosen \/ \E c \in proc.chosen \intersect Matches : t = parent(c)
      BY <2>1 DEF CompleteOK
    <3> QED BY <3>3, <3>4, <3>5, <3>6
  <2> QED BY <2>2, <2>3 DEF OneExecution
<1> QED BY <1>1, Invariance, PTL

(* Between tests the score is that of the results shown.                   *)
THEOREM ExactScore == Spec => []ScoreExact
<1>1. GInv => ScoreExact
  <2> SUFFICES ASSUME GInv, phase \in {"tests", "done"}, proc.stack = <<>>
               PROVE  /\ proc.POSSIBLE = Points * Cardinality(Graded)
                      /\ proc.TOTAL = Points * Cardinality(Passed)
    BY DEF ScoreExact, Graded, Passed
  <2>1. Counted = Graded
    BY NoCalls DEF Counted
  <2> QED BY <2>1 DEF GInv, ScoresOK
<1> QED BY <1>1, Invariance, PTL

(* The exit status tells whether a shown test failed, after a Ctrl-C too.  *)
THEOREM HonestExit == Spec => []ExitHonest
<1>1. GInv => ExitHonest
  BY DEF GInv
<1> QED BY <1>1, Invariance, PTL

(* A log file is there for the tests whose last result was a failure.      *)
THEOREM TruthfulLogs == Spec => []LogsTruthful
<1>1. GInv => LogsTruthful
  BY DEF GInv
<1> QED BY <1>1, Invariance, PTL
=============================================================================
