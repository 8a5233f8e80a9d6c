------------------------------- MODULE TestHash -------------------------------
(***************************************************************************)
(* threadlab/tester.c and testhash.c: main runs test_htable on a table of  *)
(* fixed size, the tests of the lock, test_htable on a table that is       *)
(* resized, or all three, with the number of threads -n gives.  Threads    *)
(* 0 .. num_threads - 1 run test_htable_run; thread MaxThreads is the one  *)
(* that runs main: it spawns them, joins them, looks every key up, and     *)
(* does it again with a fresh table and a mix of calls.                    *)
(*                                                                         *)
(* The tests of the lock (TestRWLock) share nothing with the table.  Here  *)
(* they are what they do to main: return, or print and exit.               *)
(*                                                                         *)
(* testkeys[i] is the key i and testvals[i] the value i: the random keys   *)
(* are taken to be distinct.                                               *)
(***************************************************************************)
EXTENDS HTable

CONSTANTS
    ThreadCounts,   \* the arguments of -n
    WhichTests,     \* the arguments of -t
    LockPasses,     \* whether the lock passes its tests: FALSE for the stub
    MaxThreads, TESTSZ, BIG_PRIME

(* What main passes on, and how the table is used.                         *)
TestAssumption ==
    /\ MaxThreads \in Nat /\ ThreadCounts \subseteq 1..MaxThreads
    /\ WhichTests \subseteq {"htable", "rwl", "resize", "all"}
    /\ LockPasses \subseteq BOOLEAN
    /\ TESTSZ \in Nat \ {0} /\ BIG_PRIME \in Nat
    /\ Threads = 0..MaxThreads /\ Keys = 0..(TESTSZ - 1) /\ Vals = Keys
    /\ AllowResize = BOOLEAN

VARIABLES
    num_threads, which_test,   \* the options
    lock_passes,   \* what the tests of the lock will find
    run_mode,   \* "INSERT" or "MIX"
    phase,      \* "threads", "validate", "destroy", "rwl", "next" or "over"
    idx,        \* per thread: the loop variable i
    second,     \* per worker: the first call of this turn has returned
    outcome     \* "running", or what the test reported

options  == <<num_threads, which_test, lock_passes>>
testVars == <<options, run_mode, phase, idx, second, outcome>>
allVars  == <<vars, testVars>>

Main    == MaxThreads
Workers == 0..(num_threads - 1)

share == TESTSZ \div num_threads

(* Mutants of end: every thread stops one key short, and the last thread   *)
(* does not take the keys that are left over.                              *)
endShort(t) == (t + 1) * share - 1
endShare(t) == (t + 1) * share

end(t) == IF t = num_threads - 1 THEN TESTSZ ELSE (t + 1) * share
(* r, the other key of a turn, "randomly chosen".                          *)
other(t, i) == (((t * i) % 256) * BIG_PRIME) % TESTSZ

StartIdx == [t \in Threads |-> IF t = Main THEN 0 ELSE t * share]

TInit ==
    /\ Init
    /\ num_threads \in ThreadCounts /\ which_test \in WhichTests
    /\ lock_passes \in LockPasses
    /\ allow_resize = (which_test = "resize")
    /\ phase = IF which_test = "rwl" THEN "rwl" ELSE "threads"
    /\ run_mode = "INSERT" /\ outcome = "running"
    /\ idx = StartIdx
    /\ second = [t \in Threads |-> FALSE]

(* One turn of test_htable_run: a call for i, then one for r.              *)
FirstCall(t) ==
    /\ phase = "threads" /\ t \in Workers
    /\ ~second[t] /\ idx[t] < end(t)
    /\ Call(t, "insert", idx[t], idx[t])
    /\ second' = [second EXCEPT ![t] = TRUE]
    /\ UNCHANGED <<options, run_mode, phase, idx, outcome>>

(* Mutant of SecondCall: the random key with the value of key i.           *)
SecondCallMixesUp(t) ==
    /\ phase = "threads" /\ t \in Workers
    /\ second[t]
    /\ LET k == other(t, idx[t])
       IN  IF run_mode = "INSERT" THEN Call(t, "insert", k, idx[t])
                                  ELSE Call(t, "lookup", k, NULL)
    /\ second' = [second EXCEPT ![t] = FALSE]
    /\ idx' = [idx EXCEPT ![t] = @ + 1]
    /\ UNCHANGED <<options, run_mode, phase, outcome>>

SecondCall(t) ==
    /\ phase = "threads" /\ t \in Workers
    /\ second[t]
    /\ LET k == other(t, idx[t])
       IN  IF run_mode = "INSERT" THEN Call(t, "insert", k, k)
                                  ELSE Call(t, "lookup", k, NULL)
    /\ second' = [second EXCEPT ![t] = FALSE]
    /\ idx' = [idx EXCEPT ![t] = @ + 1]
    /\ UNCHANGED <<options, run_mode, phase, outcome>>

(* A table step.  When the lookup of a turn returns, its answer is tested: *)
(* test_fatal prints and exits.                                            *)
Mismatch(t) ==
    /\ pc[t] = "ret" /\ run_mode = "MIX" /\ arg[t].op = "lookup"
    /\ loc[t].ret # NULL /\ loc[t].ret # arg[t].key

WorkerStep(t) ==
    /\ phase = "threads" /\ t \in Workers
    /\ Step(t)
    /\ IF Mismatch(t) THEN outcome' = "mismatch" /\ phase' = "over"
                      ELSE UNCHANGED <<outcome, phase>>
    /\ UNCHANGED <<options, run_mode, idx, second>>

Joined ==
    \A t \in Workers : pc[t] = "idle" /\ ~second[t] /\ idx[t] >= end(t)

(* pthread_join of all, then the loop that validates, or the last destroy. *)
Join ==
    /\ phase = "threads" /\ Joined /\ ~fault
    /\ phase' = IF run_mode = "INSERT" THEN "validate" ELSE "destroy"
    /\ UNCHANGED <<vars, options, run_mode, idx, second, outcome>>

ValidateCall ==
    /\ phase = "validate" /\ idx[Main] < TESTSZ
    /\ Call(Main, "lookup", idx[Main], NULL)
    /\ UNCHANGED testVars

(* The test of the answer: the next key, or report it and exit.            *)
ValidateStep ==
    /\ phase = "validate"
    /\ Step(Main)
    /\ IF pc[Main] # "ret" THEN UNCHANGED testVars
       ELSE IF loc[Main].ret = idx[Main]
         THEN /\ idx' = [idx EXCEPT ![Main] = @ + 1]
              /\ phase' = IF idx[Main] + 1 = TESTSZ THEN "destroy" ELSE phase
              /\ UNCHANGED <<options, run_mode, second, outcome>>
       ELSE /\ outcome' = IF loc[Main].ret = NULL
                          THEN "missing key" ELSE "wrong value"
            /\ phase' = "over"
            /\ UNCHANGED <<options, run_mode, idx, second>>

(* htable_destroy frees the list of every slot below ht->size, node by     *)
(* node, then the array: main is alone, so it is one step.  What a race of *)
(* resizes left behind may make it read a freed array or past its end,     *)
(* free a node of two lists twice, or follow a ring until the stack is     *)
(* used up.                                                                *)
DestroyFaults ==
    LET a == arrays[store]
        chain(s) == Reach({a.elt[s]})
    IN  \/ ~a.live
        \/ ~(Slots(size) \subseteq DOMAIN a.elt)
        \/ \E s, r \in Slots(size) : s # r /\ chain(s) \cap chain(r) # {}
        \/ \E S \in SUBSET NodeId :
             /\ \E s \in Slots(size) : a.elt[s] \in S
             /\ \A n \in S : node[n].next \in S

DestroyFault ==
    /\ phase = "destroy" /\ DestroyFaults
    /\ fault' = TRUE /\ phase' = "over"
    /\ UNCHANGED <<table, frames, calls, options, run_mode, idx, second, outcome>>

(* htable_init starts from zeroed memory; the threads it is used by next   *)
(* are new.                                                                *)
FreshTable ==
    /\ size' = get_prime(Sz + 1)
    /\ store' = 1
    /\ arrays' = <<ZeroArray(get_prime(Sz + 1))>>
    /\ used' = 0
    /\ node' = [n \in NodeId |-> [key |-> NULL, val |-> NULL, next |-> NULL]]
    /\ idx' = StartIdx /\ phase' = "threads"
    /\ calls' = [t \in Threads |-> 0]
    /\ arg' = [t \in Threads |-> NoCall]
    /\ loc' = [t \in Threads |-> NoLocal]
    /\ rsz' = [t \in Threads |-> NoResize]
    /\ UNCHANGED <<options, pc, fault, second>>

(* Between the phases the table is destroyed and initialized.              *)
Restart ==
    /\ phase = "destroy" /\ run_mode = "INSERT" /\ ~DestroyFaults
    /\ FreshTable /\ UNCHANGED <<allow_resize, outcome>>
    /\ run_mode' = "MIX"

(* After the mix it is destroyed, and the test reports PASSED; nothing     *)
(* looks at the freed table any more.  -t all goes on to the lock.         *)
Pass ==
    /\ phase = "destroy" /\ run_mode = "MIX" /\ ~DestroyFaults
    /\ phase' = IF which_test = "all" /\ ~allow_resize THEN "rwl" ELSE "over"
    /\ outcome' = "PASSED"
    /\ UNCHANGED <<vars, options, run_mode, idx, second>>

(* test_rwl_basic and test_rwl_priority: a lock that fails ends in         *)
(* test_fatal, which exits.                                                *)
RwlTests ==
    /\ phase = "rwl"
    /\ phase' = IF lock_passes /\ which_test = "all" THEN "next" ELSE "over"
    /\ outcome' = IF lock_passes THEN "PASSED" ELSE "rwl failed"
    /\ UNCHANGED <<vars, options, run_mode, idx, second>>

(* main calls test_htable(1), after the others have passed.                *)
NextTest ==
    /\ phase = "next"
    /\ FreshTable /\ allow_resize' = TRUE
    /\ run_mode' = "INSERT" /\ outcome' = "running"

Over == (phase = "over" \/ fault) /\ UNCHANGED allVars

WorkerTurn(t) == FirstCall(t) \/ SecondCall(t) \/ WorkerStep(t)
MainTurn ==
    \/ Join \/ ValidateCall \/ ValidateStep
    \/ DestroyFault \/ Restart \/ Pass \/ RwlTests \/ NextTest

TNext == (\E t \in Workers : WorkerTurn(t)) \/ MainTurn \/ Over

(* The scheduler runs every thread that can take a step.                   *)
TSpec ==
    /\ TInit /\ [][TNext]_allVars
    /\ \A t \in Threads \ {Main} : WF_allVars(WorkerTurn(t))
    /\ WF_allVars(MainTurn)
-----------------------------------------------------------------------------
(* One thread passes every test of the table, through both phases, any     *)
(* resizes and the destruction of what it built; -t all reaches the second *)
(* one only where the lock has passed its tests (tester.c:42-54), and it   *)
(* starts on a table like the first one's, whatever that left behind.      *)
Passes ==
    num_threads = 1 =>
      <>(/\ phase = "over" /\ ~fault
         /\ outcome = IF which_test \in {"rwl", "all"} /\ ~lock_passes
                      THEN "rwl failed" ELSE "PASSED")

(* Racing threads may lose keys, but a value is never stored under another *)
(* key, even in a race of resizes: neither the lookups of the mix nor the  *)
(* validation find a wrong one.                                            *)
ValuesBelong == outcome \notin {"mismatch", "wrong value"}

(* When the threads are joined, each key is in the finished share of one   *)
(* thread and only one, also the keys that are left over where TESTSZ is   *)
(* not a multiple of the threads: what the validation misses was lost in   *)
(* the table, and never skipped by the loops that insert.                  *)
SharesCoverKeys ==
    phase \in {"validate", "destroy"} =>
      \A k \in Keys : \E t \in Workers :
         {u \in Workers : u * share <= k /\ k < idx[u]} = {t}

(* However the threads race on a table that is not resized, the test ends  *)
(* without an invalid access, the destruction of the table included, or    *)
(* has passed and gives way to the resize test.                            *)
Ends == ~allow_resize ~> ~fault /\ (phase = "over" \/ allow_resize)
=============================================================================
