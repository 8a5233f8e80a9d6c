----------------------------- MODULE TestRWLock -----------------------------
(***************************************************************************)
(* threadlab/testrwlock.c: test_rwl_basic, then test_rwl_priority, run on  *)
(* a lock under test.  rwlock.c in the repository is a stub that admits    *)
(* everybody; the locks the test can meet are described by whom they admit *)
(* together and whom they prefer, and the stub is one of them.             *)
(*                                                                         *)
(* Every access to the test's globals is made under test_m, so a critical  *)
(* section is one step; a wait on a condition variable is two.             *)
(***************************************************************************)
EXTENDS Integers, FiniteSets, Sequences

CONSTANT Readers     \* the competing readers, 8 in the source

Main == "main"
Linger == "linger"
Writer == "writer"

(* A test with one reader would pass a lock that lets readers overtake.    *)
ASSUME ReadersAssumption ==
    /\ IsFiniteSet(Readers) /\ Cardinality(Readers) > 1
    /\ {Main, Linger, Writer} \cap Readers = {}

Workers == Readers \cup {Writer, Linger}
Threads == Workers \cup {Main}

VARIABLES
    lock,       \* the lock under test, chosen once
    holding,    \* per mode: acquisitions that are not released
    waiting,    \* the calls that wait in the lock
    handed,     \* the kinds of deadline the test has handed out
    stage,      \* main: "basic", or the next thing test_rwl_priority does
    step,       \* main: the next call of test_rwl_basic
    pc,         \* per worker: its place
    reader_in_cs, who_is_in_cs, reader_getout, peers_getout,
    outcome     \* "running", "PASSED", "failed" or "aborted"

flags    == <<reader_in_cs, who_is_in_cs, reader_getout, peers_getout>>
lockVars == <<holding, waiting>>
vars     == <<lock, lockVars, handed, stage, step, pc, flags, outcome>>
-----------------------------------------------------------------------------
(* The locks under test.                                                   *)
Modes == {"read", "write"}

LockKinds ==
    [sharing     : BOOLEAN,   \* a reader enters where readers are
     rw          : BOOLEAN,   \* a reader enters where a writer is
     wr          : BOOLEAN,   \* a writer enters where readers are
     ww          : BOOLEAN,   \* a writer enters where a writer is
     policy      : {"writers", "readers", "any"},   \* who goes first
     early       : BOOLEAN,   \* gives up if called after its deadline
     counts_held : BOOLEAN]   \* rwl_nwaiters includes the holders

(* rwlock.c as it is: every call returns 0 at once, and nobody ever waits. *)
Stub == [sharing |-> TRUE, rw |-> TRUE, wr |-> TRUE, ww |-> TRUE,
         policy |-> "any", early |-> FALSE, counts_held |-> FALSE]

(* What the comment above rwl_init promises, and the priority asked for.   *)
Excludes(l) == l.sharing /\ ~l.rw /\ ~l.wr /\ ~l.ww
KeepsContract(l) == Excludes(l) /\ l.policy = "writers" /\ ~l.counts_held

NoneWaits(m) == \A w \in waiting : w.mode # m

Admits(m) ==
    IF m = "read"
    THEN /\ holding["read"] = 0 \/ lock.sharing
         /\ holding["write"] = 0 \/ lock.rw
         /\ lock.policy = "writers" => NoneWaits("write")
    ELSE /\ holding["read"] = 0 \/ lock.wr
         /\ holding["write"] = 0 \/ lock.ww
         /\ lock.policy = "readers" => NoneWaits("read")

rwl_nwaiters ==
    Cardinality(waiting)
      + (IF lock.counts_held THEN holding["read"] + holding["write"] ELSE 0)

Hold(m)    == holding' = [holding EXCEPT ![m] = @ + 1]
Release(m) == holding' = [holding EXCEPT ![m] = @ - 1]
-----------------------------------------------------------------------------
(* test_rwl_basic: the calls main makes, and what each must return.        *)
Lock(m, timed, ret) == [mode |-> m, call |-> "lock", timed |-> timed, ret |-> ret]
Unlock(m) == [mode |-> m, call |-> "unlock"]

(* Mutant of Basic: the reader that comes to a writer should get in.       *)
BasicLax == <<Lock("read",  FALSE, "0"), Lock("write", TRUE, "ETIMEDOUT"),
              Lock("read",  TRUE,  "0"), Unlock("read"), Unlock("read"),
              Lock("write", FALSE, "0"), Lock("write", TRUE, "ETIMEDOUT"),
              Lock("read",  TRUE,  "0"), Unlock("write")>>

Basic == <<Lock("read",  FALSE, "0"),
           Lock("write", TRUE,  "ETIMEDOUT"),
           Lock("read",  TRUE,  "0"),
           Unlock("read"), Unlock("read"),
           Lock("write", FALSE, "0"),
           Lock("write", TRUE,  "ETIMEDOUT"),
           Lock("read",  TRUE,  "ETIMEDOUT"),
           Unlock("write")>>

(* get_expiretime adds 100 to tv_nsec, which is 100 ns and not 100 ms, and *)
(* carries nothing into tv_sec: the deadline is in the future, or past by  *)
(* the time the lock looks at it, or not a valid time.                     *)
get_expiretime == {"future", "past", "invalid"}

Stop(result) == outcome' = result /\ UNCHANGED <<stage, step>>

NextCall ==
    /\ IF step = Len(Basic) THEN stage' = "spawn linger" /\ UNCHANGED step
                            ELSE step' = step + 1 /\ UNCHANGED stage
    /\ UNCHANGED outcome

(* A call of thread t returned r: its caller tests the answer.             *)
Returns(t, r) ==
    IF t = Main
    THEN /\ IF r = Basic[step].ret THEN NextCall ELSE Stop("failed")
         /\ UNCHANGED pc
    ELSE IF r = "0"
    THEN pc' = [pc EXCEPT ![t] = "got"] /\ UNCHANGED <<stage, step, outcome>>
    ELSE Stop("failed") /\ UNCHANGED pc

(* rwl_rlock and rwl_wlock of the lock under test.                         *)
Acquire(t, m, e) ==
    IF e = "past" /\ lock.early
    THEN Returns(t, "ETIMEDOUT") /\ UNCHANGED lockVars
    ELSE IF Admits(m)
    THEN Hold(m) /\ Returns(t, "0") /\ UNCHANGED waiting
    ELSE /\ waiting' = waiting \cup {[thread |-> t, mode |-> m, expire |-> e]}
         /\ pc' = IF t = Main THEN pc ELSE [pc EXCEPT ![t] = "waiting"]
         /\ UNCHANGED <<holding, stage, step, outcome>>

(* A waiting call is admitted, gives up at its deadline, or aborts: the    *)
(* assertion of cond_timedwait fails when the deadline is no valid time.   *)
Admitted(w) ==
    /\ Admits(w.mode)
    /\ Hold(w.mode) /\ waiting' = waiting \ {w}
    /\ Returns(w.thread, "0")

TimedOut(w) ==
    /\ w.expire \in {"future", "past"}
    /\ waiting' = waiting \ {w} /\ UNCHANGED holding
    /\ Returns(w.thread, "ETIMEDOUT")

NotValid(w) ==
    /\ w.expire = "invalid"
    /\ Stop("aborted")
    /\ UNCHANGED <<lockVars, pc>>

cond_timedwait(w) ==
    /\ Admitted(w) \/ TimedOut(w) \/ NotValid(w)
    /\ UNCHANGED <<lock, handed, flags>>
-----------------------------------------------------------------------------
Init ==
    /\ lock \in LockKinds
    /\ holding = [m \in Modes |-> 0] /\ waiting = {} /\ handed = {}
    /\ stage = "basic" /\ step = 1
    /\ pc = [t \in Workers |-> "unborn"]
    /\ reader_in_cs = 0 /\ who_is_in_cs = 0
    /\ reader_getout = 0 /\ peers_getout = 0
    /\ outcome = "running"

test_rwl_basic ==
    /\ stage = "basic"
    /\ \A w \in waiting : w.thread # Main
    /\ LET c == Basic[step]
       IN  IF c.call = "unlock"
           THEN Release(c.mode) /\ NextCall /\ UNCHANGED <<waiting, handed, pc>>
           ELSE \E e \in IF c.timed THEN get_expiretime ELSE {"none"} :
                   /\ handed' = handed \cup {e}
                   /\ Acquire(Main, c.mode, e)
    /\ UNCHANGED <<lock, flags>>

(* test_rwl_priority, one step for every time main touches what the        *)
(* threads it spawned also touch.  Its lock, l2, is a second one.          *)
Main1(from, to) ==
    /\ stage = from /\ stage' = to
    /\ UNCHANGED <<lock, waiting, handed, step>>

Spawn(ts) == pc' = [t \in Workers |-> IF t \in ts THEN "call" ELSE pc[t]]

(* The threads that sleep on a condition variable run again.               *)
Sleepers(ts) == {t \in ts : pc[t] = "sleep"}
Broadcast(ts) ==
    pc' = [t \in Workers |-> IF t \in Sleepers(ts) THEN "awake" ELSE pc[t]]

SpawnLinger ==
    /\ Main1("spawn linger", "see reader") /\ Spawn({Linger})
    /\ holding' = [m \in Modes |-> 0]
    /\ UNCHANGED <<flags, outcome>>

SeeReader ==
    /\ Main1("see reader", "spawn writer") /\ reader_in_cs = 1
    /\ UNCHANGED <<holding, pc, flags, outcome>>

SpawnWriter ==
    /\ Main1("spawn writer", "see writer") /\ Spawn({Writer})
    /\ UNCHANGED <<holding, flags, outcome>>

SeeWriter ==
    /\ Main1("see writer", "spawn readers") /\ rwl_nwaiters = 1
    /\ UNCHANGED <<holding, pc, flags, outcome>>

SpawnReaders ==
    /\ Main1("spawn readers", "look") /\ Spawn(Readers)
    /\ UNCHANGED <<holding, flags, outcome>>

(* usleep(100) may be over before any reader has run, or long after.       *)
Look ==
    /\ Main1("look", "see all")
    /\ outcome' = IF who_is_in_cs = 0 THEN outcome ELSE "failed"
    /\ UNCHANGED <<holding, pc, flags>>

SeeAll ==
    /\ Main1("see all", "let reader go")
    /\ rwl_nwaiters = Cardinality(Readers) + 1
    /\ UNCHANGED <<holding, pc, flags, outcome>>

(* Mutant of LetReaderGo: the flag is set and nobody is woken.             *)
LetReaderGoSilent ==
    /\ Main1("let reader go", "who")
    /\ reader_getout' = 1
    /\ UNCHANGED <<holding, pc, reader_in_cs, who_is_in_cs, peers_getout, outcome>>

LetReaderGo ==
    /\ Main1("let reader go", "who")
    /\ reader_getout' = 1 /\ Broadcast({Linger})
    /\ UNCHANGED <<holding, reader_in_cs, who_is_in_cs, peers_getout, outcome>>

Who ==
    /\ Main1("who", "let peers go") /\ who_is_in_cs # 0
    /\ outcome' = IF who_is_in_cs = 1 THEN outcome ELSE "failed"
    /\ UNCHANGED <<holding, pc, flags>>

LetPeersGo ==
    /\ Main1("let peers go", "join")
    /\ peers_getout' = 1 /\ Broadcast(Workers \ {Linger})
    /\ UNCHANGED <<holding, reader_in_cs, who_is_in_cs, reader_getout, outcome>>

Join ==
    /\ Main1("join", "over") /\ \A t \in Workers : pc[t] = "done"
    /\ outcome' = "PASSED"
    /\ UNCHANGED <<holding, pc, flags>>

test_rwl_priority ==
    \/ SpawnLinger \/ SeeReader \/ SpawnWriter \/ SeeWriter \/ SpawnReaders
    \/ Look \/ SeeAll \/ LetReaderGo \/ Who \/ LetPeersGo \/ Join

(* linger_reader, competing_writer and competing_reader.                   *)
Mode(t) == IF t = Writer THEN "write" ELSE "read"
Getout(t) == IF t = Linger THEN reader_getout ELSE peers_getout
Goto(t, label) == pc' = [pc EXCEPT ![t] = label]

CallLock(t) ==
    /\ pc[t] = "call"
    /\ Acquire(t, Mode(t), "none")
    /\ UNCHANGED <<lock, handed, flags>>

(* Mutant of InCS: the lingering reader leaves without being asked to.     *)
InCSLeaves(t) ==
    /\ pc[t] = "got"
    /\ CASE t = Linger -> reader_in_cs' = 1 /\ UNCHANGED who_is_in_cs
         [] t = Writer -> who_is_in_cs' = 1 /\ UNCHANGED reader_in_cs
         [] OTHER      -> who_is_in_cs' = 2 /\ UNCHANGED reader_in_cs
    /\ Goto(t, IF Getout(t) = 0 /\ t # Linger THEN "sleep" ELSE "unlock")
    /\ UNCHANGED <<lock, lockVars, handed, stage, step, reader_getout,
                   peers_getout, outcome>>

InCS(t) ==
    /\ pc[t] = "got"
    /\ CASE t = Linger -> reader_in_cs' = 1 /\ UNCHANGED who_is_in_cs
         [] t = Writer -> who_is_in_cs' = 1 /\ UNCHANGED reader_in_cs
         [] OTHER      -> who_is_in_cs' = 2 /\ UNCHANGED reader_in_cs
    /\ Goto(t, IF Getout(t) = 0 THEN "sleep" ELSE "unlock")
    /\ UNCHANGED <<lock, lockVars, handed, stage, step, reader_getout,
                   peers_getout, outcome>>

Recheck(t) ==
    /\ pc[t] = "awake"
    /\ Goto(t, IF Getout(t) = 0 THEN "sleep" ELSE "unlock")
    /\ UNCHANGED <<lock, lockVars, handed, stage, step, flags, outcome>>

Leave(t) ==
    /\ pc[t] = "unlock" /\ Goto(t, "done")
    /\ Release(Mode(t))
    /\ UNCHANGED <<lock, waiting, handed, stage, step, flags, outcome>>

(* pthread_cond_wait may return without a broadcast.                       *)
SpuriousWakeup(t) ==
    /\ pc[t] = "sleep" /\ Goto(t, "awake")
    /\ UNCHANGED <<lock, lockVars, handed, stage, step, flags, outcome>>

(* A call that waits in the lock goes on.                                  *)
InLock(t) == \E w \in waiting : w.thread = t /\ cond_timedwait(w)
WorkerStep(t) == CallLock(t) \/ InCS(t) \/ Recheck(t) \/ Leave(t) \/ InLock(t)
MainStep == test_rwl_basic \/ test_rwl_priority \/ InLock(Main)

(* exit and a failed assertion end the process; main's busy loops go on.   *)
Next ==
    \/ outcome = "running" /\ MainStep
    \/ \E t \in Workers :
         outcome = "running" /\ (WorkerStep(t) \/ SpuriousWakeup(t))
    \/ UNCHANGED vars

Spec == Init /\ [][Next]_vars

(* The system schedules every thread that can run.                         *)
FairSpec ==
    /\ Spec
    /\ WF_vars(outcome = "running" /\ MainStep)
    /\ \A t \in Workers : WF_vars(outcome = "running" /\ WorkerStep(t))
-----------------------------------------------------------------------------

(* Whatever the scheduling, a lock that passes both tests admits readers   *)
(* together, excludes writers from everybody, and does not let readers     *)
(* overtake a writer by rule; so the stub does not pass.  The exception is *)
(* a lock whose calls give up at once at a deadline that is already past:  *)
(* the ETIMEDOUT that the test waits for then says nothing about the lock. *)
PassedMeansContract ==
    outcome = "PASSED" /\ ~(lock.early /\ "past" \in handed) =>
        Excludes(lock) /\ lock.policy # "readers"

(* A lock that keeps the contract is blamed only for a deadline of         *)
(* get_expiretime: one whose nanoseconds are no valid time, or one already *)
(* past when a lock that looks at the clock first is called.               *)
OnlyBadDeadlineBlames ==
    KeepsContract(lock) /\ outcome \in {"failed", "aborted"} =>
        "invalid" \in handed \/ (lock.early /\ "past" \in handed)

(* With such a lock no thread of the test waits for ever.                  *)
ContractEnds == KeepsContract(lock) ~> outcome # "running"
=============================================================================
