--------------------------- MODULE TestRWLockProofs ---------------------------
(***************************************************************************)
(* Proofs about TestRWLock: any number of competing readers, any lock that *)
(* can be described, and any scheduling of the threads.                    *)
(***************************************************************************)
EXTENDS TestRWLock, FiniteSetTheorems, TLAPS

Inside == {"got", "sleep", "awake", "unlock"}
Labels == Inside \cup {"unborn", "call", "waiting", "done"}

Stages1 == {"basic", "spawn linger"}                \* nothing is spawned
Stages2 == {"see reader", "spawn writer"}           \* the lingering reader is
Stages3 == {"see writer", "spawn readers"}          \* and the writer
Stages4 == {"look", "see all", "let reader go"}     \* and the readers
Stages5 == {"who", "let peers go"}                  \* the first may leave
Stages  == Stages1 \cup Stages2 \cup Stages3 \cup Stages4 \cup Stages5
             \cup {"join", "over"}

(* The variables hold values of their C types.                             *)
TypeOK ==
    /\ lock \in LockKinds
    /\ holding \in [Modes -> Int]
    /\ handed \subseteq get_expiretime \cup {"none"}
    /\ stage \in Stages /\ step \in 1..9
    /\ pc \in [Workers -> Labels]
    /\ reader_in_cs \in {0, 1} /\ who_is_in_cs \in {0, 1, 2}
    /\ reader_getout \in {0, 1} /\ peers_getout \in {0, 1}
    /\ outcome \in {"running", "PASSED", "failed", "aborted"}

(* An ETIMEDOUT, or a failure, that says nothing about the lock.           *)
Excused == lock.early /\ "past" \in handed
Blamed  == "invalid" \in handed \/ Excused

(* The call of a thread that waits in the lock, and who is inside.         *)
Call(t) == [thread |-> t, mode |-> Mode(t), expire |-> "none"]
Waiters == {t \in Workers : pc[t] = "waiting"}
Holders(m) == {t \in Workers : Mode(t) = m /\ pc[t] \in Inside}

SpawnOK ==
    /\ stage # "basic" => step = 9
    /\ stage \in Stages1 => pc[Linger] = "unborn"
    /\ stage \in Stages1 \cup Stages2 => pc[Writer] = "unborn"
    /\ stage \in Stages1 \cup Stages2 \cup Stages3 => \A r \in Readers : pc[r] = "unborn"

(* In test_rwl_basic main alone uses the lock, and what it holds follows   *)
(* from its place; a call that waits is one the lock did not admit.        *)
BasicOK ==
    stage = "basic" =>
        /\ holding["read"] = IF step \in {2, 3, 5} THEN 1 ELSE IF step = 4 THEN 2 ELSE 0
        /\ holding["write"] = IF step \in {7, 8, 9} THEN 1 ELSE 0
        /\ \A v, w \in waiting : v = w
        /\ \A w \in waiting :
             /\ w.thread = Main /\ w.mode = Basic[step].mode
             /\ w.expire \in handed \cap get_expiretime
             /\ step \in {2, 3, 7, 8}
             /\ step = 2 => ~lock.wr
             /\ step = 3 => ~lock.sharing
             /\ step = 7 => ~lock.ww
             /\ step = 8 => ~lock.rw

(* What the answers that main got so far say about the lock.               *)
LearntOK ==
    Excused \/
        /\ step > 2 => ~lock.wr
        /\ step > 3 => lock.sharing
        /\ step > 7 => ~lock.ww
        /\ step > 8 => ~lock.rw

(* In test_rwl_priority the lock is used by the threads alone.             *)
ThreadsOK ==
    /\ stage # "basic" => waiting = {Call(t) : t \in Waiters}
    /\ stage \notin Stages1 => \A m \in Modes : holding[m] = Cardinality(Holders(m))

FlagsOK ==
    /\ stage \in Stages1 \cup Stages2 \cup Stages3 \cup Stages4 => reader_getout = 0
    /\ stage \notin {"join", "over"} => peers_getout = 0
    /\ reader_getout = 0 => pc[Linger] \notin {"unlock", "done"}
    /\ peers_getout = 0 => \A t \in Workers \ {Linger} : pc[t] \notin {"unlock", "done"}
    /\ stage \notin Stages1 \cup {"see reader"} => reader_in_cs = 1
    /\ reader_in_cs = 1 => pc[Linger] \in {"sleep", "awake", "unlock", "done"}
    /\ who_is_in_cs = 1 => pc[Writer] \in {"sleep", "awake", "unlock", "done"}
    /\ who_is_in_cs = 2 => \E r \in Readers : pc[r] \in {"sleep", "awake", "unlock", "done"}

(* A lock that excludes lets nobody in with the writer.                    *)
ExclusionOK ==
    stage # "basic" /\ Excludes(lock) => Holders("write") = {} \/ Holders("read") = {}

(* A lock that prefers readers makes none wait while a reader is inside,   *)
(* so main sees as many waiting as it should only when one got in.         *)
ReadersFirstOK ==
    stage # "basic" /\ Excludes(lock) /\ lock.policy = "readers" =>
        /\ stage \in Stages2 \cup Stages3 \cup Stages4 =>
               \A t \in Workers \ {Writer} : pc[t] # "waiting"
        /\ stage \in Stages5 \cup {"let reader go"} => \E r \in Readers : pc[r] \in Inside
        /\ stage \notin {"let peers go", "join", "over"}

(* With a lock that keeps the contract the writer waits until the          *)
(* lingering reader has left, and the readers until the writer has.        *)
WriterFirstOK ==
    stage # "basic" /\ KeepsContract(lock) =>
        /\ stage \in Stages4 \cup Stages5 \cup {"spawn readers", "join", "over"} =>
               pc[Writer] \in Inside \cup {"waiting", "done"}
        /\ peers_getout = 0 =>
               \A r \in Readers : pc[r] \in {"unborn", "call", "waiting"}

RunInv ==
    /\ SpawnOK /\ BasicOK /\ LearntOK /\ ThreadsOK /\ FlagsOK /\ ExclusionOK
    /\ ReadersFirstOK /\ WriterFirstOK

IInv ==
    /\ TypeOK
    /\ outcome = "running" => RunInv
    /\ PassedMeansContract /\ OnlyBadDeadlineBlames
-----------------------------------------------------------------------------
(* The threads, and the places they can be at.                             *)

LEMMA People ==
    /\ Main \notin Workers /\ Linger \in Workers /\ Writer \in Workers
    /\ Readers \subseteq Workers /\ Linger \notin Readers /\ Writer \notin Readers
    /\ Linger # Writer /\ Main # Linger /\ Main # Writer
    /\ \A t \in Workers : t = Linger \/ t = Writer \/ t \in Readers
    /\ \A t \in Workers : Mode(t) \in Modes /\ (Mode(t) = "write" <=> t = Writer)
    /\ IsFiniteSet(Workers) /\ IsFiniteSet(Readers)
    /\ Cardinality(Readers) \in Nat /\ Cardinality(Readers) > 1
<1>1. IsFiniteSet({Writer, Linger})
  <2>1. {Writer, Linger} = {Writer} \cup {Linger}
    OBVIOUS
  <2>2. IsFiniteSet({Writer}) /\ IsFiniteSet({Linger})
    BY FS_Singleton
  <2>3. IsFiniteSet({Writer} \cup {Linger})
    BY <2>2, FS_Union
  <2> QED BY <2>1, <2>3
<1>2. IsFiniteSet(Workers)
  BY <1>1, ReadersAssumption, FS_Union DEF Workers
<1>3. Cardinality(Readers) \in Nat
  BY ReadersAssumption, FS_CardinalityType
<1> QED BY <1>2, <1>3, ReadersAssumption DEF Workers, Main, Linger, Writer, Mode, Modes

(* What main calls, and what it expects.                                   *)
LEMMA BasicAt ==
    /\ Len(Basic) = 9
    /\ \A n \in 1..9 :
         /\ Basic[n].call = IF n \in {4, 5, 9} THEN "unlock" ELSE "lock"
         /\ Basic[n].mode = IF n \in {1, 3, 4, 5, 8} THEN "read" ELSE "write"
         /\ n \notin {4, 5, 9} =>
              /\ Basic[n].timed <=> n \in {2, 3, 7, 8}
              /\ Basic[n].ret = IF n \in {2, 7, 8} THEN "ETIMEDOUT" ELSE "0"
<1>1. Len(Basic) = 9
  BY DEF Basic
<1>2. /\ Basic[1] = Lock("read", FALSE, "0")
      /\ Basic[2] = Lock("write", TRUE, "ETIMEDOUT")
      /\ Basic[3] = Lock("read", TRUE, "0")
      /\ Basic[4] = Unlock("read") /\ Basic[5] = Unlock("read")
      /\ Basic[6] = Lock("write", FALSE, "0")
      /\ Basic[7] = Lock("write", TRUE, "ETIMEDOUT")
      /\ Basic[8] = Lock("read", TRUE, "ETIMEDOUT")
      /\ Basic[9] = Unlock("write")
  BY DEF Basic
<1> SUFFICES ASSUME NEW n \in 1..9
             PROVE
         /\ Basic[n].call = IF n \in {4, 5, 9} THEN "unlock" ELSE "lock"
         /\ Basic[n].mode = IF n \in {1, 3, 4, 5, 8} THEN "read" ELSE "write"
         /\ n \notin {4, 5, 9} =>
              /\ Basic[n].timed <=> n \in {2, 3, 7, 8}
              /\ Basic[n].ret = IF n \in {2, 7, 8} THEN "ETIMEDOUT" ELSE "0"
  BY <1>1
<1>3. n = 1 \/ n = 2 \/ n = 3 \/ n = 4 \/ n = 5 \/ n = 6 \/ n = 7 \/ n = 8 \/ n = 9
  OBVIOUS
<1>4. CASE n \in {4, 5, 9}
  BY <1>2, <1>4 DEF Unlock
<1>5. CASE n \in {1, 2, 3, 6, 7, 8}
  BY <1>2, <1>5 DEF Lock
<1> QED BY <1>3, <1>4, <1>5

(* The holders of the lock can be counted.                                 *)
LEMMA Counting ==
    ASSUME NEW m
    PROVE  /\ IsFiniteSet(Holders(m)) /\ Cardinality(Holders(m)) \in Nat
           /\ Cardinality(Holders(m)) = 0 <=> Holders(m) = {}
           /\ IsFiniteSet(Waiters) /\ Cardinality(Waiters) \in Nat
<1>1. Holders(m) \subseteq Workers /\ Waiters \subseteq Workers
  BY DEF Holders, Waiters
<1>2. IsFiniteSet(Holders(m)) /\ IsFiniteSet(Waiters)
  BY <1>1, People, FS_Subset
<1> QED BY <1>2, FS_CardinalityType, FS_EmptySet

(* A thread that moves enters or leaves the sets it is counted in.         *)
LEMMA Moved ==
    ASSUME TypeOK, NEW t \in Workers, NEW l \in Labels,
           pc' = [pc EXCEPT ![t] = l]
    PROVE  /\ pc' \in [Workers -> Labels] /\ pc'[t] = l
           /\ \A u \in Workers : u # t => pc'[u] = pc[u]
           /\ \A m : Holders(m)' = IF Mode(t) = m /\ l \in Inside THEN Holders(m) \cup {t}
                                   ELSE Holders(m) \ {t}
           /\ Waiters' = IF l = "waiting" THEN Waiters \cup {t} ELSE Waiters \ {t}
<1>1. /\ pc' \in [Workers -> Labels] /\ pc'[t] = l
      /\ \A u \in Workers : u # t => pc'[u] = pc[u]
  BY DEF TypeOK
<1>2. ASSUME NEW m
      PROVE  Holders(m)' = IF Mode(t) = m /\ l \in Inside THEN Holders(m) \cup {t}
                           ELSE Holders(m) \ {t}
  <2>1. Holders(m)' = {u \in Workers : Mode(u) = m /\ pc'[u] \in Inside}
    BY DEF Holders
  <2>2. Holders(m) = {u \in Workers : Mode(u) = m /\ pc[u] \in Inside}
    BY DEF Holders
  <2> QED BY <1>1, <2>1, <2>2
<1>3. Waiters' = IF l = "waiting" THEN Waiters \cup {t} ELSE Waiters \ {t}
  BY <1>1 DEF Waiters
<1> QED BY <1>1, <1>2, <1>3

(* While the test goes on it has judged nothing.                           *)
LEMMA GoesOn ==
    ASSUME TypeOK', RunInv', outcome' = "running" PROVE IInv'
  BY DEF IInv, PassedMeansContract, OnlyBadDeadlineBlames
-----------------------------------------------------------------------------
(* test_rwl_basic.                                                         *)

(* What holds after a call of main that it does not wait for any more.     *)
LEMMA Answered ==
    ASSUME TypeOK, RunInv, stage = "basic", outcome = "running",
           holding' \in [Modes -> Int], waiting' = {}, UNCHANGED <<lock, pc, flags>>,
           handed \subseteq handed', handed' \subseteq get_expiretime \cup {"none"},
           NextCall,
           step < 9 => BasicOK',
           Excused' \/ /\ step = 2 => ~lock.wr
                       /\ step = 3 => lock.sharing
                       /\ step = 7 => ~lock.ww
                       /\ step = 8 => ~lock.rw
    PROVE  IInv'
<1>2. step \in 1..9 /\ (step < 9 \/ step = 9) /\ ~(step < 9 /\ step = 9)
  BY DEF TypeOK
<1>1. /\ outcome' = "running"
      /\ step < 9 => step' = step + 1 /\ stage' = "basic" /\ step' \in 1..9
      /\ step = 9 => stage' = "spawn linger" /\ step' = 9
  <2>1. CASE step < 9
    <3>1. step' = step + 1 /\ UNCHANGED stage
      BY <1>2, <2>1, BasicAt DEF NextCall
    <3>2. step + 1 \in 1..9
      BY <1>2, <2>1
    <3> QED BY <1>2, <2>1, <3>1, <3>2 DEF NextCall
  <2>2. CASE step = 9
    BY <1>2, <2>2, BasicAt DEF NextCall
  <2> QED BY <1>2, <2>1, <2>2
<1>3. TypeOK'
  <2>1. stage' \in Stages /\ step' \in 1..9
    BY <1>1, <1>2 DEF Stages, Stages1
  <2> QED BY <1>1, <2>1 DEF TypeOK, flags
<1>4. SpawnOK'
  <2>1. stage' # "basic" => step' = 9
    BY <1>1, <1>2
  <2>2. pc[Linger] = "unborn" /\ pc[Writer] = "unborn" /\ \A r \in Readers : pc[r] = "unborn"
    BY DEF RunInv, SpawnOK, Stages1
  <2> QED BY <2>1, <2>2 DEF SpawnOK
<1>5. \A t \in Workers : pc'[t] = "unborn"
  BY People DEF RunInv, SpawnOK, Stages1
<1>6. BasicOK'
  BY <1>1, <1>2 DEF BasicOK
<1>7. LearntOK'
  <2>1. Excused => Excused'
    BY DEF Excused
  <2>2. CASE Excused'
    BY <2>2 DEF LearntOK
  <2>3. CASE ~Excused'
    <3>1. /\ step > 2 => ~lock.wr
          /\ step > 3 => lock.sharing
          /\ step > 7 => ~lock.ww
          /\ step > 8 => ~lock.rw
          /\ step = 2 => ~lock.wr
          /\ step = 3 => lock.sharing
          /\ step = 7 => ~lock.ww
          /\ step = 8 => ~lock.rw
      BY <2>1, <2>3 DEF RunInv, LearntOK
    <3>2. step' = step \/ step' = step + 1
      BY <1>1, <1>2
    <3>3. /\ step' > 2 => step > 2 \/ step = 2
          /\ step' > 3 => step > 3 \/ step = 3
          /\ step' > 7 => step > 7 \/ step = 7
          /\ step' > 8 => step > 8 \/ step = 8
      BY <1>2, <3>2
    <3>4. lock' = lock
      OBVIOUS
    <3> QED BY <3>1, <3>3, <3>4 DEF LearntOK
  <2> QED BY <2>2, <2>3
<1>8. ThreadsOK'
  <2>1. Waiters' = {}
    BY <1>5 DEF Waiters
  <2>2. stage' \in Stages1
    BY <1>1, <1>2 DEF Stages1
  <2> QED BY <2>1, <2>2 DEF ThreadsOK
<1>9. FlagsOK'
  <2>1. stage \in Stages1 /\ stage' \in Stages1
    BY <1>1, <1>2 DEF Stages1
  <2>2. FlagsOK
    BY DEF RunInv
  <2>3. stage' \notin {"join", "over"} /\ stage \notin {"join", "over"}
    BY <1>1, <1>2
  <2> QED BY <2>1, <2>2, <2>3 DEF FlagsOK, flags
<1>10. \A m : Holders(m)' = {}
  BY <1>5 DEF Holders, Inside
<1>11. stage' \in Stages1
  BY <1>1, <1>2 DEF Stages1
<1>12. ExclusionOK' /\ ReadersFirstOK' /\ WriterFirstOK'
  <2>1. /\ stage' \notin Stages2 \cup Stages3 \cup Stages4 \cup Stages5
        /\ stage' \notin {"join", "over", "let reader go", "let peers go", "spawn readers"}
    BY <1>11 DEF Stages1, Stages2, Stages3, Stages4, Stages5
  <2>2. \A r \in Readers : pc'[r] = "unborn"
    BY <1>5, People
  <2> QED BY <1>10, <2>1, <2>2 DEF ExclusionOK, ReadersFirstOK, WriterFirstOK
<1> QED BY <1>1, <1>3, <1>4, <1>6, <1>7, <1>8, <1>9, <1>12, GoesOn DEF RunInv

(* What must be shown when the test gives up.                              *)
LEMMA GivesUp ==
    ASSUME TypeOK, outcome' \in {"failed", "aborted"},
           holding' \in [Modes -> Int], UNCHANGED <<lock, stage, step, flags>>,
           pc' \in [Workers -> Labels], handed' \subseteq get_expiretime \cup {"none"},
           Blamed' \/ ~KeepsContract(lock)
    PROVE  IInv'
<1>1. TypeOK'
  BY DEF TypeOK, flags
<1>2. OnlyBadDeadlineBlames'
  BY DEF OnlyBadDeadlineBlames, Blamed, Excused
<1>3. PassedMeansContract'
  BY DEF PassedMeansContract
<1>4. outcome' # "running"
  OBVIOUS
<1> QED BY <1>1, <1>2, <1>3, <1>4 DEF IInv

(* Main's place in test_rwl_basic, one of nine.                            *)
LEMMA Places ==
    ASSUME TypeOK
    PROVE  /\ step \in 1..9
           /\ \/ step = 1 \/ step = 2 \/ step = 3 \/ step = 4 \/ step = 5
              \/ step = 6 \/ step = 7 \/ step = 8 \/ step = 9
           /\ step < 9 => step + 1 \in 1..9
           /\ step < 9 => step # 9
  BY DEF TypeOK

(* What the lock does with a call of main when nobody waits.               *)
LEMMA MainAdmitted ==
    ASSUME TypeOK, RunInv, stage = "basic", step \notin {4, 5, 9},
           \A w \in waiting : w.mode = Basic[step].mode
    PROVE  Admits(Basic[step].mode) <=>
               /\ step = 2 => lock.wr
               /\ step = 3 => lock.sharing
               /\ step = 7 => lock.ww
               /\ step = 8 => lock.rw
<1>1. /\ holding["read"] = IF step \in {2, 3, 5} THEN 1 ELSE IF step = 4 THEN 2 ELSE 0
      /\ holding["write"] = IF step \in {7, 8, 9} THEN 1 ELSE 0
  BY DEF RunInv, BasicOK
<1>2. Basic[step].mode = IF step \in {1, 3, 4, 5, 8} THEN "read" ELSE "write"
  BY Places, BasicAt
<1>3. CASE step \in {1, 3, 8}
  <2>1. Basic[step].mode = "read" /\ NoneWaits("write")
    BY <1>2, <1>3 DEF NoneWaits
  <2>2. Admits("read") <=> (holding["read"] = 0 \/ lock.sharing)
                           /\ (holding["write"] = 0 \/ lock.rw)
    BY <2>1 DEF Admits
  <2> QED BY <1>1, <1>3, <2>1, <2>2
<1>4. CASE step \in {2, 6, 7}
  <2>1. Basic[step].mode = "write" /\ NoneWaits("read")
    BY <1>2, <1>4 DEF NoneWaits
  <2>2. Admits("write") <=> (holding["read"] = 0 \/ lock.wr)
                            /\ (holding["write"] = 0 \/ lock.ww)
    BY <2>1 DEF Admits
  <2> QED BY <1>1, <1>4, <2>1, <2>2
<1> QED BY <1>3, <1>4, Places

(* The answer 0, and what it says when main did not expect it.             *)
LEMMA MainGetsIt ==
    ASSUME TypeOK, RunInv, stage = "basic", outcome = "running",
           step \notin {4, 5, 9}, Admits(Basic[step].mode),
           \A w \in waiting : w.mode = Basic[step].mode,
           Hold(Basic[step].mode), waiting' = {}, Returns(Main, "0"),
           handed \subseteq handed', handed' \subseteq get_expiretime \cup {"none"},
           UNCHANGED <<lock, flags>>
    PROVE  IInv'
<1>1. /\ step = 2 => lock.wr
      /\ step = 3 => lock.sharing
      /\ step = 7 => lock.ww
      /\ step = 8 => lock.rw
  BY MainAdmitted
<1>2. /\ Basic[step].mode = IF step \in {1, 3, 4, 5, 8} THEN "read" ELSE "write"
      /\ Basic[step].ret = IF step \in {2, 7, 8} THEN "ETIMEDOUT" ELSE "0"
  BY Places, BasicAt
<1>3. /\ holding' \in [Modes -> Int]
      /\ step \in {1, 3, 8} => holding'["read"] = holding["read"] + 1
                               /\ holding'["write"] = holding["write"]
      /\ step \in {2, 6, 7} => holding'["write"] = holding["write"] + 1
                               /\ holding'["read"] = holding["read"]
  BY <1>2 DEF Hold, TypeOK, Modes
<1>4. CASE step \in {2, 7, 8}
  <2>1. Stop("failed") /\ UNCHANGED pc
    BY <1>2, <1>4, People DEF Returns
  <2>2. ~KeepsContract(lock)
    BY <1>1, <1>4 DEF KeepsContract, Excludes
  <2>3. pc' \in [Workers -> Labels]
    BY <2>1 DEF TypeOK
  <2> QED BY <1>3, <2>1, <2>2, <2>3, GivesUp DEF Stop
<1>5. CASE step \in {1, 3, 6}
  <2>1. NextCall /\ UNCHANGED pc
    BY <1>2, <1>5, People DEF Returns
  <2>2. step' = step + 1 /\ stage' = "basic"
    BY <1>5, <2>1, BasicAt DEF NextCall
  <2>3. /\ holding["read"] = IF step \in {2, 3, 5} THEN 1 ELSE IF step = 4 THEN 2 ELSE 0
        /\ holding["write"] = IF step \in {7, 8, 9} THEN 1 ELSE 0
    BY DEF RunInv, BasicOK
  <2>4. /\ holding'["read"] = IF step' \in {2, 3, 5} THEN 1 ELSE IF step' = 4 THEN 2 ELSE 0
        /\ holding'["write"] = IF step' \in {7, 8, 9} THEN 1 ELSE 0
    <3>1. CASE step = 1
      BY <3>1, <1>3, <2>2, <2>3
    <3>2. CASE step = 3
      BY <3>2, <1>3, <2>2, <2>3
    <3>3. CASE step = 6
      BY <3>3, <1>3, <2>2, <2>3
    <3> QED BY <1>5, <3>1, <3>2, <3>3
  <2>5. BasicOK'
    BY <2>4 DEF BasicOK
  <2> QED BY <1>1, <1>3, <1>5, <2>1, <2>5, Answered
<1> QED BY <1>4, <1>5, Places

(* The answer ETIMEDOUT, to a call the lock did not admit or one it did    *)
(* not even try.                                                           *)
LEMMA MainTimesOut ==
    ASSUME TypeOK, RunInv, stage = "basic", outcome = "running",
           step \notin {4, 5, 9},
           Excused' \/ ~Admits(Basic[step].mode),
           \A w \in waiting : w.mode = Basic[step].mode,
           UNCHANGED holding, waiting' = {}, Returns(Main, "ETIMEDOUT"),
           handed \subseteq handed', handed' \subseteq get_expiretime \cup {"none"},
           UNCHANGED <<lock, flags>>
    PROVE  IInv'
<1>1. \/ Excused'
      \/ ~ /\ step = 2 => lock.wr
           /\ step = 3 => lock.sharing
           /\ step = 7 => lock.ww
           /\ step = 8 => lock.rw
  BY MainAdmitted
<1>2. Basic[step].ret = IF step \in {2, 7, 8} THEN "ETIMEDOUT" ELSE "0"
  BY Places, BasicAt
<1>3. holding' \in [Modes -> Int]
  BY DEF TypeOK
<1>4. CASE step \in {1, 3, 6}
  <2>1. Stop("failed") /\ UNCHANGED pc
    BY <1>2, <1>4, People DEF Returns
  <2>2. Blamed' \/ ~KeepsContract(lock)
    BY <1>1, <1>4 DEF KeepsContract, Excludes, Blamed
  <2>3. pc' \in [Workers -> Labels]
    BY <2>1 DEF TypeOK
  <2> QED BY <1>3, <2>1, <2>2, <2>3, GivesUp DEF Stop
<1>5. CASE step \in {2, 7, 8}
  <2>1. NextCall /\ UNCHANGED pc
    BY <1>2, <1>5, People DEF Returns
  <2>2. step' = step + 1 /\ stage' = "basic"
    BY <1>5, <2>1, BasicAt DEF NextCall
  <2>3. /\ holding["read"] = IF step \in {2, 3, 5} THEN 1 ELSE IF step = 4 THEN 2 ELSE 0
        /\ holding["write"] = IF step \in {7, 8, 9} THEN 1 ELSE 0
    BY DEF RunInv, BasicOK
  <2>4. /\ holding'["read"] = IF step' \in {2, 3, 5} THEN 1 ELSE IF step' = 4 THEN 2 ELSE 0
        /\ holding'["write"] = IF step' \in {7, 8, 9} THEN 1 ELSE 0
    <3>1. CASE step = 2
      BY <3>1, <2>2, <2>3
    <3>2. CASE step = 7
      BY <3>2, <2>2, <2>3
    <3>3. CASE step = 8
      BY <3>3, <2>2, <2>3
    <3> QED BY <1>5, <3>1, <3>2, <3>3
  <2>5. BasicOK'
    BY <2>4 DEF BasicOK
  <2> QED BY <1>1, <1>3, <1>5, <2>1, <2>5, Answered
<1> QED BY <1>4, <1>5, Places

LEMMA BasicInv == IInv /\ outcome = "running" /\ test_rwl_basic => IInv'
<1> SUFFICES ASSUME IInv, outcome = "running", test_rwl_basic PROVE IInv'
  OBVIOUS
<1>1. /\ TypeOK /\ RunInv /\ stage = "basic" /\ UNCHANGED <<lock, flags>>
      /\ \A w \in waiting : w.thread # Main
  BY DEF IInv, test_rwl_basic
<1>2. waiting = {} /\ \A t \in Workers : pc[t] = "unborn"
  <2>1. \A w \in waiting : w.thread = Main
    BY <1>1 DEF RunInv, BasicOK
  <2> QED BY <1>1, <2>1, People DEF RunInv, SpawnOK, Stages1
<1>3. /\ Basic[step].call = IF step \in {4, 5, 9} THEN "unlock" ELSE "lock"
      /\ Basic[step].mode = IF step \in {1, 3, 4, 5, 8} THEN "read" ELSE "write"
      /\ step \notin {4, 5, 9} => (Basic[step].timed <=> step \in {2, 3, 7, 8})
  BY <1>1, Places, BasicAt
<1>4. CASE step \in {4, 5, 9}
  <2>1. /\ Release(Basic[step].mode) /\ NextCall /\ UNCHANGED <<waiting, handed, pc>>
    BY <1>3, <1>4 DEF test_rwl_basic
  <2>2. /\ holding' \in [Modes -> Int]
        /\ step \in {4, 5} => holding'["read"] = holding["read"] - 1
                              /\ holding'["write"] = holding["write"]
    BY <1>1, <1>3, <1>4, <2>1 DEF Release, TypeOK, Modes
  <2>3. ASSUME step < 9 PROVE BasicOK'
    <3>1. step \in {4, 5} /\ step' = step + 1
      BY <1>1, <1>4, <2>1, <2>3, BasicAt, Places DEF NextCall
    <3>2. holding["read"] = (IF step = 4 THEN 2 ELSE 1) /\ holding["write"] = 0
      BY <1>1, <3>1 DEF RunInv, BasicOK
    <3>3. waiting' = {}
      BY <1>2, <2>1
    <3>4. CASE step = 4
      BY <2>2, <3>1, <3>2, <3>3, <3>4 DEF BasicOK
    <3>5. CASE step = 5
      BY <2>2, <3>1, <3>2, <3>3, <3>5 DEF BasicOK
    <3> QED BY <3>1, <3>4, <3>5
  <2>4. step # 2 /\ step # 3 /\ step # 7 /\ step # 8
    BY <1>4
  <2>5. handed \subseteq handed' /\ handed' \subseteq get_expiretime \cup {"none"}
    BY <1>1, <2>1 DEF TypeOK
  <2> QED BY <1>1, <1>2, <2>1, <2>2, <2>3, <2>4, <2>5, Answered
<1>5. CASE step \notin {4, 5, 9}
  <2> DEFINE m == Basic[step].mode
  <2>1. PICK e \in (IF Basic[step].timed THEN get_expiretime ELSE {"none"}) :
           handed' = handed \cup {e} /\ Acquire(Main, m, e)
    BY <1>3, <1>5 DEF test_rwl_basic
  <2>2. handed \subseteq handed' /\ handed' \subseteq get_expiretime \cup {"none"}
    BY <1>1, <2>1 DEF TypeOK
  <2>3. \A w \in waiting : w.mode = m
    BY <1>2
  <2>4. CASE e = "past" /\ lock.early
    <3>1. Returns(Main, "ETIMEDOUT") /\ UNCHANGED lockVars
      BY <2>1, <2>4 DEF Acquire
    <3>2. Excused'
      BY <1>1, <2>1, <2>4 DEF Excused
    <3>3. UNCHANGED holding /\ waiting' = {}
      BY <1>2, <3>1 DEF lockVars
    <3> QED BY <1>1, <1>5, <2>2, <2>3, <3>1, <3>2, <3>3, MainTimesOut
  <2>5. CASE ~(e = "past" /\ lock.early) /\ Admits(m)
    <3>1. Hold(m) /\ Returns(Main, "0") /\ UNCHANGED waiting
      BY <2>1, <2>5 DEF Acquire
    <3>2. waiting' = {}
      BY <1>2, <3>1
    <3> QED BY <1>1, <1>5, <2>2, <2>3, <2>5, <3>1, <3>2, MainGetsIt
  <2>6. CASE ~(e = "past" /\ lock.early) /\ ~Admits(m)
    <3> DEFINE c == [thread |-> Main, mode |-> m, expire |-> e]
    <3>1. waiting' = {c} /\ UNCHANGED <<holding, stage, step, outcome, pc>>
      BY <1>2, <2>1, <2>6 DEF Acquire
    <3>2. ~ /\ step = 2 => lock.wr
            /\ step = 3 => lock.sharing
            /\ step = 7 => lock.ww
            /\ step = 8 => lock.rw
      BY <1>1, <1>5, <2>3, <2>6, MainAdmitted
    <3>3. step \in {2, 3, 7, 8} /\ e \in get_expiretime
      BY <1>1, <1>3, <1>5, <2>1, <3>2, Places
    <3>4. TypeOK'
      BY <1>1, <2>2, <3>1 DEF TypeOK, flags
    <3>5. BasicOK'
      <4>1. \A w \in waiting' : w.thread = Main /\ w.mode = m /\ w.expire = e
        BY <3>1
      <4>2. e \in handed'
        BY <2>1
      <4>3. \A v, w \in waiting' : v = w
        BY <3>1
      <4>4. UNCHANGED <<lock, step, holding>>
        BY <1>1, <3>1
      <4>5. BasicOK
        BY <1>1 DEF RunInv
      <4>6. /\ step = 2 => ~lock.wr
            /\ step = 3 => ~lock.sharing
            /\ step = 7 => ~lock.ww
            /\ step = 8 => ~lock.rw
        BY <3>2
      <4> QED BY <1>1, <3>3, <4>1, <4>2, <4>3, <4>4, <4>5, <4>6 DEF BasicOK
    <3>6. SpawnOK' /\ FlagsOK' /\ LearntOK'
      <4>1. Excused => Excused'
        BY <1>1, <2>2 DEF Excused
      <4> QED BY <1>1, <3>1, <4>1 DEF RunInv, SpawnOK, FlagsOK, LearntOK, flags
    <3>7. ThreadsOK' /\ ExclusionOK' /\ ReadersFirstOK' /\ WriterFirstOK'
      <4>1. stage' = "basic" /\ stage' \in Stages1
        BY <1>1, <3>1 DEF Stages1
      <4> QED BY <4>1 DEF ThreadsOK, ExclusionOK, ReadersFirstOK, WriterFirstOK
    <3>8. outcome' = "running"
      BY <3>1
    <3> QED BY <3>4, <3>5, <3>6, <3>7, <3>8, GoesOn DEF RunInv
  <2> QED BY <2>4, <2>5, <2>6
<1> QED BY <1>4, <1>5

(* In test_rwl_basic only main waits, and after it only the threads.       *)
LEMMA Callers ==
    ASSUME TypeOK, RunInv, NEW w \in waiting
    PROVE  \/ stage = "basic" /\ w.thread = Main
           \/ /\ stage # "basic" /\ w.thread \in Workers /\ pc[w.thread] = "waiting"
              /\ w = Call(w.thread) /\ w.mode = Mode(w.thread) /\ w.expire = "none"
<1>1. CASE stage = "basic"
  BY <1>1 DEF RunInv, BasicOK
<1>2. CASE stage # "basic"
  <2>1. PICK t \in Waiters : w = Call(t)
    BY <1>2 DEF RunInv, ThreadsOK
  <2>2. t \in Workers /\ pc[t] = "waiting"
    BY DEF Waiters
  <2>3. w.thread = t /\ w.mode = Mode(t) /\ w.expire = "none"
    BY <2>1 DEF Call
  <2> QED BY <1>2, <2>1, <2>2, <2>3
<1> QED BY <1>1, <1>2

LEMMA MainInLockInv == IInv /\ outcome = "running" /\ InLock(Main) => IInv'
<1> SUFFICES ASSUME IInv, outcome = "running", InLock(Main) PROVE IInv'
  OBVIOUS
<1>1. TypeOK /\ RunInv
  BY DEF IInv
<1>2. PICK w \in waiting : w.thread = Main /\ cond_timedwait(w)
  BY DEF InLock
<1>3. stage = "basic"
  BY <1>1, <1>2, Callers, People
<1>4. /\ waiting = {w} /\ w.mode = Basic[step].mode
      /\ w.expire \in handed \cap get_expiretime
      /\ step \in {2, 3, 7, 8}
      /\ step = 2 => ~lock.wr
      /\ step = 3 => ~lock.sharing
      /\ step = 7 => ~lock.ww
      /\ step = 8 => ~lock.rw
  BY <1>1, <1>2, <1>3 DEF RunInv, BasicOK
<1>5. /\ UNCHANGED <<lock, handed, flags>> /\ step \notin {4, 5, 9}
      /\ \A v \in waiting : v.mode = Basic[step].mode
      /\ handed \subseteq handed' /\ handed' \subseteq get_expiretime \cup {"none"}
  BY <1>1, <1>2, <1>4 DEF cond_timedwait, TypeOK
<1>6. ~Admits(Basic[step].mode)
  BY <1>1, <1>3, <1>4, <1>5, MainAdmitted
<1>7. CASE TimedOut(w)
  <2>1. UNCHANGED holding /\ waiting' = {} /\ Returns(Main, "ETIMEDOUT")
    BY <1>2, <1>4, <1>7 DEF TimedOut
  <2> QED BY <1>1, <1>3, <1>5, <1>6, <2>1, MainTimesOut
<1>8. CASE NotValid(w)
  <2>1. /\ w.expire = "invalid" /\ outcome' = "aborted"
        /\ UNCHANGED <<stage, step, holding, pc>>
    BY <1>8 DEF NotValid, Stop, lockVars
  <2>2. Blamed'
    BY <1>4, <1>5, <2>1 DEF Blamed
  <2>3. holding' \in [Modes -> Int] /\ pc' \in [Workers -> Labels]
    BY <1>1, <2>1 DEF TypeOK
  <2> QED BY <1>1, <1>5, <2>1, <2>2, <2>3, GivesUp
<1>9. ~Admitted(w)
  BY <1>4, <1>6 DEF Admitted
<1> QED BY <1>2, <1>7, <1>8, <1>9 DEF cond_timedwait
-----------------------------------------------------------------------------
(* test_rwl_priority: main's steps.                                        *)

(* Spawning and waking change neither who is inside nor who waits.         *)
LEMMA MainKeeps ==
    ASSUME TypeOK, RunInv, stage \notin Stages1, stage' # "basic",
           UNCHANGED <<lock, waiting, handed, step, holding>>,
           \A t \in Workers : /\ pc'[t] \in Inside <=> pc[t] \in Inside
                              /\ pc'[t] = "waiting" <=> pc[t] = "waiting"
    PROVE  /\ BasicOK' /\ LearntOK' /\ ThreadsOK' /\ ExclusionOK'
           /\ step = 9 /\ step' = 9
<1>1. stage # "basic"
  BY DEF Stages1
<1>2. Waiters' = Waiters /\ \A m : Holders(m)' = Holders(m)
  BY DEF Waiters, Holders
<1>3. BasicOK'
  BY DEF BasicOK
<1>4. LearntOK'
  <2>1. Excused' <=> Excused
    BY DEF Excused
  <2> QED BY <2>1 DEF RunInv, LearntOK
<1>5. ThreadsOK'
  BY <1>1, <1>2 DEF RunInv, ThreadsOK
<1>6. ExclusionOK'
  <2>1. Excludes(lock)' <=> Excludes(lock)
    BY DEF Excludes
  <2>2. Holders("write")' = Holders("write") /\ Holders("read")' = Holders("read")
    BY <1>2
  <2> QED BY <1>1, <2>1, <2>2 DEF RunInv, ExclusionOK
<1>7. step = 9
  BY <1>1 DEF RunInv, SpawnOK
<1> QED BY <1>3, <1>4, <1>5, <1>6, <1>7

(* What spawning and waking do to the threads.                             *)
LEMMA Spawned ==
    ASSUME TypeOK, NEW ts, \A t \in Workers : t \in ts => pc[t] = "unborn", Spawn(ts)
    PROVE  /\ pc' \in [Workers -> Labels]
           /\ \A t \in Workers : pc'[t] = IF t \in ts THEN "call" ELSE pc[t]
           /\ \A t \in Workers : /\ pc'[t] \in Inside <=> pc[t] \in Inside
                                 /\ pc'[t] = "waiting" <=> pc[t] = "waiting"
<1>1. \A t \in Workers : pc'[t] = IF t \in ts THEN "call" ELSE pc[t]
  BY DEF Spawn
<1>2. pc' \in [Workers -> Labels]
  <2>1. \A t \in Workers : (IF t \in ts THEN "call" ELSE pc[t]) \in Labels
    BY DEF TypeOK, Labels
  <2> QED BY <2>1 DEF Spawn
<1>3. ASSUME NEW t \in Workers
      PROVE  /\ pc'[t] \in Inside <=> pc[t] \in Inside
             /\ pc'[t] = "waiting" <=> pc[t] = "waiting"
  BY <1>1 DEF Inside
<1> QED BY <1>1, <1>2, <1>3

LEMMA Woken ==
    ASSUME TypeOK, NEW ts, Broadcast(ts)
    PROVE  /\ pc' \in [Workers -> Labels]
           /\ \A t \in Workers : \/ pc'[t] = pc[t]
                                 \/ t \in ts /\ pc[t] = "sleep" /\ pc'[t] = "awake"
           /\ \A t \in Workers : /\ pc'[t] \in Inside <=> pc[t] \in Inside
                                 /\ pc'[t] = "waiting" <=> pc[t] = "waiting"
<1>1. \A t \in Workers : pc'[t] = IF t \in ts /\ pc[t] = "sleep" THEN "awake" ELSE pc[t]
  BY DEF Broadcast, Sleepers
<1>2. pc' \in [Workers -> Labels]
  <2>1. \A t \in Workers : (IF t \in Sleepers(ts) THEN "awake" ELSE pc[t]) \in Labels
    BY DEF TypeOK, Labels, Inside
  <2> QED BY <2>1 DEF Broadcast
<1>3. ASSUME NEW t \in Workers
      PROVE  /\ pc'[t] \in Inside <=> pc[t] \in Inside
             /\ pc'[t] = "waiting" <=> pc[t] = "waiting"
  BY <1>1 DEF Inside
<1> QED BY <1>1, <1>2, <1>3

LEMMA SpawnLingerInv == IInv /\ outcome = "running" /\ SpawnLinger => IInv'
<1> SUFFICES ASSUME IInv, outcome = "running", SpawnLinger PROVE IInv'
  OBVIOUS
<1>1. /\ TypeOK /\ RunInv /\ stage = "spawn linger" /\ stage' = "see reader"
      /\ UNCHANGED <<lock, waiting, handed, step, flags, outcome>>
      /\ Spawn({Linger}) /\ holding' = [m \in Modes |-> 0]
  BY DEF IInv, SpawnLinger, Main1
<1>2. \A t \in Workers : pc[t] = "unborn"
  BY <1>1, People DEF RunInv, SpawnOK, Stages1
<1>3. /\ pc' \in [Workers -> Labels]
      /\ \A t \in Workers : pc'[t] = IF t \in {Linger} THEN "call" ELSE pc[t]
  BY <1>1, <1>2, Spawned
<1>4. \A t \in Workers : pc'[t] \in {"call", "unborn"}
  BY <1>2, <1>3
<1>5. Waiters = {} /\ Waiters' = {} /\ \A m : Holders(m)' = {}
  BY <1>2, <1>4 DEF Waiters, Holders, Inside
<1>6. TypeOK'
  <2>1. stage' \in Stages
    BY <1>1 DEF Stages, Stages2
  <2>2. [m \in Modes |-> 0] \in [Modes -> Int]
    OBVIOUS
  <2>3. holding' \in [Modes -> Int]
    BY <1>1, <2>2
  <2> QED BY <2>1, <2>3, <1>1, <1>3 DEF TypeOK, flags
<1>7. SpawnOK'
  BY <1>1, <1>2, <1>3, People DEF RunInv, SpawnOK, Stages1
<1>8. BasicOK' /\ LearntOK'
  BY <1>1 DEF RunInv, BasicOK, LearntOK, Excused
<1>9. ThreadsOK'
  <2>1. waiting = {} /\ waiting' = {}
    BY <1>1, <1>5 DEF RunInv, ThreadsOK
  <2>2. \A m \in Modes : holding'[m] = Cardinality(Holders(m)')
    BY <1>1, <1>5, FS_EmptySet
  <2> QED BY <1>5, <2>1, <2>2 DEF ThreadsOK
<1>10. FlagsOK'
  <2>1. /\ reader_getout = 0 /\ peers_getout = 0
        /\ reader_in_cs = 1 => pc[Linger] \in {"sleep", "awake", "unlock", "done"}
        /\ who_is_in_cs = 1 => pc[Writer] \in {"sleep", "awake", "unlock", "done"}
        /\ who_is_in_cs = 2 => \E r \in Readers : pc[r] \in {"sleep", "awake", "unlock", "done"}
    BY <1>1 DEF RunInv, FlagsOK, Stages1
  <2>2. reader_in_cs # 1 /\ who_is_in_cs # 1 /\ who_is_in_cs # 2
    BY <1>2, <2>1, People
  <2> QED BY <1>1, <1>4, <2>1, <2>2, People DEF FlagsOK, flags
<1>11. ExclusionOK'
  BY <1>5 DEF ExclusionOK
<1>12. ReadersFirstOK' /\ WriterFirstOK'
  <2>1. \A t \in Workers : pc'[t] # "waiting" /\ pc'[t] \in {"unborn", "call", "waiting"}
    BY <1>4
  <2>2. stage' = "see reader"
    BY <1>1
  <2> QED BY <2>1, <2>2, People DEF ReadersFirstOK, WriterFirstOK, Stages4, Stages5
<1> QED BY <1>1, <1>6, <1>7, <1>8, <1>9, <1>10, <1>11, <1>12, GoesOn DEF RunInv

LEMMA SeeReaderInv == IInv /\ outcome = "running" /\ SeeReader => IInv'
<1> SUFFICES ASSUME IInv, outcome = "running", SeeReader PROVE IInv'
  OBVIOUS
<1>1. /\ TypeOK /\ RunInv /\ stage = "see reader" /\ stage' = "spawn writer"
      /\ UNCHANGED <<lock, waiting, handed, step, holding, pc, flags, outcome>>
      /\ reader_in_cs = 1
  BY DEF IInv, SeeReader, Main1
<1>2. stage \notin Stages1 /\ stage' # "basic"
  BY <1>1 DEF Stages1
<1>3. BasicOK' /\ LearntOK' /\ ThreadsOK' /\ ExclusionOK' /\ step = 9 /\ step' = 9
  BY <1>1, <1>2, MainKeeps
<1>4. TypeOK'
  BY <1>1 DEF TypeOK, Stages, Stages2, flags
<1>5. SpawnOK'
  BY <1>1, <1>3 DEF RunInv, SpawnOK, Stages1, Stages2, Stages3
<1>6. FlagsOK'
  BY <1>1 DEF RunInv, FlagsOK, Stages1, Stages2, Stages3, Stages4, flags
<1>7. ReadersFirstOK'
  BY <1>1 DEF RunInv, ReadersFirstOK, Stages2, Stages3, Stages4, Stages5
<1>8. WriterFirstOK'
  BY <1>1 DEF RunInv, WriterFirstOK, Stages4, Stages5, flags
<1> QED BY <1>1, <1>3, <1>4, <1>5, <1>6, <1>7, <1>8, GoesOn DEF RunInv

LEMMA SpawnWriterInv == IInv /\ outcome = "running" /\ SpawnWriter => IInv'
<1> SUFFICES ASSUME IInv, outcome = "running", SpawnWriter PROVE IInv'
  OBVIOUS
<1>1. /\ TypeOK /\ RunInv /\ stage = "spawn writer" /\ stage' = "see writer"
      /\ UNCHANGED <<lock, waiting, handed, step, holding, flags, outcome>>
      /\ Spawn({Writer})
  BY DEF IInv, SpawnWriter, Main1
<1>2. /\ stage \notin Stages1 /\ stage' # "basic"
      /\ pc[Writer] = "unborn" /\ \A r \in Readers : pc[r] = "unborn"
  BY <1>1 DEF RunInv, SpawnOK, Stages1, Stages2
<1>3. /\ pc' \in [Workers -> Labels]
      /\ \A t \in Workers : pc'[t] = IF t \in {Writer} THEN "call" ELSE pc[t]
      /\ \A t \in Workers : /\ pc'[t] \in Inside <=> pc[t] \in Inside
                            /\ pc'[t] = "waiting" <=> pc[t] = "waiting"
  BY <1>1, <1>2, Spawned
<1>4. BasicOK' /\ LearntOK' /\ ThreadsOK' /\ ExclusionOK' /\ step = 9 /\ step' = 9
  BY <1>1, <1>2, <1>3, MainKeeps
<1>5. TypeOK'
  BY <1>1, <1>3 DEF TypeOK, Stages, Stages3, flags
<1>6. pc'[Linger] = pc[Linger] /\ pc'[Writer] = "call" /\ \A r \in Readers : pc'[r] = pc[r]
  BY <1>3, People
<1>7. SpawnOK'
  BY <1>1, <1>2, <1>4, <1>6 DEF SpawnOK, Stages1, Stages2, Stages3
<1>8. FlagsOK'
  <2>1. FlagsOK /\ stage \notin Stages1 \cup {"see reader"} /\ stage' \in Stages3
        /\ stage \in Stages2 /\ stage \notin {"join", "over"}
    BY <1>1 DEF RunInv, Stages1, Stages2, Stages3
  <2>2. \A t \in Workers \ {Linger} : pc'[t] \notin {"unlock", "done"}
    BY <1>2, <1>6, People
  <2>3. who_is_in_cs # 1
    BY <1>2, <2>1 DEF FlagsOK
  <2> QED BY <1>1, <1>6, <2>1, <2>2, <2>3 DEF FlagsOK, flags
<1>9. ReadersFirstOK'
  BY <1>1, <1>3 DEF RunInv, ReadersFirstOK, Stages2, Stages3, Stages4, Stages5
<1>10. WriterFirstOK'
  BY <1>1, <1>2, <1>6 DEF WriterFirstOK, Stages4, Stages5
<1> QED BY <1>1, <1>4, <1>5, <1>7, <1>8, <1>9, <1>10, GoesOn DEF RunInv

(* While the lingering reader is inside, a lock that excludes keeps the    *)
(* writer out.                                                             *)
LEMMA Lingers ==
    ASSUME TypeOK, RunInv, stage \in Stages3 \cup Stages4
    PROVE  /\ pc[Linger] \in Inside /\ reader_in_cs = 1
           /\ reader_getout = 0 /\ peers_getout = 0
           /\ Excludes(lock) => pc[Writer] \notin Inside /\ holding["write"] = 0
<1>1. /\ stage \notin Stages1 \cup {"see reader", "basic", "join", "over"}
      /\ stage \in Stages1 \cup Stages2 \cup Stages3 \cup Stages4
  BY DEF Stages1, Stages2, Stages3, Stages4
<1>2. /\ pc[Linger] \in Inside /\ reader_in_cs = 1
      /\ reader_getout = 0 /\ peers_getout = 0
  BY <1>1 DEF RunInv, FlagsOK, Inside
<1>3. Linger \in Holders("read")
  BY <1>2, People DEF Holders, Mode, Writer, Linger
<1>4. Excludes(lock) => Holders("write") = {}
  BY <1>1, <1>3 DEF RunInv, ExclusionOK
<1>5. Excludes(lock) => pc[Writer] \notin Inside
  BY <1>4, People DEF Holders, Mode
<1>6. Excludes(lock) => holding["write"] = 0
  BY <1>1, <1>4, FS_EmptySet DEF RunInv, ThreadsOK, Modes
<1> QED BY <1>2, <1>5, <1>6

LEMMA SeeWriterInv == IInv /\ outcome = "running" /\ SeeWriter => IInv'
<1> SUFFICES ASSUME IInv, outcome = "running", SeeWriter PROVE IInv'
  OBVIOUS
<1>1. /\ TypeOK /\ RunInv /\ stage = "see writer" /\ stage' = "spawn readers"
      /\ UNCHANGED <<lock, waiting, handed, step, holding, pc, flags, outcome>>
      /\ rwl_nwaiters = 1
  BY DEF IInv, SeeWriter, Main1
<1>2. /\ stage \notin Stages1 /\ stage' # "basic"
      /\ \A r \in Readers : pc[r] = "unborn"
  BY <1>1 DEF RunInv, SpawnOK, Stages1, Stages3
<1>3. BasicOK' /\ LearntOK' /\ ThreadsOK' /\ ExclusionOK' /\ step = 9 /\ step' = 9
  BY <1>1, <1>2, MainKeeps
<1>4. TypeOK'
  BY <1>1 DEF TypeOK, Stages, Stages3, flags
<1>5. SpawnOK'
  BY <1>1, <1>2, <1>3 DEF SpawnOK, Stages1, Stages2, Stages3
<1>6. FlagsOK'
  BY <1>1 DEF RunInv, FlagsOK, Stages1, Stages2, Stages3, Stages4, flags
<1>7. ReadersFirstOK'
  BY <1>1 DEF RunInv, ReadersFirstOK, Stages2, Stages3, Stages4, Stages5
<1>8. KeepsContract(lock) => pc[Writer] = "waiting"
  <2> SUFFICES ASSUME KeepsContract(lock) PROVE pc[Writer] = "waiting"
    OBVIOUS
  <2>1. ~lock.counts_held
    BY DEF KeepsContract
  <2>2. waiting # {}
    <3>1. waiting = {} => Cardinality(waiting) = 0
      BY FS_EmptySet
    <3>2. rwl_nwaiters = Cardinality(waiting) + 0 /\ 0 + 0 # 1
      BY <2>1 DEF rwl_nwaiters
    <3> QED BY <1>1, <3>1, <3>2
  <2>3. PICK t \in Workers : pc[t] = "waiting"
    BY <1>1, <1>2, <2>2 DEF RunInv, ThreadsOK, Waiters
  <2>4. pc[Linger] \in Inside
    BY <1>1, Lingers DEF Stages3
  <2> QED BY <1>2, <2>3, <2>4, People DEF Inside
<1>9. WriterFirstOK'
  BY <1>1, <1>2, <1>8 DEF WriterFirstOK, Stages4, Stages5
<1> QED BY <1>1, <1>3, <1>4, <1>5, <1>6, <1>7, <1>9, GoesOn DEF RunInv

LEMMA SpawnReadersInv == IInv /\ outcome = "running" /\ SpawnReaders => IInv'
<1> SUFFICES ASSUME IInv, outcome = "running", SpawnReaders PROVE IInv'
  OBVIOUS
<1>1. /\ TypeOK /\ RunInv /\ stage = "spawn readers" /\ stage' = "look"
      /\ UNCHANGED <<lock, waiting, handed, step, holding, flags, outcome>>
      /\ Spawn(Readers)
  BY DEF IInv, SpawnReaders, Main1
<1>2. /\ stage \notin Stages1 /\ stage' # "basic" /\ stage \in Stages3
      /\ \A r \in Readers : pc[r] = "unborn"
  BY <1>1 DEF RunInv, SpawnOK, Stages1, Stages3
<1>3. /\ pc' \in [Workers -> Labels]
      /\ \A t \in Workers : pc'[t] = IF t \in Readers THEN "call" ELSE pc[t]
      /\ \A t \in Workers : /\ pc'[t] \in Inside <=> pc[t] \in Inside
                            /\ pc'[t] = "waiting" <=> pc[t] = "waiting"
  BY <1>1, <1>2, Spawned, People
<1>4. BasicOK' /\ LearntOK' /\ ThreadsOK' /\ ExclusionOK' /\ step = 9 /\ step' = 9
  BY <1>1, <1>2, <1>3, MainKeeps
<1>5. TypeOK'
  BY <1>1, <1>3 DEF TypeOK, Stages, Stages4, flags
<1>6. pc'[Linger] = pc[Linger] /\ pc'[Writer] = pc[Writer] /\ \A r \in Readers : pc'[r] = "call"
  BY <1>3, People
<1>7. SpawnOK'
  BY <1>1, <1>4 DEF SpawnOK, Stages1, Stages2, Stages3
<1>8. FlagsOK'
  <2>1. FlagsOK /\ stage \notin Stages1 \cup {"see reader"} /\ stage' \in Stages4
        /\ stage \in Stages3 /\ stage \notin {"join", "over"}
    BY <1>1 DEF RunInv, Stages1, Stages3, Stages4
  <2>2. \A t \in Workers \ {Linger} : pc'[t] \notin {"unlock", "done"}
    BY <1>2, <1>6, <2>1, People DEF FlagsOK
  <2>3. who_is_in_cs # 2
    BY <1>2, <2>1 DEF FlagsOK
  <2> QED BY <1>1, <1>6, <2>1, <2>2, <2>3 DEF FlagsOK, flags
<1>9. ReadersFirstOK'
  BY <1>1, <1>3 DEF RunInv, ReadersFirstOK, Stages2, Stages3, Stages4, Stages5
<1>10. WriterFirstOK'
  BY <1>1, <1>6 DEF RunInv, WriterFirstOK, Stages4, Stages5
<1> QED BY <1>1, <1>4, <1>5, <1>7, <1>8, <1>9, <1>10, GoesOn DEF RunInv

(* Nobody is in the critical section while the writer waits for its turn.  *)
LEMMA LookInv == IInv /\ outcome = "running" /\ Look => IInv'
<1> SUFFICES ASSUME IInv, outcome = "running", Look PROVE IInv'
  OBVIOUS
<1>1. /\ TypeOK /\ RunInv /\ stage = "look" /\ stage' = "see all"
      /\ UNCHANGED <<lock, waiting, handed, step, holding, pc, flags>>
      /\ outcome' = IF who_is_in_cs = 0 THEN outcome ELSE "failed"
  BY DEF IInv, Look, Main1
<1>2. stage \notin Stages1 /\ stage' # "basic" /\ stage \in Stages4
  BY <1>1 DEF Stages1, Stages4
<1>3. BasicOK' /\ LearntOK' /\ ThreadsOK' /\ ExclusionOK' /\ step = 9 /\ step' = 9
  BY <1>1, <1>2, MainKeeps
<1>4. TypeOK'
  BY <1>1 DEF TypeOK, Stages, Stages4, flags
<1>5. SpawnOK'
  BY <1>1, <1>3 DEF SpawnOK, Stages1, Stages2, Stages3
<1>6. FlagsOK'
  BY <1>1 DEF RunInv, FlagsOK, Stages1, Stages2, Stages3, Stages4, flags
<1>7. ReadersFirstOK'
  BY <1>1 DEF RunInv, ReadersFirstOK, Stages2, Stages3, Stages4, Stages5
<1>8. WriterFirstOK'
  BY <1>1 DEF RunInv, WriterFirstOK, Stages4, Stages5, flags
<1>9. KeepsContract(lock) => who_is_in_cs = 0
  <2> SUFFICES ASSUME KeepsContract(lock) PROVE who_is_in_cs = 0
    OBVIOUS
  <2>1. pc[Writer] \notin Inside /\ peers_getout = 0
    BY <1>1, <1>2, Lingers DEF KeepsContract
  <2>2. \A r \in Readers : pc[r] \in {"unborn", "call", "waiting"}
    BY <1>1, <2>1 DEF RunInv, WriterFirstOK
  <2>3. who_is_in_cs # 2
    BY <1>1, <2>2 DEF RunInv, FlagsOK
  <2>4. who_is_in_cs # 1
    BY <1>1, <2>1, People DEF RunInv, FlagsOK, Inside
  <2> QED BY <1>1, <2>3, <2>4 DEF TypeOK
<1>10. CASE who_is_in_cs = 0
  <2>1. outcome' = "running"
    BY <1>1, <1>10
  <2> QED BY <2>1, <1>3, <1>4, <1>5, <1>6, <1>7, <1>8, GoesOn DEF RunInv
<1>11. CASE who_is_in_cs # 0
  BY <1>1, <1>4, <1>9, <1>11 DEF IInv, PassedMeansContract, OnlyBadDeadlineBlames
<1> QED BY <1>10, <1>11

(* With a lock that prefers readers main sees all of them only when one is *)
(* inside: those who hold the lock are not all of those it counts.         *)
LEMMA SeeAllInv == IInv /\ outcome = "running" /\ SeeAll => IInv'
<1> SUFFICES ASSUME IInv, outcome = "running", SeeAll PROVE IInv'
  OBVIOUS
<1>1. /\ TypeOK /\ RunInv /\ stage = "see all" /\ stage' = "let reader go"
      /\ UNCHANGED <<lock, waiting, handed, step, holding, pc, flags, outcome>>
      /\ rwl_nwaiters = Cardinality(Readers) + 1
  BY DEF IInv, SeeAll, Main1
<1>2. stage \notin Stages1 /\ stage' # "basic" /\ stage \in Stages4
  BY <1>1 DEF Stages1, Stages4
<1>3. BasicOK' /\ LearntOK' /\ ThreadsOK' /\ ExclusionOK' /\ step = 9 /\ step' = 9
  BY <1>1, <1>2, MainKeeps
<1>4. TypeOK'
  BY <1>1 DEF TypeOK, Stages, Stages4, flags
<1>5. SpawnOK'
  BY <1>1, <1>3 DEF SpawnOK, Stages1, Stages2, Stages3
<1>6. FlagsOK'
  BY <1>1 DEF RunInv, FlagsOK, Stages1, Stages2, Stages3, Stages4, flags
<1>7. ReadersFirstOK'
  <2> SUFFICES ASSUME Excludes(lock), lock.policy = "readers"
               PROVE  /\ \A t \in Workers \ {Writer} : pc[t] # "waiting"
                      /\ \E r \in Readers : pc[r] \in Inside
    BY <1>1 DEF ReadersFirstOK, Stages2, Stages3, Stages4, Stages5
  <2>1. \A t \in Workers \ {Writer} : pc[t] # "waiting"
    BY <1>1, <1>2 DEF RunInv, ReadersFirstOK
  <2>2. ASSUME \A r \in Readers : pc[r] \notin Inside PROVE FALSE
    <3>1. waiting \subseteq {Call(Writer)}
      BY <1>1, <2>1 DEF RunInv, ThreadsOK, Waiters
    <3>2. Holders("read") \subseteq {Linger}
      BY <2>2, People DEF Holders
    <3>3. Cardinality({Call(Writer)}) = 1 /\ Cardinality({Linger}) = 1
          /\ IsFiniteSet({Call(Writer)}) /\ IsFiniteSet({Linger})
      BY FS_Singleton
    <3>4. Cardinality(waiting) \in Nat /\ Cardinality(waiting) <= 1
      BY <3>1, <3>3, FS_Subset, FS_CardinalityType
    <3>5. Cardinality(Holders("read")) \in Nat /\ Cardinality(Holders("read")) <= 1
      BY <3>2, <3>3, FS_Subset, FS_CardinalityType
    <3>6. holding["read"] = Cardinality(Holders("read")) /\ holding["write"] = 0
      BY <1>1, <1>2, Lingers DEF RunInv, ThreadsOK, Modes
    <3>7. rwl_nwaiters = Cardinality(waiting)
             + (IF lock.counts_held THEN Cardinality(Holders("read")) + 0 ELSE 0)
      BY <3>6 DEF rwl_nwaiters
    <3> DEFINE a == Cardinality(waiting)
               b == Cardinality(Holders("read"))
               c == Cardinality(Readers)
    <3>8. a \in Nat /\ a <= 1 /\ b \in Nat /\ b <= 1 /\ c \in Nat /\ c > 1
          /\ (c + 1 = a + (b + 0) \/ c + 1 = a + 0)
      BY <1>1, <3>4, <3>5, <3>7, People
    <3> HIDE DEF a, b, c
    <3> QED BY <3>8
  <2> QED BY <2>1, <2>2
<1>8. WriterFirstOK'
  BY <1>1 DEF RunInv, WriterFirstOK, Stages4, Stages5, flags
<1> QED BY <1>1, <1>3, <1>4, <1>5, <1>6, <1>7, <1>8, GoesOn DEF RunInv

LEMMA LetReaderGoInv == IInv /\ outcome = "running" /\ LetReaderGo => IInv'
<1> SUFFICES ASSUME IInv, outcome = "running", LetReaderGo PROVE IInv'
  OBVIOUS
<1>1. /\ TypeOK /\ RunInv /\ stage = "let reader go" /\ stage' = "who"
      /\ UNCHANGED <<lock, waiting, handed, step, holding, reader_in_cs, who_is_in_cs,
                     peers_getout, outcome>>
      /\ reader_getout' = 1 /\ Broadcast({Linger})
  BY DEF IInv, LetReaderGo, Main1
<1>2. stage \notin Stages1 /\ stage' # "basic" /\ stage \in Stages4
  BY <1>1 DEF Stages1, Stages4
<1>3. /\ pc' \in [Workers -> Labels]
      /\ \A t \in Workers : \/ pc'[t] = pc[t]
                            \/ t \in {Linger} /\ pc[t] = "sleep" /\ pc'[t] = "awake"
      /\ \A t \in Workers : /\ pc'[t] \in Inside <=> pc[t] \in Inside
                            /\ pc'[t] = "waiting" <=> pc[t] = "waiting"
  BY <1>1, Woken
<1>4. BasicOK' /\ LearntOK' /\ ThreadsOK' /\ ExclusionOK' /\ step = 9 /\ step' = 9
  BY <1>1, <1>2, <1>3, MainKeeps
<1>5. TypeOK'
  BY <1>1, <1>3 DEF TypeOK, Stages, Stages5, flags
<1>6. pc'[Writer] = pc[Writer] /\ \A r \in Readers : pc'[r] = pc[r]
  BY <1>3, People
<1>7. SpawnOK'
  BY <1>1, <1>4 DEF SpawnOK, Stages1, Stages2, Stages3
<1>8. FlagsOK'
  <2>1. FlagsOK /\ stage \notin Stages1 \cup {"see reader", "join", "over"}
    BY <1>1 DEF RunInv, Stages1
  <2>2. stage' \notin Stages1 \cup Stages2 \cup Stages3 \cup Stages4
    BY <1>1 DEF Stages1, Stages2, Stages3, Stages4
  <2>3. \A t \in Workers \ {Linger} : pc'[t] \notin {"unlock", "done"}
    BY <1>6, <2>1, People DEF FlagsOK
  <2>4. pc'[Linger] \in {"sleep", "awake", "unlock", "done"}
    BY <1>3, <2>1, People DEF FlagsOK
  <2>6. reader_getout' = 1 /\ 1 # 0
    <3>1. 1 # 0
      OBVIOUS
    <3> QED BY <1>1, <3>1
  <2>5. reader_getout' # 0 /\ stage' \notin {"join", "over"} /\ peers_getout' = 0
        /\ reader_in_cs' = 1 /\ who_is_in_cs' = who_is_in_cs
    BY <1>1, <2>1, <2>6 DEF FlagsOK
  <2> QED BY <1>6, <2>1, <2>2, <2>3, <2>4, <2>5 DEF FlagsOK
<1>9. ReadersFirstOK'
  BY <1>1, <1>6 DEF RunInv, ReadersFirstOK, Stages2, Stages3, Stages4, Stages5
<1>10. WriterFirstOK'
  BY <1>1, <1>6 DEF RunInv, WriterFirstOK, Stages4, Stages5
<1> QED BY <1>1, <1>4, <1>5, <1>7, <1>8, <1>9, <1>10, GoesOn DEF RunInv

(* It is the writer who is in the critical section.                        *)
LEMMA WhoInv == IInv /\ outcome = "running" /\ Who => IInv'
<1> SUFFICES ASSUME IInv, outcome = "running", Who PROVE IInv'
  OBVIOUS
<1>1. /\ TypeOK /\ RunInv /\ stage = "who" /\ stage' = "let peers go"
      /\ UNCHANGED <<lock, waiting, handed, step, holding, pc, flags>>
      /\ outcome' = IF who_is_in_cs = 1 THEN outcome ELSE "failed"
      /\ who_is_in_cs # 0
  BY DEF IInv, Who, Main1
<1>2. stage \notin Stages1 /\ stage' # "basic" /\ stage \in Stages5
  BY <1>1 DEF Stages1, Stages5
<1>3. BasicOK' /\ LearntOK' /\ ThreadsOK' /\ ExclusionOK' /\ step = 9 /\ step' = 9
  BY <1>1, <1>2, MainKeeps
<1>4. TypeOK'
  BY <1>1 DEF TypeOK, Stages, Stages5, flags
<1>5. SpawnOK'
  BY <1>1, <1>3 DEF SpawnOK, Stages1, Stages2, Stages3
<1>6. FlagsOK'
  BY <1>1 DEF RunInv, FlagsOK, Stages1, Stages2, Stages3, Stages4, flags
<1>7. WriterFirstOK'
  BY <1>1 DEF RunInv, WriterFirstOK, Stages4, Stages5, flags
<1>8. peers_getout = 0
  BY <1>1 DEF RunInv, FlagsOK
<1>9. KeepsContract(lock) => who_is_in_cs = 1
  <2> SUFFICES ASSUME KeepsContract(lock) PROVE who_is_in_cs = 1
    OBVIOUS
  <2>1. \A r \in Readers : pc[r] \in {"unborn", "call", "waiting"}
    BY <1>1, <1>8 DEF RunInv, WriterFirstOK
  <2>2. who_is_in_cs # 2
    BY <1>1, <2>1 DEF RunInv, FlagsOK
  <2> QED BY <1>1, <2>2 DEF TypeOK
<1>10. CASE who_is_in_cs = 1
  <2>1. pc[Writer] \in Inside
    BY <1>1, <1>8, <1>10, People DEF RunInv, FlagsOK, Inside
  <2>2. Writer \in Holders("write")
    BY <2>1, People DEF Holders
  <2>3. ReadersFirstOK'
    <3>1. ASSUME Excludes(lock), lock.policy = "readers" PROVE FALSE
      <4>1. PICK r \in Readers : pc[r] \in Inside
        BY <1>1, <1>2, <3>1 DEF RunInv, ReadersFirstOK
      <4>2. r \in Holders("read")
        BY <4>1, People DEF Holders, Mode
      <4> QED BY <1>1, <2>2, <3>1, <4>2 DEF RunInv, ExclusionOK
    <3>2. UNCHANGED lock
      BY <1>1
    <3> QED BY <3>1, <3>2 DEF ReadersFirstOK, Excludes
  <2>4. outcome' = "running"
    BY <1>1, <1>10
  <2> QED BY <2>3, <2>4, <1>3, <1>4, <1>5, <1>6, <1>7, GoesOn DEF RunInv
<1>11. CASE who_is_in_cs # 1
  BY <1>1, <1>4, <1>9, <1>11 DEF IInv, PassedMeansContract, OnlyBadDeadlineBlames
<1> QED BY <1>10, <1>11

LEMMA LetPeersGoInv == IInv /\ outcome = "running" /\ LetPeersGo => IInv'
<1> SUFFICES ASSUME IInv, outcome = "running", LetPeersGo PROVE IInv'
  OBVIOUS
<1>1. /\ TypeOK /\ RunInv /\ stage = "let peers go" /\ stage' = "join"
      /\ UNCHANGED <<lock, waiting, handed, step, holding, reader_in_cs, who_is_in_cs,
                     reader_getout, outcome>>
      /\ peers_getout' = 1 /\ Broadcast(Workers \ {Linger})
  BY DEF IInv, LetPeersGo, Main1
<1>2. stage \notin Stages1 /\ stage' # "basic" /\ stage \in Stages5
  BY <1>1 DEF Stages1, Stages5
<1>3. /\ pc' \in [Workers -> Labels]
      /\ \A t \in Workers : \/ pc'[t] = pc[t]
                            \/ t \in Workers \ {Linger} /\ pc[t] = "sleep" /\ pc'[t] = "awake"
      /\ \A t \in Workers : /\ pc'[t] \in Inside <=> pc[t] \in Inside
                            /\ pc'[t] = "waiting" <=> pc[t] = "waiting"
  BY <1>1, Woken
<1>4. BasicOK' /\ LearntOK' /\ ThreadsOK' /\ ExclusionOK' /\ step = 9 /\ step' = 9
  BY <1>1, <1>2, <1>3, MainKeeps
<1>5. TypeOK'
  BY <1>1, <1>3 DEF TypeOK, Stages, flags
<1>6. /\ pc'[Linger] = pc[Linger]
      /\ \A t \in Workers : pc[t] \in {"sleep", "awake", "unlock", "done"}
                            => pc'[t] \in {"sleep", "awake", "unlock", "done"}
  BY <1>3, People
<1>7. SpawnOK'
  BY <1>1, <1>4 DEF SpawnOK, Stages1, Stages2, Stages3
<1>8. FlagsOK'
  <2>1. FlagsOK /\ stage \notin Stages1 \cup {"see reader", "join", "over"}
    BY <1>1 DEF RunInv, Stages1
  <2>2. stage' \notin Stages1 \cup Stages2 \cup Stages3 \cup Stages4
    BY <1>1 DEF Stages1, Stages2, Stages3, Stages4
  <2>4. peers_getout' = 1 /\ 1 # 0
    <3>1. 1 # 0
      OBVIOUS
    <3> QED BY <1>1, <3>1
  <2>3. peers_getout' # 0 /\ reader_getout' = reader_getout /\ stage' = "join"
        /\ reader_in_cs' = 1 /\ who_is_in_cs' = who_is_in_cs
    BY <1>1, <2>1, <2>4 DEF FlagsOK
  <2> QED BY <1>6, <2>1, <2>2, <2>3, People DEF FlagsOK
<1>9. ReadersFirstOK'
  BY <1>1 DEF RunInv, ReadersFirstOK
<1>10. WriterFirstOK'
  <2>1. KeepsContract(lock) => pc'[Writer] \in Inside \cup {"waiting", "done"}
    <3>1. KeepsContract(lock) => pc[Writer] \in Inside \cup {"waiting", "done"}
      BY <1>1, <1>2 DEF RunInv, WriterFirstOK
    <3> QED BY <1>3, <3>1, People DEF Inside
  <2>3. peers_getout' = 1 /\ 1 # 0
    <3>1. 1 # 0
      OBVIOUS
    <3> QED BY <1>1, <3>1
  <2>2. peers_getout' # 0 /\ UNCHANGED lock
    BY <1>1, <2>3
  <2> QED BY <2>1, <2>2 DEF WriterFirstOK, KeepsContract, Excludes
<1> QED BY <1>1, <1>4, <1>5, <1>7, <1>8, <1>9, <1>10, GoesOn DEF RunInv

(* The lock that gets here did everything the test asked for.              *)
LEMMA JoinInv == IInv /\ outcome = "running" /\ Join => IInv'
<1> SUFFICES ASSUME IInv, outcome = "running", Join PROVE IInv'
  OBVIOUS
<1>1. /\ TypeOK /\ RunInv /\ stage = "join" /\ stage' = "over" /\ outcome' = "PASSED"
      /\ UNCHANGED <<lock, waiting, handed, step, holding, pc, flags>>
  BY DEF IInv, Join, Main1
<1>2. step = 9 /\ (step > 2 /\ step > 3 /\ step > 7 /\ step > 8)
  BY <1>1 DEF RunInv, SpawnOK
<1>3. Excused \/ Excludes(lock)
  BY <1>1, <1>2 DEF RunInv, LearntOK, Excludes
<1>4. Excludes(lock) => lock.policy # "readers"
  BY <1>1 DEF RunInv, ReadersFirstOK
<1>5. TypeOK'
  BY <1>1 DEF TypeOK, Stages, flags
<1>6. PassedMeansContract'
  BY <1>1, <1>3, <1>4 DEF PassedMeansContract, Excused, Excludes
<1> QED BY <1>1, <1>5, <1>6 DEF IInv, OnlyBadDeadlineBlames
-----------------------------------------------------------------------------
(* The threads of test_rwl_priority.                                       *)

(* A thread that exists was spawned.                                       *)
LEMMA Born ==
    ASSUME TypeOK, RunInv, NEW t \in Workers, pc[t] # "unborn"
    PROVE  /\ stage \notin Stages1 /\ stage # "basic"
           /\ t = Writer => stage \notin Stages2
           /\ t \in Readers => stage \notin Stages2 \cup Stages3
           /\ step = 9
  BY People DEF RunInv, SpawnOK, Stages1, Stages2, Stages3

(* A thread that enters.                                                   *)
LEMMA ThreadGetsIt ==
    ASSUME TypeOK, RunInv, outcome = "running",
           NEW t \in Workers, pc[t] \in {"call", "waiting"},
           Admits(Mode(t)), Hold(Mode(t)),
           pc' = [pc EXCEPT ![t] = "got"], waiting' = waiting \ {Call(t)},
           UNCHANGED <<lock, handed, stage, step, flags, outcome>>
    PROVE  IInv'
<1>1. "got" \in Labels /\ "got" \in Inside /\ pc[t] \notin Inside
  BY DEF Labels, Inside
<1>2. /\ pc' \in [Workers -> Labels] /\ pc'[t] = "got"
      /\ \A u \in Workers : u # t => pc'[u] = pc[u]
      /\ \A m : Holders(m)' = IF Mode(t) = m THEN Holders(m) \cup {t} ELSE Holders(m) \ {t}
      /\ Waiters' = Waiters \ {t}
  BY <1>1, Moved
<1>3. stage \notin Stages1 /\ stage # "basic"
  BY Born
<1>4. \A m : t \notin Holders(m)
  BY <1>1 DEF Holders
<1>5. \A m \in Modes : holding[m] = Cardinality(Holders(m))
  BY <1>3 DEF RunInv, ThreadsOK
<1>6. TypeOK'
  <2> DEFINE v == holding[Mode(t)] + 1
  <2>1. v \in Int /\ holding \in [Modes -> Int]
    BY People DEF TypeOK
  <2>2. holding' = [holding EXCEPT ![Mode(t)] = v]
    BY DEF Hold
  <2> HIDE DEF v
  <2>3. holding' \in [Modes -> Int]
    BY <2>1, <2>2
  <2> QED BY <1>2, <2>3 DEF TypeOK, flags
<1>7. SpawnOK'
  BY <1>2, <1>3, People DEF RunInv, SpawnOK
<1>8. BasicOK' /\ LearntOK'
  BY <1>3 DEF RunInv, BasicOK, LearntOK, Excused
<1>9. ThreadsOK'
  <2>1. waiting' = {Call(u) : u \in Waiters'}
    <3>1. \A u, v : Call(u) = Call(v) => u = v
      BY DEF Call
    <3>2. waiting = {Call(u) : u \in Waiters}
      BY <1>3 DEF RunInv, ThreadsOK
    <3> QED BY <1>2, <3>1, <3>2
  <2>2. ASSUME NEW m \in Modes PROVE holding'[m] = Cardinality(Holders(m)')
    <3>1. CASE m = Mode(t)
      <4>1. Holders(m)' = Holders(m) \cup {t} /\ t \notin Holders(m)
        BY <1>2, <1>4, <3>1
      <4>2. Cardinality(Holders(m) \cup {t}) = Cardinality(Holders(m)) + 1
        BY <4>1, Counting, FS_AddElement
      <4>3. holding'[m] = holding[m] + 1
        BY <3>1 DEF Hold, TypeOK
      <4> QED BY <1>5, <4>1, <4>2, <4>3
    <3>2. CASE m # Mode(t)
      <4>1. Holders(m)' = Holders(m)
        BY <1>2, <1>4, <3>2
      <4>2. holding'[m] = holding[m]
        BY <3>2 DEF Hold, TypeOK
      <4> QED BY <1>5, <4>1, <4>2
    <3> QED BY <3>1, <3>2
  <2> QED BY <2>1, <2>2 DEF ThreadsOK
<1>10. FlagsOK'
  <2>1. FlagsOK
    BY DEF RunInv
  <2>2. \A u \in Workers : /\ pc'[u] \in {"unlock", "done"} => pc[u] \in {"unlock", "done"}
                           /\ pc[u] \in {"sleep", "awake", "unlock", "done"} => pc'[u] = pc[u]
    BY <1>2
  <2> QED BY <2>1, <2>2, People DEF FlagsOK, flags
<1>11. ExclusionOK'
  <2> SUFFICES ASSUME Excludes(lock) PROVE Holders("write")' = {} \/ Holders("read")' = {}
    BY DEF ExclusionOK, Excludes
  <2>1. CASE Mode(t) = "read"
    <3>1. holding["write"] = 0
      BY <2>1 DEF Admits, Excludes
    <3>2. Holders("write") = {}
      BY <1>5, <3>1, Counting DEF Modes
    <3>3. Holders("write")' = {}
      BY <1>2, <2>1, <3>2
    <3> QED BY <3>3
  <2>2. CASE Mode(t) # "read"
    <3>1. holding["read"] = 0
      BY <2>2 DEF Admits, Excludes
    <3>2. Holders("read") = {}
      BY <1>5, <3>1, Counting DEF Modes
    <3>3. Holders("read")' = {}
      BY <1>2, <2>2, <3>2
    <3> QED BY <3>3
  <2> QED BY <2>1, <2>2
<1>12. ReadersFirstOK'
  <2>1. ReadersFirstOK
    BY DEF RunInv
  <2>2. \A u \in Workers : /\ pc'[u] = "waiting" => pc[u] = "waiting"
                           /\ pc[u] \in Inside => pc'[u] \in Inside
    BY <1>1, <1>2
  <2> QED BY <1>3, <2>1, <2>2, People DEF ReadersFirstOK, Excludes
<1>13. WriterFirstOK'
  <2>1. ASSUME KeepsContract(lock), peers_getout = 0, t \in Readers PROVE FALSE
    <3>1. Mode(t) = "read" /\ lock.policy = "writers" /\ ~lock.rw
      BY <2>1, People DEF KeepsContract, Excludes, Modes
    <3>2. NoneWaits("write") /\ holding["write"] = 0
      BY <3>1 DEF Admits
    <3>3. stage \in Stages4 \cup Stages5 \cup {"join", "over"}
      BY <1>1, <2>1, Born DEF TypeOK, Stages
    <3>4. pc[Writer] \in Inside \cup {"waiting"}
      <4>1. pc[Writer] \in Inside \cup {"waiting", "done"}
        BY <1>3, <2>1, <3>3 DEF RunInv, WriterFirstOK
      <4>2. pc[Writer] # "done"
        <5>1. Writer \in Workers \ {Linger}
          BY People
        <5> QED BY <2>1, <5>1 DEF RunInv, FlagsOK
      <4> QED BY <4>1, <4>2
    <3>5. CASE pc[Writer] = "waiting"
      <4>1. Call(Writer) \in waiting
        BY <1>3, <3>5, People DEF RunInv, ThreadsOK, Waiters
      <4>2. Call(Writer).mode = "write"
        BY DEF Call, Mode
      <4> QED BY <3>2, <4>1, <4>2 DEF NoneWaits
    <3>6. CASE pc[Writer] \in Inside
      <4>1. Writer \in Holders("write")
        BY <3>6, People DEF Holders
      <4> QED BY <1>5, <3>2, <4>1, Counting DEF Modes
    <3> QED BY <3>4, <3>5, <3>6
  <2>2. WriterFirstOK
    BY DEF RunInv
  <2>3. UNCHANGED <<lock, peers_getout, stage>>
    BY DEF flags
  <2>4. KeepsContract(lock) /\ peers_getout = 0 => \A r \in Readers : r # t
    BY <2>1
  <2>5. \A r \in Readers : r # t => pc'[r] = pc[r]
    BY <1>2, People
  <2>6. pc'[Writer] = pc[Writer] \/ pc'[Writer] \in Inside
    BY <1>1, <1>2, People
  <2> QED BY <1>3, <2>2, <2>3, <2>4, <2>5, <2>6 DEF WriterFirstOK, KeepsContract, Excludes
<1> QED BY <1>6, <1>7, <1>8, <1>9, <1>10, <1>11, <1>12, <1>13, GoesOn DEF RunInv

(* A thread that the lock does not admit.                                  *)
LEMMA ThreadWaits ==
    ASSUME TypeOK, RunInv, outcome = "running",
           NEW t \in Workers, pc[t] = "call", ~Admits(Mode(t)),
           pc' = [pc EXCEPT ![t] = "waiting"], waiting' = waiting \cup {Call(t)},
           UNCHANGED <<lock, holding, handed, stage, step, flags, outcome>>
    PROVE  IInv'
<1>1. "waiting" \in Labels /\ "waiting" \notin Inside /\ pc[t] \notin Inside
  BY DEF Labels, Inside
<1>2. /\ pc' \in [Workers -> Labels] /\ pc'[t] = "waiting"
      /\ \A u \in Workers : u # t => pc'[u] = pc[u]
      /\ \A m : Holders(m)' = Holders(m) \ {t}
      /\ Waiters' = Waiters \cup {t}
  BY <1>1, Moved
<1>3. stage \notin Stages1 /\ stage # "basic"
  BY Born
<1>4. \A m : Holders(m)' = Holders(m)
  BY <1>1, <1>2 DEF Holders
<1>5. TypeOK'
  BY <1>2 DEF TypeOK, flags
<1>6. SpawnOK'
  BY <1>2, <1>3, People DEF RunInv, SpawnOK
<1>7. BasicOK' /\ LearntOK'
  BY <1>3 DEF RunInv, BasicOK, LearntOK, Excused
<1>8. ThreadsOK'
  <2>1. waiting = {Call(u) : u \in Waiters}
        /\ \A m \in Modes : holding[m] = Cardinality(Holders(m))
    BY <1>3 DEF RunInv, ThreadsOK
  <2>2. waiting' = {Call(u) : u \in Waiters'}
    BY <1>2, <2>1
  <2>3. \A m \in Modes : holding'[m] = Cardinality(Holders(m)')
    BY <1>4, <2>1
  <2> QED BY <2>2, <2>3 DEF ThreadsOK
<1>9. FlagsOK'
  <2>1. FlagsOK
    BY DEF RunInv
  <2>2. \A u \in Workers : /\ pc'[u] \in {"unlock", "done"} => pc[u] \in {"unlock", "done"}
                           /\ pc[u] \in {"sleep", "awake", "unlock", "done"} => pc'[u] = pc[u]
    BY <1>2
  <2> QED BY <2>1, <2>2, People DEF FlagsOK, flags
<1>10. ExclusionOK'
  <2>1. Holders("write")' = Holders("write") /\ Holders("read")' = Holders("read")
    BY <1>4
  <2> QED BY <1>3, <2>1 DEF RunInv, ExclusionOK, Excludes
<1>11. ReadersFirstOK'
  <2>1. ReadersFirstOK
    BY DEF RunInv
  <2>2. \A u \in Workers : pc[u] \in Inside => pc'[u] \in Inside
    BY <1>1, <1>2
  <2>3. ASSUME Excludes(lock), lock.policy = "readers", t # Writer,
               stage \in Stages2 \cup Stages3 \cup Stages4
        PROVE  FALSE
    <3>1. Mode(t) = "read" /\ lock.sharing
      BY <2>3, People DEF Excludes, Modes
    <3>2. holding["write"] = 0
      <4>1. CASE stage \in Stages2
        <5>1. pc[Writer] = "unborn"
          BY <4>1 DEF RunInv, SpawnOK
        <5>2. Holders("write") = {}
          BY <5>1, People DEF Holders, Inside
        <5> QED BY <1>3, <5>2, Counting DEF RunInv, ThreadsOK, Modes
      <4>2. CASE stage \in Stages3 \cup Stages4
        BY <2>3, <4>2, Lingers
      <4> QED BY <2>3, <4>1, <4>2
    <3>3. Admits("read")
      BY <2>3, <3>1, <3>2 DEF Admits
    <3> QED BY <3>1, <3>3
  <2>4. Excludes(lock) /\ lock.policy = "readers" /\ stage \in Stages2 \cup Stages3 \cup Stages4
        => \A u \in Workers \ {Writer} : pc'[u] # "waiting"
    <3> SUFFICES ASSUME Excludes(lock), lock.policy = "readers",
                        stage \in Stages2 \cup Stages3 \cup Stages4,
                        NEW u \in Workers \ {Writer}
                 PROVE  pc'[u] # "waiting"
      OBVIOUS
    <3>1. t = Writer
      BY <2>3
    <3>2. pc[u] # "waiting"
      BY <1>3, <2>1 DEF ReadersFirstOK
    <3> QED BY <1>2, <3>1, <3>2
  <2> QED BY <1>3, <2>1, <2>2, <2>4, People DEF ReadersFirstOK, Excludes
<1>12. WriterFirstOK'
  <2>1. WriterFirstOK
    BY DEF RunInv
  <2>2. UNCHANGED <<lock, peers_getout, stage>>
    BY DEF flags
  <2>3. \A u \in Workers : pc'[u] = pc[u] \/ pc'[u] = "waiting"
    BY <1>2
  <2> QED BY <1>3, <2>1, <2>2, <2>3, People DEF WriterFirstOK, KeepsContract, Excludes
<1> QED BY <1>5, <1>6, <1>7, <1>8, <1>9, <1>10, <1>11, <1>12, GoesOn DEF RunInv

(* A thread goes about its business in the critical section.               *)
LEMMA ThreadStays ==
    ASSUME TypeOK, RunInv, outcome = "running",
           NEW t \in Workers, pc[t] \in Inside,
           NEW l \in {"sleep", "awake", "unlock"},
           l = "unlock" => Getout(t) # 0 \/ pc[t] = "unlock",
           pc' = [pc EXCEPT ![t] = l],
           \/ reader_in_cs' = reader_in_cs
           \/ t = Linger /\ reader_in_cs' = 1,
           \/ who_is_in_cs' = who_is_in_cs
           \/ t = Writer /\ who_is_in_cs' = 1
           \/ t \in Readers /\ who_is_in_cs' = 2,
           UNCHANGED <<lock, lockVars, handed, stage, step, reader_getout, peers_getout,
                       outcome>>
    PROVE  IInv'
<1>1. l \in Labels /\ l \in Inside /\ l # "waiting" /\ pc[t] # "waiting" /\ pc[t] # "unborn"
  BY DEF Labels, Inside
<1>2. /\ pc' \in [Workers -> Labels] /\ pc'[t] = l
      /\ \A u \in Workers : u # t => pc'[u] = pc[u]
      /\ \A m : Holders(m)' = Holders(m)
      /\ Waiters' = Waiters
  <2>1. /\ pc' \in [Workers -> Labels] /\ pc'[t] = l
        /\ \A u \in Workers : u # t => pc'[u] = pc[u]
    BY <1>1, Moved
  <2>2. \A u \in Workers : /\ pc'[u] \in Inside <=> pc[u] \in Inside
                           /\ pc'[u] = "waiting" <=> pc[u] = "waiting"
    BY <1>1, <2>1
  <2> QED BY <2>1, <2>2 DEF Holders, Waiters
<1>3. stage \notin Stages1 /\ stage # "basic"
  BY <1>1, Born
<1>4. TypeOK'
  <2>1. reader_in_cs' \in {0, 1} /\ who_is_in_cs' \in {0, 1, 2}
    BY DEF TypeOK
  <2> QED BY <1>2, <2>1 DEF TypeOK, lockVars
<1>5. SpawnOK'
  BY <1>1, <1>2, <1>3, People DEF RunInv, SpawnOK
<1>6. BasicOK' /\ LearntOK'
  BY <1>3 DEF RunInv, BasicOK, LearntOK, Excused
<1>7. ThreadsOK'
  BY <1>2, <1>3 DEF RunInv, ThreadsOK, lockVars
<1>8. FlagsOK'
  <2>1. FlagsOK
    BY DEF RunInv
  <2>2. \A u \in Workers :
           pc[u] \in {"sleep", "awake", "unlock", "done"}
           => pc'[u] \in {"sleep", "awake", "unlock", "done"}
    BY <1>2
  <2>3. pc'[t] \in {"sleep", "awake", "unlock", "done"} /\ pc'[t] # "done"
    BY <1>2
  <2>4. reader_getout' = 0 => pc'[Linger] \notin {"unlock", "done"}
    <3> SUFFICES ASSUME reader_getout = 0 PROVE pc'[Linger] \notin {"unlock", "done"}
      OBVIOUS
    <3>1. pc[Linger] \notin {"unlock", "done"}
      BY <2>1 DEF FlagsOK
    <3>2. CASE t = Linger
      <4>1. Getout(t) = 0
        BY <3>2 DEF Getout
      <4> QED BY <1>2, <2>3, <3>1, <3>2, <4>1
    <3>3. CASE t # Linger
      BY <1>2, <3>1, <3>3, People
    <3> QED BY <3>2, <3>3
  <2>5. peers_getout' = 0 => \A u \in Workers \ {Linger} : pc'[u] \notin {"unlock", "done"}
    <3> SUFFICES ASSUME peers_getout = 0, NEW u \in Workers \ {Linger}
                 PROVE  pc'[u] \notin {"unlock", "done"}
      OBVIOUS
    <3>1. pc[u] \notin {"unlock", "done"}
      BY <2>1 DEF FlagsOK
    <3>2. CASE t = u
      <4>1. Getout(t) = 0
        BY <3>2 DEF Getout
      <4> QED BY <1>2, <2>3, <3>1, <3>2, <4>1
    <3>3. CASE t # u
      BY <1>2, <3>1, <3>3
    <3> QED BY <3>2, <3>3
  <2>6. stage' \notin Stages1 \cup {"see reader"} => reader_in_cs' = 1
    BY <2>1 DEF FlagsOK
  <2>7. reader_in_cs' = 1 => pc'[Linger] \in {"sleep", "awake", "unlock", "done"}
    BY <2>1, <2>2, <2>3, People DEF FlagsOK
  <2>8. who_is_in_cs' = 1 => pc'[Writer] \in {"sleep", "awake", "unlock", "done"}
    <3>1. 1 # 2
      OBVIOUS
    <3> QED BY <3>1, <2>1, <2>2, <2>3, People DEF FlagsOK
  <2>9. who_is_in_cs' = 2 => \E r \in Readers : pc'[r] \in {"sleep", "awake", "unlock", "done"}
    <3>1. 1 # 2
      OBVIOUS
    <3> QED BY <3>1, <2>1, <2>2, <2>3, People DEF FlagsOK
  <2>10. /\ stage' \in Stages1 \cup Stages2 \cup Stages3 \cup Stages4 => reader_getout' = 0
         /\ stage' \notin {"join", "over"} => peers_getout' = 0
    BY <2>1 DEF FlagsOK
  <2> QED BY <2>4, <2>5, <2>6, <2>7, <2>8, <2>9, <2>10 DEF FlagsOK
<1>9. ExclusionOK'
  <2>1. Holders("write")' = Holders("write") /\ Holders("read")' = Holders("read")
    BY <1>2
  <2> QED BY <1>3, <2>1 DEF RunInv, ExclusionOK, Excludes
<1>10. \A u \in Workers : /\ pc'[u] = "waiting" <=> pc[u] = "waiting"
                          /\ pc[u] \in Inside <=> pc'[u] \in Inside
                          /\ pc[u] \notin Inside => pc'[u] = pc[u]
  BY <1>1, <1>2
<1>11. ReadersFirstOK'
  BY <1>3, <1>10, People DEF RunInv, ReadersFirstOK, Excludes
<1>12. WriterFirstOK'
  <2>1. WriterFirstOK
    BY DEF RunInv
  <2>2. \A x \in {"unborn", "call", "waiting"} : x \notin Inside
    BY DEF Inside
  <2> QED BY <1>3, <1>10, <2>1, <2>2, People DEF WriterFirstOK, KeepsContract, Excludes
<1>13. outcome' = "running"
  OBVIOUS
<1> QED BY <1>4, <1>5, <1>6, <1>7, <1>8, <1>9, <1>11, <1>12, <1>13, GoesOn DEF RunInv

LEMMA LeaveInv ==
    ASSUME IInv, outcome = "running", NEW t \in Workers, Leave(t) PROVE IInv'
<1>1. /\ TypeOK /\ RunInv /\ pc[t] = "unlock" /\ pc' = [pc EXCEPT ![t] = "done"]
      /\ Release(Mode(t))
      /\ UNCHANGED <<lock, waiting, handed, stage, step, flags, outcome>>
  BY DEF IInv, Leave, Goto
<1>2. "done" \in Labels /\ "done" \notin Inside /\ pc[t] \in Inside
  BY <1>1 DEF Labels, Inside
<1>3. /\ pc' \in [Workers -> Labels] /\ pc'[t] = "done"
      /\ \A u \in Workers : u # t => pc'[u] = pc[u]
      /\ \A m : Holders(m)' = Holders(m) \ {t}
      /\ Waiters' = Waiters
  BY <1>1, <1>2, Moved DEF Waiters
<1>4. stage \notin Stages1 /\ stage # "basic"
  BY <1>1, Born
<1>5. TypeOK'
  <2> DEFINE v == holding[Mode(t)] - 1
  <2>1. v \in Int /\ holding \in [Modes -> Int]
    BY <1>1, People DEF TypeOK
  <2>2. holding' = [holding EXCEPT ![Mode(t)] = v]
    BY <1>1 DEF Release
  <2> HIDE DEF v
  <2>3. holding' \in [Modes -> Int]
    BY <2>1, <2>2
  <2> QED BY <1>1, <1>3, <2>3 DEF TypeOK, flags
<1>6. SpawnOK'
  BY <1>1, <1>3, <1>4, People DEF RunInv, SpawnOK
<1>7. BasicOK' /\ LearntOK'
  BY <1>1, <1>4 DEF RunInv, BasicOK, LearntOK, Excused
<1>8. ThreadsOK'
  <2>1. waiting' = {Call(u) : u \in Waiters'}
    BY <1>1, <1>3, <1>4 DEF RunInv, ThreadsOK
  <2>2. ASSUME NEW m \in Modes PROVE holding'[m] = Cardinality(Holders(m)')
    <3>1. holding[m] = Cardinality(Holders(m)) /\ holding \in [Modes -> Int]
      BY <1>1, <1>4 DEF RunInv, ThreadsOK, TypeOK
    <3>2. CASE m = Mode(t)
      <4>1. Holders(m)' = Holders(m) \ {t} /\ t \in Holders(m)
        BY <1>2, <1>3, <3>2 DEF Holders
      <4>2. Cardinality(Holders(m) \ {t}) = Cardinality(Holders(m)) - 1
        BY <4>1, Counting, FS_RemoveElement
      <4>3. holding'[m] = holding[m] - 1
        BY <1>1, <3>1, <3>2 DEF Release
      <4> QED BY <3>1, <4>1, <4>2, <4>3
    <3>3. CASE m # Mode(t)
      <4>1. Holders(m)' = Holders(m)
        BY <1>3, <3>3 DEF Holders
      <4>2. holding'[m] = holding[m]
        BY <1>1, <3>1, <3>3 DEF Release
      <4> QED BY <3>1, <4>1, <4>2
    <3> QED BY <3>2, <3>3
  <2> QED BY <2>1, <2>2 DEF ThreadsOK
<1>9. FlagsOK
  BY <1>1 DEF RunInv
<1>10. FlagsOK'
  <2>1. \A u \in Workers : /\ pc'[u] \in {"unlock", "done"} => pc[u] \in {"unlock", "done"}
                           /\ pc[u] \in {"sleep", "awake", "unlock", "done"}
                              => pc'[u] \in {"sleep", "awake", "unlock", "done"}
    BY <1>1, <1>3
  <2> QED BY <1>1, <1>9, <2>1, People DEF FlagsOK, flags
<1>11. ExclusionOK'
  <2>1. Holders("write")' = Holders("write") \ {t} /\ Holders("read")' = Holders("read") \ {t}
    BY <1>3
  <2> QED BY <1>1, <1>4, <2>1 DEF RunInv, ExclusionOK, Excludes
<1>12. t \in Workers \ {Linger} => peers_getout # 0 /\ stage \in {"join", "over"}
  BY <1>1, <1>9 DEF FlagsOK
<1>13. ReadersFirstOK'
  <2>1. ReadersFirstOK /\ UNCHANGED <<lock, stage>>
    BY <1>1 DEF RunInv
  <2>2. stage \in Stages5 \cup {"let reader go"} => \A r \in Readers : pc'[r] = pc[r]
    BY <1>3, <1>12, People DEF Stages5
  <2>3. \A u \in Workers : pc'[u] = "waiting" => pc[u] = "waiting"
    BY <1>3
  <2> QED BY <1>4, <2>1, <2>2, <2>3 DEF ReadersFirstOK, Excludes
<1>14. WriterFirstOK'
  <2>1. WriterFirstOK /\ UNCHANGED <<lock, stage, peers_getout>>
    BY <1>1 DEF RunInv, flags
  <2>2. peers_getout = 0 => \A r \in Readers : pc'[r] = pc[r]
    BY <1>3, <1>12, People
  <2>3. pc'[Writer] = pc[Writer] \/ pc'[Writer] = "done"
    BY <1>3, People
  <2> QED BY <1>4, <2>1, <2>2, <2>3 DEF WriterFirstOK, KeepsContract, Excludes
<1> QED BY <1>1, <1>5, <1>6, <1>7, <1>8, <1>10, <1>11, <1>13, <1>14, GoesOn DEF RunInv

LEMMA WorkerInv ==
    ASSUME IInv, outcome = "running", NEW t \in Workers,
           WorkerStep(t) \/ SpuriousWakeup(t)
    PROVE  IInv'
<1>1. TypeOK /\ RunInv /\ t # Main
  BY People DEF IInv
<1>2. CASE CallLock(t)
  <2>1. /\ pc[t] = "call" /\ Acquire(t, Mode(t), "none")
        /\ UNCHANGED <<lock, handed, flags>>
    BY <1>2 DEF CallLock
  <2>2. CASE Admits(Mode(t))
    <3>1. Hold(Mode(t)) /\ Returns(t, "0") /\ UNCHANGED waiting
      BY <2>1, <2>2 DEF Acquire
    <3>2. pc' = [pc EXCEPT ![t] = "got"] /\ UNCHANGED <<stage, step, outcome>>
      BY <1>1, <3>1 DEF Returns
    <3>3. waiting' = waiting \ {Call(t)}
      <4>1. \A w \in waiting : w # Call(t)
        BY <1>1, <2>1, Born, Callers DEF Call
      <4> QED BY <3>1, <4>1
    <3> QED BY <1>1, <2>1, <2>2, <3>1, <3>2, <3>3, ThreadGetsIt
  <2>3. CASE ~Admits(Mode(t))
    <3>1. /\ waiting' = waiting \cup {Call(t)} /\ pc' = [pc EXCEPT ![t] = "waiting"]
          /\ UNCHANGED <<holding, stage, step, outcome>>
      BY <1>1, <2>1, <2>3 DEF Acquire, Call
    <3> QED BY <1>1, <2>1, <2>3, <3>1, ThreadWaits
  <2> QED BY <2>2, <2>3
<1>3. CASE InLock(t)
  <2>1. PICK w \in waiting : w.thread = t /\ cond_timedwait(w)
    BY <1>3 DEF InLock
  <2>2. /\ pc[t] = "waiting" /\ w = Call(t) /\ w.mode = Mode(t) /\ w.expire = "none"
    BY <1>1, <2>1, Callers
  <2>3. Admitted(w) /\ UNCHANGED <<lock, handed, flags>>
    BY <2>1, <2>2 DEF cond_timedwait, TimedOut, NotValid
  <2>4. /\ Admits(Mode(t)) /\ Hold(Mode(t)) /\ waiting' = waiting \ {Call(t)}
        /\ Returns(t, "0")
    BY <2>1, <2>2, <2>3 DEF Admitted
  <2>5. pc' = [pc EXCEPT ![t] = "got"] /\ UNCHANGED <<stage, step, outcome>>
    BY <1>1, <2>4 DEF Returns
  <2> QED BY <1>1, <2>2, <2>3, <2>4, <2>5, ThreadGetsIt
<1>4. CASE InCS(t)
  <2> DEFINE l == IF Getout(t) = 0 THEN "sleep" ELSE "unlock"
  <2>1. /\ pc[t] \in Inside /\ pc' = [pc EXCEPT ![t] = l]
        /\ UNCHANGED <<lock, lockVars, handed, stage, step, reader_getout, peers_getout,
                       outcome>>
    BY <1>4 DEF InCS, Goto, Inside
  <2>2. /\ \/ reader_in_cs' = reader_in_cs
           \/ t = Linger /\ reader_in_cs' = 1
        /\ \/ who_is_in_cs' = who_is_in_cs
           \/ t = Writer /\ who_is_in_cs' = 1
           \/ t \in Readers /\ who_is_in_cs' = 2
    BY <1>4, People DEF InCS
  <2>3. l \in {"sleep", "awake", "unlock"} /\ (l = "unlock" => Getout(t) # 0)
    OBVIOUS
  <2> HIDE DEF l
  <2> QED BY <1>1, <2>1, <2>2, <2>3, ThreadStays
<1>5. CASE Recheck(t)
  <2> DEFINE l == IF Getout(t) = 0 THEN "sleep" ELSE "unlock"
  <2>1. /\ pc[t] \in Inside /\ pc' = [pc EXCEPT ![t] = l]
        /\ UNCHANGED <<lock, lockVars, handed, stage, step, flags, outcome>>
    BY <1>5 DEF Recheck, Goto, Inside
  <2>2. UNCHANGED <<reader_in_cs, who_is_in_cs, reader_getout, peers_getout>>
    BY <2>1 DEF flags
  <2>3. l \in {"sleep", "awake", "unlock"} /\ (l = "unlock" => Getout(t) # 0)
    OBVIOUS
  <2> HIDE DEF l
  <2> QED BY <1>1, <2>1, <2>2, <2>3, ThreadStays
<1>6. CASE SpuriousWakeup(t)
  <2>1. /\ pc[t] \in Inside /\ pc' = [pc EXCEPT ![t] = "awake"]
        /\ UNCHANGED <<lock, lockVars, handed, stage, step, flags, outcome>>
    BY <1>6 DEF SpuriousWakeup, Goto, Inside
  <2>2. UNCHANGED <<reader_in_cs, who_is_in_cs, reader_getout, peers_getout>>
    BY <2>1 DEF flags
  <2> QED BY <1>1, <2>1, <2>2, ThreadStays
<1>7. CASE Leave(t)
  BY <1>7, LeaveInv
<1> QED BY <1>2, <1>3, <1>4, <1>5, <1>6, <1>7 DEF WorkerStep
-----------------------------------------------------------------------------
LEMMA InitInv == Init => IInv
<1> SUFFICES ASSUME Init PROVE IInv
  OBVIOUS
<1>1. /\ lock \in LockKinds /\ holding = [m \in Modes |-> 0] /\ waiting = {}
      /\ handed = {} /\ stage = "basic" /\ step = 1
      /\ pc = [t \in Workers |-> "unborn"]
      /\ reader_in_cs = 0 /\ who_is_in_cs = 0 /\ reader_getout = 0 /\ peers_getout = 0
      /\ outcome = "running"
  BY DEF Init
<1>2. TypeOK
  <2>1. [m \in Modes |-> 0] \in [Modes -> Int] /\ 1 \in 1..9
    OBVIOUS
  <2>2. [t \in Workers |-> "unborn"] \in [Workers -> Labels]
    BY DEF Labels
  <2>3. stage \in Stages
    BY <1>1 DEF Stages, Stages1
  <2> QED BY <1>1, <2>1, <2>2, <2>3 DEF TypeOK
<1>3. SpawnOK
  BY <1>1, People DEF SpawnOK
<1>4. BasicOK
  BY <1>1 DEF BasicOK, Modes
<1>5. LearntOK
  BY <1>1 DEF LearntOK
<1>6. ThreadsOK
  BY <1>1 DEF ThreadsOK, Stages1
<1>7. FlagsOK
  <2>1. /\ stage \in Stages1 /\ 0 # 1 /\ 0 # 2
        /\ \A t \in Workers : pc[t] = "unborn"
    BY <1>1 DEF Stages1
  <2> QED BY <1>1, <2>1, People DEF FlagsOK
<1>8. ExclusionOK /\ ReadersFirstOK /\ WriterFirstOK
  BY <1>1 DEF ExclusionOK, ReadersFirstOK, WriterFirstOK
<1>9. PassedMeansContract /\ OnlyBadDeadlineBlames
  BY <1>1 DEF PassedMeansContract, OnlyBadDeadlineBlames
<1> QED BY <1>2, <1>3, <1>4, <1>5, <1>6, <1>7, <1>8, <1>9 DEF IInv, RunInv

LEMMA NextInv == IInv /\ [Next]_vars => IInv'
<1> SUFFICES ASSUME IInv, [Next]_vars PROVE IInv'
  OBVIOUS
<1>1. CASE outcome = "running" /\ MainStep
  <2>1. CASE test_rwl_basic
    BY <1>1, <2>1, BasicInv
  <2>2. CASE InLock(Main)
    BY <1>1, <2>2, MainInLockInv
  <2>3. CASE test_rwl_priority
    BY <1>1, <2>3, SpawnLingerInv, SeeReaderInv, SpawnWriterInv, SeeWriterInv,
       SpawnReadersInv, LookInv, SeeAllInv, LetReaderGoInv, WhoInv, LetPeersGoInv, JoinInv
       DEF test_rwl_priority
  <2> QED BY <1>1, <2>1, <2>2, <2>3 DEF MainStep
<1>2. CASE \E t \in Workers :
              outcome = "running" /\ (WorkerStep(t) \/ SpuriousWakeup(t))
  BY <1>2, WorkerInv
<1>3. CASE UNCHANGED vars
  <2>1. UNCHANGED <<lock, holding, waiting, handed, stage, step, pc, reader_in_cs,
                    who_is_in_cs, reader_getout, peers_getout, outcome>>
    BY <1>3 DEF vars, lockVars, flags
  <2>2. TypeOK' /\ PassedMeansContract' /\ OnlyBadDeadlineBlames'
    BY <2>1 DEF IInv, TypeOK, PassedMeansContract, OnlyBadDeadlineBlames
  <2>3. RunInv => SpawnOK'
    BY <2>1 DEF RunInv, SpawnOK
  <2>6. RunInv => BasicOK' /\ LearntOK'
    BY <2>1 DEF RunInv, BasicOK, LearntOK, Excused
  <2>7. RunInv => FlagsOK'
    BY <2>1 DEF RunInv, FlagsOK
  <2>4. RunInv => ThreadsOK' /\ ExclusionOK'
    BY <2>1 DEF RunInv, ThreadsOK, Waiters, Holders, ExclusionOK
  <2>5. RunInv => ReadersFirstOK' /\ WriterFirstOK'
    BY <2>1 DEF RunInv, ReadersFirstOK, WriterFirstOK
  <2> QED BY <2>1, <2>2, <2>3, <2>4, <2>5, <2>6, <2>7 DEF IInv, RunInv
<1> QED BY <1>1, <1>2, <1>3 DEF Next

(* IInv is an inductive invariant of the test: what main, the lock and the *)
(* threads of testrwlock.c can know of each other at every step.           *)
THEOREM Invariance == Spec => []IInv
<1> QED BY InitInv, NextInv, PTL DEF Spec

(* However many readers compete and however they are scheduled, a lock     *)
(* that passes both tests excludes writers, shares among readers and does  *)
(* not put readers first, unless it gave up at once at a past deadline.    *)
THEOREM PassedIsSound == Spec => []PassedMeansContract
<1>1. IInv => PassedMeansContract
  BY DEF IInv
<1> QED BY <1>1, Invariance, PTL

(* No scheduling makes the test blame a lock that keeps the contract,      *)
(* except for a deadline that get_expiretime got wrong.                    *)
THEOREM BlameIsSound == Spec => []OnlyBadDeadlineBlames
<1>1. IInv => OnlyBadDeadlineBlames
  BY DEF IInv
<1> QED BY <1>1, Invariance, PTL
=============================================================================
