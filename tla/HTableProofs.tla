----------------------------- MODULE HTableProofs -----------------------------
(***************************************************************************)
(* Proofs about HTable for any number of threads, any keys and any hash    *)
(* function: first a table that is not resized, then what threads that     *)
(* race may do to the arrays while several of them resize the table, what  *)
(* inserts may do to each other's keys, what the pointers lead to whatever *)
(* races with whatever, and what the test of the table may then find.  The *)
(* second half is about one thread, which may resize the table: it is      *)
(* always a map, in the sense of KVMap.                                    *)
(***************************************************************************)
EXTENDS HTableInv, HTableMap, TestHash, TLAPS, NaturalsInduction, WellFoundedInduction

(* get_prime finds a prime no smaller than asked for (ArithProofs: there   *)
(* are primes without end), so no size of the table is 0.                  *)
Arith == INSTANCE ArithProofs WITH
    MaxMin <- 1, BIG_PRIME <- 1, RADIX <- 0, CHARS <- 1, Bytes <- {}, MaxLen <- 0,
    min <- 0, n <- 0, i <- 0, pc <- 0, len <- 0, p <- 0, q <- 0, plain <- 0

LEMMA NewSize ==
    ASSUME NEW b \in Nat \ {0}
    PROVE  get_prime(b) \in Nat \ {0}
<1>1. 1 \in Nat
  OBVIOUS
<1>2. /\ 1 \in Nat \ {0} /\ 0 \in Nat /\ 1 \in Nat /\ 0 \in Nat
      /\ 1 <= 1
      /\ {} \subseteq 1..(1 - 1)
      /\ (1 + 1) * 0 + 1 <= 2147483647
  OBVIOUS
<1>3. \A a \in Nat : Arith!get_prime(a) \in Nat /\ Arith!get_prime(a) >= a
  BY <1>1, <1>2, Arith!GetPrimeEnds
<1>4. \A a : Arith!get_prime(a) = get_prime(a)
  BY Zenon DEF Arith!get_prime, get_prime, Arith!is_prime, is_prime
<1>5. get_prime(b) \in Nat /\ get_prime(b) >= b
  BY <1>3, <1>4
<1> QED BY <1>5

(* The remainder htable_insert and htable_lookup take is a slot.           *)
LEMMA SlotInRange ==
    ASSUME NEW h \in Nat, NEW n \in Nat \ {0}
    PROVE  h % n \in Slots(n)
BY SMT DEF Slots

(* A sequence of one element is a function on 1..1.                        *)
LEMMA OneTuple ==
    ASSUME NEW x
    PROVE  <<x>> = [a \in 1..1 |-> x] /\ DOMAIN <<x>> = 1..1 /\ <<x>>[1] = x
<1>1. <<x>> = [a \in 1..1 |-> x]
  OBVIOUS
<1>2. DOMAIN <<x>> = 1..1
  BY <1>1
<1> QED BY <1>1, <1>2

(* What htable_init leaves: one array of empty slots, and no node.         *)
ZeroElt == [s \in Slots(size) |-> NULL]
InitTable ==
    /\ size = get_prime(Sz + 1) /\ size \in Nat \ {0} /\ store = 1 /\ used = 0
    /\ allow_resize \in AllowResize
    /\ arrays = [a \in 1..1 |-> [live |-> TRUE, elt |-> ZeroElt]]
    /\ node = [n \in NodeId |-> [key |-> NULL, val |-> NULL, next |-> NULL]]
    /\ pc = [t \in Threads |-> "idle"] /\ arg = [t \in Threads |-> NoCall]
    /\ loc = [t \in Threads |-> NoLocal] /\ rsz = [t \in Threads |-> NoResize]
    /\ calls = [t \in Threads |-> 0] /\ fault = FALSE

LEMMA InitIs == Init => InitTable
<1> SUFFICES ASSUME Init PROVE InitTable
  OBVIOUS
<1> DEFINE Z == [live |-> TRUE, elt |-> ZeroElt]
<1>1. /\ size = get_prime(Sz + 1) /\ size \in Nat \ {0} /\ store = 1 /\ used = 0
      /\ allow_resize \in AllowResize
  <2>1. Sz + 1 \in Nat \ {0}
    BY SizeAssumption
  <2>2. get_prime(Sz + 1) \in Nat \ {0}
    BY <2>1, NewSize
  <2> QED BY <2>2 DEF Init, htable_init
<1>2. arrays = <<Z>>
  BY DEF Init, htable_init, ZeroArray, ZeroElt
<1>3. arrays = [a \in 1..1 |-> Z]
  <2> HIDE DEF Z
  <2> QED BY <1>2, OneTuple
<1>4. node = [n \in NodeId |-> [key |-> NULL, val |-> NULL, next |-> NULL]]
  BY DEF Init, htable_init
<1>5. /\ pc = [t \in Threads |-> "idle"] /\ arg = [t \in Threads |-> NoCall]
      /\ loc = [t \in Threads |-> NoLocal] /\ rsz = [t \in Threads |-> NoResize]
      /\ calls = [t \in Threads |-> 0] /\ fault = FALSE
  BY DEF Init
<1> QED BY <1>1, <1>3, <1>4, <1>5 DEF InitTable

LEMMA InitType == ASSUME InitTable PROVE TypeOK
<1> DEFINE Z == [live |-> TRUE, elt |-> ZeroElt]
<1>1. NULL \in Ptr
  BY DEF Ptr
<1>2. /\ store \in DOMAIN arrays
      /\ \A a \in DOMAIN arrays :
           /\ arrays[a].live \in BOOLEAN
           /\ \A s \in DOMAIN arrays[a].elt : arrays[a].elt[s] \in Ptr
  <2>1. Z.live = TRUE /\ \A s \in DOMAIN Z.elt : Z.elt[s] = NULL
    BY DEF ZeroElt
  <2>2. arrays = [a \in 1..1 |-> Z] /\ store = 1
    BY DEF InitTable
  <2> HIDE DEF Z
  <2>3. store \in DOMAIN arrays /\ \A a \in DOMAIN arrays : arrays[a] = Z
    BY <2>2
  <2> QED BY <1>1, <2>1, <2>3
<1>3. node \in [NodeId -> Node_]
  BY <1>1 DEF InitTable, Node_
<1>4. used \in 0..MaxNodes /\ calls \in [Threads -> 0..MaxCalls]
  BY BoundAssumption DEF InitTable
<1>5. pc \in [Threads -> Pcs] /\ arg \in [Threads -> Call_]
  BY DEF InitTable, Pcs, Call_, NoCall
<1>6. loc \in [Threads -> Local_] /\ rsz \in [Threads -> Resize_]
  BY <1>1 DEF InitTable, Local_, NoLocal, Resize_, NoResize
<1>7. size \in Nat \ {0} /\ allow_resize \in BOOLEAN /\ fault \in BOOLEAN
  BY BoundAssumption DEF InitTable
<1> QED BY <1>2, <1>3, <1>4, <1>5, <1>6, <1>7 DEF TypeOK

(* htable_init establishes the invariant.                                  *)
LEMMA InitHInv == ASSUME AllowResize = {FALSE} PROVE Init => HInv
<1> SUFFICES ASSUME Init PROVE HInv
  OBVIOUS
<1>1. InitTable
  BY InitIs
<1>2. arrays = [a \in 1..1 |-> [live |-> TRUE, elt |-> ZeroElt]]
  BY <1>1 DEF InitTable
<1>3. NULL \in Ptr
  BY DEF Ptr
<1>4. OneArray
  BY <1>1, <1>2, <1>3 DEF OneArray, InitTable, ZeroElt
<1>5. TypeOK
  BY <1>1, InitType
<1>6. ListsAscend /\ HeadsInPlace
  BY <1>1, <1>2 DEF ListsAscend, HeadsInPlace, InitTable, ZeroElt
<1>7. ASSUME NEW t \in Threads PROVE LocalsOK(t)
  BY <1>1 DEF InitTable, LocalsOK, NoLocal, Linking, InsertPcs
<1>8. PrivateUntilLinked
  BY <1>1 DEF InitTable, PrivateUntilLinked, Linking
<1>9. ~fault
  BY <1>1 DEF InitTable
<1> QED BY <1>4, <1>5, <1>6, <1>7, <1>8, <1>9 DEF HInv
-----------------------------------------------------------------------------
(* A step of another thread leaves a thread's locals right, if it neither  *)
(* changes keys nor links anything behind the thread's new node.           *)
LEMMA OtherLocals ==
    ASSUME NEW u \in Threads, LocalsOK(u),
           size' = size, used \in Nat, used' \in Nat, used <= used',
           pc'[u] = pc[u], loc'[u] = loc[u], arg'[u] = arg[u],
           \A m \in 1..used : node'[m].key = node[m].key,
           Linking(u) => node'[loc[u].n].next = NULL
    PROVE  LocalsOK(u)'
<1> DEFINE S(m) == hashcode[node'[m].key] % size'
<1>1. \A m \in 1..used : m \in 1..used' /\ S(m) = SlotOf(m)
  BY DEF SlotOf
<1>2. Linking(u)' <=> Linking(u)
  BY DEF Linking
<1> HIDE DEF S
<1>3. \A p \in {loc[u].prev, loc[u].curr} : p # NULL =>
         /\ p \in 1..used'
         /\ pc[u] \in InsertPcs \ {"size"} => S(p) = loc[u].slot
  BY <1>1 DEF LocalsOK
<1>4. Linking(u) =>
         /\ loc[u].n \in 1..used'
         /\ S(loc[u].n) = loc[u].slot
         /\ node'[loc[u].n].next = NULL
         /\ loc[u].prev # NULL => loc[u].prev < loc[u].n
  BY <1>1 DEF LocalsOK
<1> QED BY <1>2, <1>3, <1>4 DEF LocalsOK, SlotOf, S

(* A step that reads the table and changes only the locals of its thread.  *)
LEMMA LocalStep ==
    ASSUME HInv, NEW t \in Threads, NEW l \in {"idle", "ret"} \cup InsertPcs,
           NEW x \in Local_,
           UNCHANGED <<table, rsz, fault>>,
           pc' = [pc EXCEPT ![t] = l],
           loc' = [loc EXCEPT ![t] = x],
           arg' \in [Threads -> Call_], \A u \in Threads \ {t} : arg'[u] = arg[u],
           calls' \in [Threads -> 0..MaxCalls],
           LocalsOK(t)',
           l \in {"link", "linkbase", "linkhead"} => Linking(t) /\ x.n = loc[t].n,
           \A u \in Threads \ {t} : Linking(u) => loc[u].n \notin {x.prev, x.curr}
    PROVE  HInv'
<1> USE DEF HInv, table
<1>1. TypeOK'
  BY DEF TypeOK, Pcs
<1>2. OneArray' /\ ListsAscend' /\ HeadsInPlace' /\ ~fault'
  BY DEF OneArray, ListsAscend, HeadsInPlace, SlotOf
<1>3. ASSUME NEW u \in Threads PROVE LocalsOK(u)'
  <2>1. CASE u = t
    BY <2>1
  <2>2. CASE u # t
    <3>1. pc'[u] = pc[u] /\ loc'[u] = loc[u] /\ arg'[u] = arg[u]
      BY <2>2 DEF TypeOK
    <3>2. LocalsOK(u) /\ used \in Nat
      BY BoundAssumption DEF TypeOK
    <3>3. Linking(u) => node[loc[u].n].next = NULL
      BY <3>2 DEF LocalsOK
    <3> HIDE DEF HInv
    <3> QED BY <3>1, <3>2, <3>3, OtherLocals
  <2> QED BY <2>1, <2>2
<1>4. PrivateUntilLinked'
  <2> SUFFICES ASSUME NEW v \in Threads, Linking(v)'
               PROVE  LET n == loc'[v].n
                      IN  /\ \A a \in DOMAIN arrays' : n \notin Heads(a)'
                          /\ \A m \in NodeId : node'[m].next # n
                          /\ \A u \in Threads \ {v} :
                               /\ n \notin {loc'[u].prev, loc'[u].curr}
                               /\ Linking(u)' => loc'[u].n # n
                               /\ pc'[u] \in ResizePcs => n \notin {rsz'[u].curr, rsz'[u].n}
    BY DEF PrivateUntilLinked
  <2>1. ASSUME NEW u \in Threads, Linking(u)'
        PROVE  Linking(u) /\ loc'[u].n = loc[u].n
    BY <2>1 DEF Linking, TypeOK
  <2>2. Linking(v) /\ loc'[v].n = loc[v].n
    BY <2>1
  <2>3. \A a \in DOMAIN arrays' : loc'[v].n \notin Heads(a)'
    BY <2>2 DEF PrivateUntilLinked, Heads
  <2>4. \A m \in NodeId : node'[m].next # loc'[v].n
    BY <2>2 DEF PrivateUntilLinked
  <2>5. ASSUME NEW u \in Threads \ {v}
        PROVE  /\ loc'[v].n \notin {loc'[u].prev, loc'[u].curr}
               /\ Linking(u)' => loc'[u].n # loc'[v].n
               /\ pc'[u] \in ResizePcs => loc'[v].n \notin {rsz'[u].curr, rsz'[u].n}
    <3>1. loc'[v].n \notin {loc'[u].prev, loc'[u].curr}
      BY <2>2 DEF PrivateUntilLinked, TypeOK
    <3>2. Linking(u)' => loc'[u].n # loc'[v].n
      BY <2>1, <2>2 DEF PrivateUntilLinked
    <3>3. pc'[u] \notin ResizePcs
      BY <1>3 DEF LocalsOK, InsertPcs, ResizePcs
    <3> QED BY <3>1, <3>2, <3>3
  <2> QED BY <2>3, <2>4, <2>5
<1> QED BY <1>1, <1>2, <1>3, <1>4
-----------------------------------------------------------------------------
(* The actions that only read.                                             *)
LEMMA CallHInv ==
    ASSUME HInv, NEW t \in Threads, NEW op \in {"insert", "lookup"},
           NEW k \in Keys, NEW v \in Vals \cup {NULL}, Call(t, op, k, v)
    PROVE  HInv'
<1> USE DEF HInv
<1>1. NoLocal \in Local_
  BY DEF NoLocal, Local_, Ptr
<1>2. calls' \in [Threads -> 0..MaxCalls]
  BY BoundAssumption DEF Call, TypeOK
<1>3. arg' \in [Threads -> Call_]
  BY DEF Call, TypeOK, Call_
<1>4. LocalsOK(t)'
  BY DEF Call, Goto, SetLocal, LocalsOK, InsertPcs, NoLocal, Linking, TypeOK
<1>5. \A u \in Threads \ {t} : arg'[u] = arg[u]
  BY DEF Call, TypeOK
<1>6. \A u \in Threads : Linking(u) => loc[u].n # NULL
  BY NullAssumption DEF LocalsOK
<1>7. \A u \in Threads \ {t} :
        Linking(u) => loc[u].n \notin {NoLocal.prev, NoLocal.curr}
  BY <1>6 DEF NoLocal
<1> QED
  BY <1>1, <1>2, <1>3, <1>4, <1>5, <1>7, LocalStep
  DEF Call, Goto, SetLocal, InsertPcs, table

(* htable.c:145-148: the slot is computed from the table's one size.       *)
LEMMA ReadSizeHInv == ASSUME HInv, NEW t \in Threads, ReadSize(t) PROVE HInv'
<1> USE DEF HInv, ReadSize, Goto, SetLocal
<1> DEFINE x == [loc[t] EXCEPT !.slot = hashcode[arg[t].key] % size]
<1>1. x \in Local_
  BY SMTT(40), HashAssumption DEF TypeOK, Local_, LocalsOK
<1>2. LocalsOK(t)'
  BY DEF LocalsOK, InsertPcs, Linking, TypeOK, table, frames
<1>3. \A u \in Threads \ {t} : Linking(u) => loc[u].n \notin {x.prev, x.curr}
  BY DEF PrivateUntilLinked, TypeOK, Local_
<1> QED BY <1>1, <1>2, <1>3, LocalStep DEF InsertPcs, table, frames, TypeOK

(* htable.c:149: the base read is the table's one array.                   *)
LEMMA ReadBaseHInv == ASSUME HInv, NEW t \in Threads, ReadBase(t) PROVE HInv'
<1> USE DEF HInv, ReadBase, Goto, SetLocal
<1> DEFINE x == [loc[t] EXCEPT !.base = store]
<1>1. x \in Local_
  BY SMTT(40) DEF OneArray, TypeOK, Local_
<1>2. LocalsOK(t)'
  BY SMTT(40) DEF LocalsOK, InsertPcs, Linking, TypeOK, table, OneArray, SlotOf, Local_
<1>3. \A u \in Threads \ {t} : Linking(u) => loc[u].n \notin {x.prev, x.curr}
  BY DEF PrivateUntilLinked, TypeOK, Local_
<1> QED BY <1>1, <1>2, <1>3, LocalStep DEF InsertPcs, table, TypeOK

(* htable.c:149: the head of the slot is a node of that slot.              *)
LEMMA ReadHeadHInv == ASSUME HInv, NEW t \in Threads, ReadHead(t) PROVE HInv'
<1> USE DEF HInv, ReadHead, Goto, SetLocal
<1> DEFINE c == arrays[loc[t].base].elt[loc[t].slot]
           x == [loc[t] EXCEPT !.curr = c]
<1>1. loc[t].base = 1 /\ loc[t].slot \in Slots(size)
  <2>1. hashcode[arg[t].key] \in Nat /\ size \in Nat \ {0}
    BY HashAssumption DEF LocalsOK, TypeOK
  <2> QED BY <2>1, SlotInRange DEF LocalsOK, InsertPcs
<1>2. c \in Ptr /\ (c # NULL => c \in 1..used /\ SlotOf(c) = loc[t].slot)
  BY <1>1 DEF OneArray, HeadsInPlace
<1>3. x \in Local_
  BY <1>2 DEF TypeOK, Local_
<1>4. LocalsOK(t)'
  <2>1. loc'[t] = x /\ pc'[t] = "walk" /\ arg'[t] = arg[t]
    BY DEF TypeOK
  <2>2. x.prev = loc[t].prev /\ x.curr = c /\ x.slot = loc[t].slot
    BY DEF TypeOK, Local_
  <2>3. /\ arg[t].key \in Keys
        /\ loc[t].slot = hashcode[arg[t].key] % size
        /\ loc[t].prev # NULL =>
             loc[t].prev \in 1..used /\ SlotOf(loc[t].prev) = loc[t].slot
    BY DEF LocalsOK, InsertPcs
  <2>4. UNCHANGED <<node, used, size>>
    BY DEF table
  <2> HIDE DEF c, x, HInv, ReadHead
  <2> QED BY <1>2, <2>1, <2>2, <2>3, <2>4 DEF LocalsOK, InsertPcs, Linking, SlotOf
<1>5. ASSUME NEW u \in Threads \ {t}, Linking(u)
      PROVE  loc[u].n \notin {x.prev, x.curr}
  <2>1. loc[u].n # c
    <3>1. 1 \in DOMAIN arrays /\ loc[t].slot \in DOMAIN arrays[1].elt
      BY <1>1 DEF OneArray
    <3>2. loc[u].n \notin Heads(1)
      BY <1>5, <3>1 DEF PrivateUntilLinked
    <3> QED BY <1>1, <3>1, <3>2 DEF Heads
  <2>2. loc[u].n # loc[t].prev
    BY <1>5 DEF PrivateUntilLinked
  <2> QED BY <2>1, <2>2 DEF TypeOK, Local_
<1> QED BY Zenon, <1>3, <1>4, <1>5, LocalStep DEF InsertPcs, table, TypeOK

(* htable.c:151-154: returning from the walk changes no node.              *)
LEMMA FoundHInv == ASSUME HInv, NEW t \in Threads, Found(t) PROVE HInv'
<1> USE DEF HInv, Found, Goto, SetLocal
<1> DEFINE r == IF arg[t].op = "insert" THEN 1 ELSE node[loc[t].curr].val
           x == [loc[t] EXCEPT !.ret = r]
<1>1. r \in {0, 1, NULL} \cup Vals
  <2>1. loc[t].curr \in NodeId
    BY DEF TypeOK, Local_, Ptr
  <2> QED BY <2>1 DEF TypeOK, Node_
<1>2. x \in Local_
  BY <1>1 DEF TypeOK, Local_
<1>3. LocalsOK(t)'
  <2> HIDE DEF r
  <2> QED BY SMTT(40) DEF LocalsOK, InsertPcs, Linking, TypeOK, table, SlotOf, Local_
<1>4. \A u \in Threads \ {t} : Linking(u) => loc[u].n \notin {x.prev, x.curr}
  BY DEF PrivateUntilLinked, TypeOK, Local_
<1> QED BY <1>2, <1>3, <1>4, LocalStep DEF InsertPcs, table, TypeOK

(* htable.c:155-158: the next node is of the same slot, and later.         *)
LEMMA AdvanceHInv == ASSUME HInv, NEW t \in Threads, Advance(t) PROVE HInv'
<1> USE DEF HInv, Advance, Goto, SetLocal
<1> DEFINE p == loc[t].curr
           c == node[p].next
           x == [loc[t] EXCEPT !.prev = p, !.curr = c,
                   !.collision = IF @ < MAX_COLLISION THEN @ + 1 ELSE @]
<1>1. p \in NodeId /\ p \in 1..used /\ SlotOf(p) = loc[t].slot
  BY DEF TypeOK, Local_, Ptr, LocalsOK, InsertPcs
<1>2. c \in Ptr /\ (c # NULL => c \in 1..used /\ SlotOf(c) = loc[t].slot)
  BY <1>1 DEF TypeOK, Node_, ListsAscend
<1>3. x \in Local_ /\ x.prev = p /\ x.curr = c /\ x.slot = loc[t].slot
  <2>1. loc[t] \in Local_ /\ p \in Ptr
    BY <1>1 DEF TypeOK, Ptr
  <2>2. (IF loc[t].collision < MAX_COLLISION
         THEN loc[t].collision + 1 ELSE loc[t].collision) \in Nat
    BY <2>1, BoundAssumption DEF Local_
  <2> HIDE DEF c, p
  <2> QED BY <1>2, <2>1, <2>2 DEF Local_
<1>4. pc' = [pc EXCEPT ![t] = "walk"]
  BY DEF TypeOK
<1>5. LocalsOK(t)'
  <2>1. loc'[t] = x /\ pc'[t] = "walk"
    BY DEF TypeOK
  <2> HIDE DEF c, p, x
  <2> QED BY <1>1, <1>2, <1>3, <2>1 DEF LocalsOK, InsertPcs, Linking, table, SlotOf
<1>6. ASSUME NEW u \in Threads \ {t}, Linking(u)
      PROVE  loc[u].n \notin {x.prev, x.curr}
  BY <1>1, <1>3, <1>6 DEF PrivateUntilLinked
<1>7. loc' = [loc EXCEPT ![t] = x] /\ UNCHANGED <<table, rsz, fault, arg, calls>>
  BY DEF table
<1>8. arg' \in [Threads -> Call_] /\ calls' \in [Threads -> 0..MaxCalls]
  BY <1>7 DEF TypeOK
<1> HIDE DEF x, Advance, HInv
<1> QED BY <1>3, <1>4, <1>5, <1>6, <1>7, <1>8, LocalStep DEF InsertPcs

(* Actions that leave the locals of their thread alone.                    *)
LEMMA GotoStep ==
    ASSUME HInv, NEW t \in Threads, NEW l \in {"idle", "ret"},
           UNCHANGED <<table, arg, loc, rsz, calls, fault>>,
           pc' = [pc EXCEPT ![t] = l], pc[t] # "idle"
    PROVE  HInv'
<1> USE DEF HInv
<1>1. loc[t] \in Local_ /\ loc' = [loc EXCEPT ![t] = loc[t]]
  BY DEF TypeOK
<1>2. LocalsOK(t)'
  BY DEF LocalsOK, InsertPcs, Linking, TypeOK, table, SlotOf
<1>3. \A u \in Threads \ {t} : Linking(u) => loc[u].n \notin {loc[t].prev, loc[t].curr}
  BY DEF PrivateUntilLinked
<1>4. arg' \in [Threads -> Call_] /\ calls' \in [Threads -> 0..MaxCalls]
  BY DEF TypeOK
<1> HIDE DEF HInv
<1> QED BY <1>1, <1>2, <1>3, <1>4, LocalStep

(* htable.c:191: a lookup that finds nothing keeps it.                       *)
LEMMA LookupMissHInv == ASSUME HInv, NEW t \in Threads, LookupMiss(t) PROVE HInv'
BY GotoStep DEF LookupMiss, Goto, table

(* htable.c:175: a returning call leaves the table alone.                  *)
LEMMA ReturnHInv == ASSUME HInv, NEW t \in Threads, Return(t) PROVE HInv'
BY GotoStep DEF Return, Goto, table

(* htable.c:168: the base to write to is the table's one array.            *)
LEMMA ReadBaseToLinkHInv ==
    ASSUME HInv, NEW t \in Threads, ReadBaseToLink(t) PROVE HInv'
<1> USE DEF HInv, ReadBaseToLink, Goto, SetLocal
<1> DEFINE x == [loc[t] EXCEPT !.base = store]
<1>1. /\ x \in Local_ /\ x.base = 1 /\ x.slot = loc[t].slot /\ x.n = loc[t].n
      /\ x.prev = loc[t].prev /\ x.curr = loc[t].curr
  BY SMTT(40) DEF OneArray, TypeOK, Local_
<1>2. loc'[t] = x /\ pc'[t] = "linkhead" /\ arg'[t] = arg[t]
  BY DEF TypeOK
<1>3. UNCHANGED <<node, used, size>>
  BY DEF table
<1>4. LocalsOK(t)'
  <2>1. LocalsOK(t)
    OBVIOUS
  <2> HIDE DEF x, HInv
  <2> QED BY ZenonT(60), <1>1, <1>2, <1>3, <2>1 DEF LocalsOK, InsertPcs, Linking, SlotOf
<1>5. \A u \in Threads \ {t} : Linking(u) => loc[u].n \notin {x.prev, x.curr}
  BY <1>1 DEF PrivateUntilLinked
<1>6. Linking(t)
  BY DEF Linking
<1>7. /\ UNCHANGED <<table, rsz, fault, arg, calls>>
      /\ loc' = [loc EXCEPT ![t] = x] /\ pc' = [pc EXCEPT ![t] = "linkhead"]
  OBVIOUS
<1>8. arg' \in [Threads -> Call_] /\ calls' \in [Threads -> 0..MaxCalls]
  BY <1>7 DEF TypeOK
<1> HIDE DEF x, HInv, ReadBaseToLink
<1> QED BY <1>1, <1>4, <1>5, <1>6, <1>7, <1>8, LocalStep DEF InsertPcs
-----------------------------------------------------------------------------
(* malloc hands out a node nobody points at.                               *)
LEMMA NewNodeHInv == ASSUME HInv, NEW t \in Threads, NewNode(t) PROVE HInv'
<1> USE DEF HInv
<1> DEFINE n == used + 1
           x == [loc[t] EXCEPT !.n = n]
           l == IF loc[t].prev = NULL THEN "linkbase" ELSE "link"
           rec == [key |-> arg[t].key, val |-> arg[t].val, next |-> NULL]
<1>1. used \in Nat /\ n \in 1..MaxNodes /\ n \in NodeId /\ used' = n
  BY BoundAssumption DEF NewNode, TypeOK, NodeId
<1>2. node' = [node EXCEPT ![n] = rec] /\ UNCHANGED <<size, allow_resize, store, arrays, arg, rsz, calls, fault>>
  BY DEF NewNode
<1>3. rec \in Node_ /\ arg[t].key \in Keys /\ pc[t] = "walk" /\ loc[t].curr = NULL
  BY DEF NewNode, LocalsOK, TypeOK, Call_, Node_, Ptr
<1>4. /\ loc' = [loc EXCEPT ![t] = x] /\ pc' = [pc EXCEPT ![t] = l]
      /\ loc'[t] = x /\ pc'[t] = l
  BY DEF NewNode, SetLocal, Goto, TypeOK
<1>5. /\ x \in Local_ /\ x.n = n /\ x.slot = loc[t].slot
      /\ x.prev = loc[t].prev /\ x.curr = loc[t].curr
  BY <1>1 DEF TypeOK, Local_, Ptr
<1>6. l \in {"link", "linkbase"} /\ (l = "link" => loc[t].prev # NULL)
  OBVIOUS
<1>7. /\ node'[n] = rec
      /\ \A m \in NodeId \ {n} : node'[m] = node[m]
  BY <1>1, <1>2 DEF TypeOK
<1> DEFINE S(m) == hashcode[node'[m].key] % size'
<1>8. /\ \A m \in 1..used : m \in NodeId \ {n} /\ S(m) = SlotOf(m)
      /\ S(n) = hashcode[arg[t].key] % size
  <2>1. \A m \in 1..used : m \in NodeId \ {n}
    BY <1>1, BoundAssumption DEF NodeId
  <2> HIDE DEF n, rec
  <2>2. rec.key = arg[t].key
    BY DEF rec
  <2> QED BY <1>2, <1>7, <2>1, <2>2 DEF SlotOf
<1> HIDE DEF n, x, l, rec, S
<1>9. TypeOK'
  BY <1>1, <1>2, <1>3, <1>4, <1>5, <1>6 DEF TypeOK, Pcs, InsertPcs
<1>10. OneArray'
  BY <1>2 DEF OneArray
<1>11. ListsAscend'
  <2>1. \A m \in 1..used' : node'[m].key \in Keys
    BY <1>1, <1>3, <1>7, <1>8 DEF ListsAscend, rec, n
  <2>2. ASSUME NEW m \in NodeId, node'[m].next # NULL
        PROVE  /\ m <= used'
               /\ node'[m].next \in (m + 1)..used'
               /\ S(node'[m].next) = S(m)
    <3>1. m # n /\ node'[m] = node[m]
      BY <1>7, <2>2 DEF rec
    <3>2. m <= used /\ node[m].next \in (m + 1)..used /\ SlotOf(node[m].next) = SlotOf(m)
      BY <2>2, <3>1 DEF ListsAscend
    <3>3. m \in 1..used /\ node[m].next \in 1..used
      BY <1>1, <3>2 DEF NodeId
    <3> QED BY <1>1, <1>8, <3>1, <3>2, <3>3 DEF n
  <2> QED BY <2>1, <2>2 DEF ListsAscend, SlotOf, S
<1>12. HeadsInPlace'
  BY SMTT(40), <1>1, <1>2, <1>8 DEF HeadsInPlace, SlotOf, S, n
<1>13. ASSUME NEW u \in Threads PROVE LocalsOK(u)'
  <2>1. CASE u = t
    <3>1. /\ pc'[t] = l /\ loc'[t] = x /\ arg'[t] = arg[t] /\ l \in {"link", "linkbase"}
          /\ l = "link" => x.prev # NULL
      BY <1>2, <1>4, <1>5, <1>6
    <3>2. x.slot = hashcode[arg[t].key] % size' /\ S(n) = x.slot /\ n \in 1..used'
      <4>1. loc[t].slot = hashcode[arg[t].key] % size
        BY <1>3 DEF LocalsOK, InsertPcs
      <4> QED BY <4>1, <1>1, <1>2, <1>5, <1>8
    <3>3. node'[n].next = NULL
      BY <1>7 DEF rec
    <3>4. ASSUME NEW p \in {x.prev, x.curr}, p # NULL
          PROVE  p \in 1..used' /\ p < n /\ S(p) = x.slot
      <4>1. p \in 1..used /\ SlotOf(p) = loc[t].slot
        BY <1>3, <1>5, <3>4 DEF LocalsOK, InsertPcs
      <4> QED BY <4>1, <1>1, <1>5, <1>8 DEF n
    <3>5. \A m : S(m) = SlotOf(m)'
      BY DEF S, SlotOf
    <3> QED BY <1>3, <1>5, <2>1, <3>1, <3>2, <3>3, <3>4, <3>5 DEF LocalsOK, Linking, InsertPcs
  <2>2. CASE u # t
    <3>1. pc'[u] = pc[u] /\ loc'[u] = loc[u] /\ arg'[u] = arg[u] /\ LocalsOK(u)
      BY <1>2, <1>4, <2>2 DEF TypeOK
    <3>2. used <= used' /\ \A m \in 1..used : node'[m].key = node[m].key
      BY <1>1, <1>7, <1>8 DEF n
    <3>3. Linking(u) => loc[u].n \in 1..used /\ node[loc[u].n].next = NULL
      BY <3>1 DEF LocalsOK
    <3>4. Linking(u) => node'[loc[u].n].next = NULL
      BY <1>7, <1>8, <3>3
    <3> HIDE DEF HInv
    <3> QED BY <1>1, <1>2, <3>1, <3>2, <3>4, OtherLocals
  <2> QED BY <2>1, <2>2
<1>14. PrivateUntilLinked'
  <2>1. \A a \in DOMAIN arrays : n \notin Heads(a)
    <3>1. n # NULL /\ n \notin 1..used
      BY <1>1, NullAssumption DEF n
    <3>2. \A a \in DOMAIN arrays : a = 1 /\ DOMAIN arrays[a].elt = Slots(size)
      BY DEF OneArray
    <3> QED BY <3>1, <3>2 DEF HeadsInPlace, Heads
  <2>2. \A m \in NodeId : node[m].next # n /\ node'[m].next # n
    BY <1>1, <1>7, NullAssumption DEF ListsAscend, n, rec, NodeId
  <2>3. \A u \in Threads :
          /\ n \notin {loc[u].prev, loc[u].curr}
          /\ Linking(u) => loc[u].n # n /\ loc[u].n \in 1..used
          /\ pc[u] \notin ResizePcs
    <3>1. n \in Nat /\ n \notin 1..used /\ n # NULL
      BY <1>1, NullAssumption DEF n
    <3> QED BY <3>1 DEF LocalsOK, InsertPcs, ResizePcs
  <2> SUFFICES ASSUME NEW v \in Threads, Linking(v)'
               PROVE  LET w == loc'[v].n
                      IN  /\ \A a \in DOMAIN arrays' : w \notin Heads(a)'
                          /\ \A m \in NodeId : node'[m].next # w
                          /\ \A u \in Threads \ {v} :
                               /\ w \notin {loc'[u].prev, loc'[u].curr}
                               /\ Linking(u)' => loc'[u].n # w
                               /\ pc'[u] \in ResizePcs => w \notin {rsz'[u].curr, rsz'[u].n}
    BY DEF PrivateUntilLinked
  <2>4. \A u \in Threads : pc'[u] \notin ResizePcs
    BY <1>13 DEF LocalsOK, InsertPcs, ResizePcs
  <2>5. \A u \in Threads \ {t} : pc'[u] = pc[u] /\ loc'[u] = loc[u]
    BY <1>4 DEF TypeOK
  <2>6. \A a \in DOMAIN arrays' : Heads(a)' = Heads(a)
    BY <1>2 DEF Heads
  <2>7. CASE v = t
    <3>1. loc'[v].n = n
      BY <1>4, <1>5, <2>7
    <3>2. \A a \in DOMAIN arrays' : n \notin Heads(a)'
      BY <1>2, <2>1, <2>6
    <3>3. ASSUME NEW u \in Threads \ {v}
          PROVE  /\ n \notin {loc'[u].prev, loc'[u].curr}
                 /\ Linking(u)' => loc'[u].n # n
      <4> HIDE DEF HInv
      <4>1. pc'[u] = pc[u] /\ loc'[u] = loc[u]
        BY <2>5, <2>7
      <4>2. Linking(u)' => Linking(u)
        BY <4>1 DEF Linking
      <4> QED BY <2>3, <4>1, <4>2
    <3> QED BY <2>2, <2>4, <3>1, <3>2, <3>3
  <2>8. CASE v # t
    <3>1. Linking(v) /\ loc'[v].n = loc[v].n
      BY <2>5, <2>8 DEF Linking
    <3>2. \A m \in NodeId : node'[m].next # loc[v].n
      BY <1>7, <3>1, NullAssumption DEF PrivateUntilLinked, rec, LocalsOK
    <3>3. ASSUME NEW u \in Threads \ {v}
          PROVE  /\ loc[v].n \notin {loc'[u].prev, loc'[u].curr}
                 /\ Linking(u)' => loc'[u].n # loc[v].n
      <4>1. loc'[u].prev = loc[u].prev /\ loc'[u].curr = loc[u].curr
        BY <1>4, <1>5, <2>5
      <4>2. Linking(u)' => loc'[u].n # loc[v].n
        <5>1. CASE u = t
          BY <1>1, <1>4, <1>5, <2>3, <3>1, <5>1 DEF n
        <5>2. CASE u # t
          <6>1. Linking(u)' => Linking(u)
            BY <2>5, <5>2 DEF Linking
          <6> QED BY <2>5, <3>1, <5>2, <6>1 DEF PrivateUntilLinked
        <5> QED BY <5>1, <5>2
      <4> QED BY <3>1, <4>1, <4>2 DEF PrivateUntilLinked
    <3> QED BY <1>2, <2>4, <2>6, <3>1, <3>2, <3>3 DEF PrivateUntilLinked
  <2> QED BY <2>7, <2>8
<1> QED BY <1>2, <1>9, <1>10, <1>11, <1>12, <1>13, <1>14

(* Once a thread has linked its node, the other threads' new nodes are     *)
(* still their own.                                                        *)
LEMMA OthersPrivate ==
    ASSUME HInv, NEW t \in Threads, Linking(t),
           NEW l \in {"ret"}, NEW x, x.prev = loc[t].prev, x.curr = loc[t].curr,
           pc' = [pc EXCEPT ![t] = l], loc' = [loc EXCEPT ![t] = x],
           DOMAIN arrays' = DOMAIN arrays,
           \A a \in DOMAIN arrays : Heads(a)' \subseteq Heads(a) \cup {loc[t].n},
           \A m \in NodeId : node'[m].next \in {node[m].next, loc[t].n}
    PROVE  PrivateUntilLinked'
<1> USE DEF HInv
<1> SUFFICES ASSUME NEW v \in Threads, Linking(v)'
             PROVE  LET w == loc'[v].n
                    IN  /\ \A a \in DOMAIN arrays' : w \notin Heads(a)'
                        /\ \A m \in NodeId : node'[m].next # w
                        /\ \A u \in Threads \ {v} :
                             /\ w \notin {loc'[u].prev, loc'[u].curr}
                             /\ Linking(u)' => loc'[u].n # w
                             /\ pc'[u] \in ResizePcs => w \notin {rsz'[u].curr, rsz'[u].n}
  BY DEF PrivateUntilLinked
<1>1. \A u \in Threads : u # t => pc'[u] = pc[u] /\ loc'[u] = loc[u]
  BY DEF TypeOK
<1>2. pc'[t] = "ret" /\ loc'[t] = x
  BY DEF TypeOK
<1>3. v # t /\ Linking(v) /\ loc'[v].n = loc[v].n
  BY <1>1, <1>2 DEF Linking
<1>4. loc[v].n # loc[t].n
  BY <1>3 DEF PrivateUntilLinked
<1>5. \A a \in DOMAIN arrays' : loc[v].n \notin Heads(a)'
  BY <1>3, <1>4 DEF PrivateUntilLinked
<1>6. \A m \in NodeId : node'[m].next # loc[v].n
  BY <1>3, <1>4 DEF PrivateUntilLinked
<1>7. ASSUME NEW u \in Threads \ {v}
      PROVE  /\ loc[v].n \notin {loc'[u].prev, loc'[u].curr}
             /\ Linking(u)' => loc'[u].n # loc[v].n
             /\ pc'[u] \notin ResizePcs
  <2>1. loc'[u].prev = loc[u].prev /\ loc'[u].curr = loc[u].curr
    BY <1>1, <1>2
  <2>2. Linking(u)' => Linking(u) /\ loc'[u] = loc[u]
    BY <1>1, <1>2 DEF Linking
  <2>3. pc'[u] \notin ResizePcs
    BY <1>1, <1>2 DEF LocalsOK, InsertPcs, ResizePcs
  <2> QED BY <1>3, <2>1, <2>2, <2>3 DEF PrivateUntilLinked
<1> QED BY <1>3, <1>5, <1>6, <1>7

(* prev->next = n: n was allocated after prev, for the same slot.          *)
LEMMA LinkAfterPrevHInv ==
    ASSUME HInv, NEW t \in Threads, LinkAfterPrev(t)
    PROVE  HInv'
<1> USE DEF HInv
<1> DEFINE p == loc[t].prev
           n == loc[t].n
           x == [loc[t] EXCEPT !.ret = 0]
<1>0. allow_resize = FALSE
  BY DEF OneArray
<1>1. Linking(t) /\ LocalsOK(t) /\ pc[t] = "link"
  BY DEF LinkAfterPrev, Linking
<1>2. /\ p \in NodeId /\ p \in 1..used /\ SlotOf(p) = loc[t].slot
      /\ n \in NodeId /\ n \in 1..used /\ SlotOf(n) = loc[t].slot /\ p < n
  <2>1. p \in Ptr /\ n \in Ptr
    BY DEF TypeOK, Local_
  <2>2. n # NULL
    BY <1>1, NullAssumption DEF LocalsOK
  <2> QED BY <1>1, <2>1, <2>2 DEF LocalsOK, Ptr, InsertPcs
<1>3. /\ loc' = [loc EXCEPT ![t] = x] /\ pc' = [pc EXCEPT ![t] = "ret"]
      /\ node' = [node EXCEPT ![p] = [@ EXCEPT !.next = n]]
      /\ UNCHANGED <<size, allow_resize, store, arrays, used, arg, rsz, calls, fault>>
  BY <1>0 DEF LinkAfterPrev, AfterLink, SetLocal, Goto
<1>4. x \in Local_ /\ x.prev = p /\ x.curr = loc[t].curr /\ x.slot = loc[t].slot
  BY DEF TypeOK, Local_
<1>5. /\ node'[p].next = n /\ node'[p].key = node[p].key
      /\ node' \in [NodeId -> Node_]
      /\ \A m \in NodeId \ {p} : node'[m] = node[m]
  BY <1>2, <1>3 DEF TypeOK, Node_, Ptr
<1>6. \A m \in NodeId : node'[m].key = node[m].key
  BY <1>5
<1>7. 1..used \subseteq NodeId
  BY BoundAssumption DEF TypeOK, NodeId
<1> HIDE DEF p, n, x
<1>8. TypeOK'
  BY <1>3, <1>4, <1>5 DEF TypeOK, Pcs
<1>9. OneArray' /\ HeadsInPlace'
  BY ZenonT(60), <1>3, <1>6, <1>7 DEF OneArray, HeadsInPlace, SlotOf
<1>10. ListsAscend'
  <2>1. ASSUME NEW m \in NodeId, node'[m].next # NULL
        PROVE  /\ m <= used /\ node'[m].next \in (m + 1)..used
               /\ SlotOf(node'[m].next) = SlotOf(m)
    <3>1. CASE m = p
      <4>1. p <= used /\ n \in (p + 1)..used
        BY <1>2 DEF TypeOK, NodeId
      <4> QED BY <1>2, <1>5, <3>1, <4>1
    <3>2. CASE m # p
      BY <1>5, <2>1, <3>2 DEF ListsAscend
    <3> QED BY <3>1, <3>2
  <2>2. \A m \in NodeId : node'[m].next # NULL => node'[m].next \in NodeId
    BY <1>5 DEF Node_, Ptr
  <2> QED BY <1>3, <1>6, <1>7, <2>1, <2>2 DEF ListsAscend, SlotOf
<1>11. ASSUME NEW u \in Threads PROVE LocalsOK(u)'
  <2>1. CASE u = t
    BY <1>1, <1>2, <1>3, <1>4, <2>1 DEF LocalsOK, Linking, InsertPcs, TypeOK
  <2>2. CASE u # t
    <3>1. pc'[u] = pc[u] /\ loc'[u] = loc[u] /\ arg'[u] = arg[u] /\ LocalsOK(u)
      BY <1>3, <2>2 DEF TypeOK
    <3>2. Linking(u) => loc[u].n # p
      BY <1>1, <2>2 DEF PrivateUntilLinked, p
    <3>3. Linking(u) => loc[u].n \in 1..used /\ node[loc[u].n].next = NULL
      BY <3>1 DEF LocalsOK
    <3>4. Linking(u) => node'[loc[u].n].next = NULL
      BY <1>5, <1>7, <3>2, <3>3
    <3>5. used \in Nat /\ \A m \in 1..used : node'[m].key = node[m].key
      BY <1>6, <1>7, BoundAssumption DEF TypeOK
    <3> HIDE DEF HInv
    <3> QED BY <1>3, <3>1, <3>4, <3>5, OtherLocals
  <2> QED BY <2>1, <2>2
<1>12. PrivateUntilLinked'
  <2>1. \A m \in NodeId : node'[m].next \in {node[m].next, loc[t].n}
    BY <1>5 DEF n
  <2>2. \A a \in DOMAIN arrays : Heads(a)' = Heads(a)
    BY <1>3 DEF Heads
  <2> HIDE DEF HInv
  <2> QED BY <1>1, <1>3, <1>4, <2>1, <2>2, OthersPrivate DEF p
<1> QED BY <1>3, <1>8, <1>9, <1>10, <1>11, <1>12

(* The one array of a table that is not resized.                           *)
LEMMA TheArray ==
    ASSUME OneArray
    PROVE  /\ DOMAIN arrays = 1..1 /\ arrays[1].live = TRUE
           /\ arrays[1].elt \in [Slots(size) -> Ptr]
           /\ arrays[1] = [live |-> TRUE, elt |-> arrays[1].elt]
<1> DEFINE R == [live : {TRUE}, elt : [Slots(size) -> Ptr]]
<1>1. arrays \in [1..1 -> R]
  BY DEF OneArray
<1>2. arrays[1] \in R /\ DOMAIN arrays = 1..1
  <2> HIDE DEF R
  <2> QED BY <1>1
<1> QED BY <1>1, <1>2

(* ht->store[slot] = n, in the array that is still the table's.            *)
LEMMA LinkHeadHInv ==
    ASSUME HInv, NEW t \in Threads, LinkHead(t)
    PROVE  HInv'
<1> USE DEF HInv
<1> DEFINE n == loc[t].n
           s == loc[t].slot
           x == [loc[t] EXCEPT !.ret = 0]
<1>0. allow_resize = FALSE
  BY DEF OneArray
<1>1. Linking(t) /\ LocalsOK(t) /\ pc[t] = "linkhead" /\ loc[t].base = 1
  BY DEF LinkHead, Linking, LocalsOK
<1>2. n \in NodeId /\ n \in 1..used /\ SlotOf(n) = s
  <2>1. n \in Ptr
    BY DEF TypeOK, Local_
  <2>2. n # NULL
    BY <1>1, NullAssumption DEF LocalsOK
  <2> QED BY <1>1, <2>1, <2>2 DEF LocalsOK, Ptr, InsertPcs
<1>3. s \in Slots(size)
  <2>1. hashcode[arg[t].key] \in Nat /\ size \in Nat \ {0}
    BY <1>1, HashAssumption DEF LocalsOK, TypeOK
  <2> QED BY <1>1, <2>1, SlotInRange DEF LocalsOK, InsertPcs
<1>4. /\ loc' = [loc EXCEPT ![t] = x] /\ pc' = [pc EXCEPT ![t] = "ret"]
      /\ arrays' = [arrays EXCEPT ![1].elt[s] = n]
      /\ UNCHANGED <<size, allow_resize, store, node, used, arg, rsz, calls, fault>>
  BY <1>0, <1>1 DEF LinkHead, AfterLink, SetLocal, Goto
<1>5. x \in Local_ /\ x.prev = loc[t].prev /\ x.curr = loc[t].curr /\ x.slot = s
  BY DEF TypeOK, Local_
<1>6. /\ DOMAIN arrays = 1..1 /\ arrays[1].elt \in [Slots(size) -> Ptr]
      /\ arrays[1] = [live |-> TRUE, elt |-> arrays[1].elt]
  BY TheArray
<1> DEFINE e == [arrays[1].elt EXCEPT ![s] = n]
<1>7. e \in [Slots(size) -> Ptr] /\ e[s] = n
      /\ \A r \in Slots(size) \ {s} : e[r] = arrays[1].elt[r]
  BY <1>2, <1>3, <1>6 DEF Ptr
<1>8. DOMAIN arrays' = 1..1 /\ arrays'[1].live = TRUE /\ arrays'[1].elt = e
      /\ arrays' \in [1..1 -> [live : {TRUE}, elt : [Slots(size) -> Ptr]]]
  <2>1. arrays' = [a \in 1..1 |-> [live |-> TRUE, elt |-> e]]
    <3> HIDE DEF n, s, HInv
    <3>1. DOMAIN arrays' = DOMAIN arrays /\ arrays'[1] = [arrays[1] EXCEPT !.elt = e]
      BY <1>4, <1>6
    <3>2. arrays' = [a \in DOMAIN arrays |-> arrays'[a]]
      BY <1>4
    <3> QED BY <1>6, <3>1, <3>2
  <2> HIDE DEF n, s, e, HInv
  <2> QED BY <1>7, <2>1
<1> HIDE DEF n, s, x, e
<1>9. TypeOK'
  <2>1. store' \in DOMAIN arrays' /\ \A a \in DOMAIN arrays' : a = 1
    BY <1>4, <1>8 DEF OneArray
  <2>2. \A a \in DOMAIN arrays' :
          /\ arrays'[a].live \in BOOLEAN
          /\ \A r \in DOMAIN arrays'[a].elt : arrays'[a].elt[r] \in Ptr
    BY <1>7, <1>8, <2>1
  <2> QED BY <1>4, <1>5, <2>1, <2>2 DEF TypeOK, Pcs
<1>10. OneArray' /\ ListsAscend'
  BY <1>4, <1>8 DEF OneArray, ListsAscend, SlotOf
<1>11. HeadsInPlace'
  BY <1>2, <1>4, <1>7, <1>8 DEF HeadsInPlace, SlotOf
<1>12. ASSUME NEW u \in Threads PROVE LocalsOK(u)'
  <2>1. CASE u = t
    BY ZenonT(60), <1>1, <1>4, <1>5, <2>1 DEF LocalsOK, Linking, InsertPcs, TypeOK, SlotOf, s
  <2>2. CASE u # t
    <3>1. pc'[u] = pc[u] /\ loc'[u] = loc[u] /\ arg'[u] = arg[u] /\ LocalsOK(u)
      BY <1>4, <2>2 DEF TypeOK
    <3>2. used \in Nat
      BY BoundAssumption DEF TypeOK
    <3>3. Linking(u) => node[loc[u].n].next = NULL
      BY <3>1 DEF LocalsOK
    <3> HIDE DEF HInv
    <3> QED BY <1>4, <3>1, <3>2, <3>3, OtherLocals
  <2> QED BY <2>1, <2>2
<1>13. PrivateUntilLinked'
  <2>1. \A m \in NodeId : node'[m].next \in {node[m].next, loc[t].n}
    BY <1>4
  <2>2. \A a \in DOMAIN arrays : Heads(a)' \subseteq Heads(a) \cup {loc[t].n}
    <3>1. ASSUME NEW a \in DOMAIN arrays
          PROVE  Heads(a)' \subseteq Heads(a) \cup {loc[t].n}
      <4>1. a = 1
        BY <1>6, <3>1
      <4>2. DOMAIN e = Slots(size) /\ DOMAIN arrays[1].elt = Slots(size)
        BY <1>6, <1>7
      <4>3. \A r \in Slots(size) : e[r] \in Heads(1) \cup {n}
        BY <1>7, <4>2 DEF Heads
      <4> QED BY <1>8, <4>1, <4>2, <4>3 DEF Heads, n
    <3> QED BY <3>1
  <2> HIDE DEF HInv
  <2> QED BY <1>1, <1>4, <1>5, <1>6, <1>8, <2>1, <2>2, OthersPrivate
<1> QED BY <1>4, <1>9, <1>10, <1>11, <1>12, <1>13
-----------------------------------------------------------------------------
(* No thread ever is where it could access an array wrongly, or in resize. *)
LEMMA NoBadAccess == ASSUME HInv, NEW t \in Threads PROVE ~BadAccess(t) /\ ~ResizeStep(t)
<1> USE DEF HInv
<1>1. LocalsOK(t) /\ pc[t] \notin ResizePcs
  BY DEF LocalsOK, InsertPcs, ResizePcs
<1>2. ~ResizeStep(t)
  BY Zenon, <1>1 DEF ResizeStep, ResizePcs, NewStore, ForTest, ForBase, ForHead,
     TakeNode, ChainDone, MoveNode, SetSize, ReadOldStore, FreeStore, SetStore
<1>3. ASSUME pc[t] \in {"head", "linkhead"} PROVE ~BadIndex(loc[t].base, loc[t].slot)
  <2>1. hashcode[arg[t].key] \in Nat /\ size \in Nat \ {0}
    BY <1>1, <1>3, HashAssumption DEF LocalsOK, TypeOK
  <2>2. loc[t].base = 1 /\ loc[t].slot \in Slots(size)
    BY <1>1, <1>3, <2>1, SlotInRange DEF LocalsOK, InsertPcs
  <2>3. arrays[1].live = TRUE /\ DOMAIN arrays[1].elt = Slots(size)
    BY TheArray
  <2> QED BY <2>2, <2>3 DEF BadIndex
<1> QED BY <1>1, <1>2, <1>3 DEF BadAccess, ResizePcs

(* Every step preserves the invariant.                                     *)
LEMMA NextHInv ==
    ASSUME HInv, [Next]_vars
    PROVE  HInv'
<1>1. CASE UNCHANGED vars
  <2>1. UNCHANGED <<size, allow_resize, store, arrays, node, used, pc, arg, loc, rsz, calls, fault>>
    BY <1>1 DEF vars, table, frames
  <2>2. TypeOK' /\ OneArray' /\ ~fault'
    BY <2>1 DEF HInv, TypeOK, OneArray
  <2>3. ListsAscend' /\ HeadsInPlace'
    BY <2>1 DEF HInv, ListsAscend, HeadsInPlace, SlotOf
  <2>4. \A t \in Threads : LocalsOK(t)'
    BY <2>1 DEF HInv, LocalsOK, SlotOf, Linking
  <2>5. PrivateUntilLinked'
    BY <2>1 DEF HInv, PrivateUntilLinked, Linking, Heads
  <2> QED BY <2>2, <2>3, <2>4, <2>5 DEF HInv
<1>2. ASSUME NEW t \in Threads, CallInsert(t) PROVE HInv'
  BY <1>2, CallHInv DEF CallInsert
<1>3. ASSUME NEW t \in Threads, CallLookup(t) PROVE HInv'
  BY <1>3, CallHInv DEF CallLookup
<1>4. ASSUME NEW t \in Threads, Step(t) PROVE HInv'
  <2>1. InsertStep(t) \/ Return(t)
    BY <1>4, NoBadAccess DEF Step, Fault
  <2> QED BY <2>1, ReadSizeHInv, ReadBaseHInv, ReadHeadHInv, FoundHInv,
       AdvanceHInv, LookupMissHInv, NewNodeHInv, LinkAfterPrevHInv,
       ReadBaseToLinkHInv, LinkHeadHInv, ReturnHInv
       DEF InsertStep
<1> QED BY <1>1, <1>2, <1>3, <1>4 DEF Next

(* The threads of testhash.c, however many and however they interleave,    *)
(* keep HInv on a table that is not resized.                               *)
THEOREM Invariance == ASSUME AllowResize = {FALSE} PROVE Spec => []HInv
<1>1. Init => HInv
  BY InitHInv
<1>2. HInv /\ [Next]_vars => HInv'
  BY NextHInv
<1> QED BY <1>1, <1>2, PTL DEF Spec

(* On a table that is not resized no number of threads makes one of them   *)
(* touch an array it should not.                                           *)
THEOREM Safety == ASSUME AllowResize = {FALSE} PROVE Spec => []NoInvalidAccess
<1>1. HInv => NoInvalidAccess
  BY DEF HInv, NoInvalidAccess
<1> QED BY <1>1, Invariance, PTL

(* However inserts race on a table that is not resized, a key is only in   *)
(* the slot lookups search for it (htable.c:146, 183):                     *)
(* the nodes of a slot are a closed set that has the head of its list.     *)
THEOREM Placement == ASSUME AllowResize = {FALSE} PROVE Spec => []WellPlaced
<1>1. ASSUME HInv PROVE WellPlaced
  <2> SUFFICES ASSUME NEW s \in DOMAIN arrays[store].elt,
                      arrays[store].elt[s] # NULL,
                      NEW n \in Reach({arrays[store].elt[s]})
               PROVE  hashcode[node[n].key] % size = s
    BY DEF WellPlaced
  <2> DEFINE h == arrays[1].elt[s]
             S == {m \in 1..used : SlotOf(m) = s}
  <2>1. store = 1 /\ s \in Slots(size)
    BY <1>1, TheArray DEF HInv, OneArray
  <2>2. h \in S
    BY <1>1, <2>1 DEF HInv, HeadsInPlace
  <2>3. S \in SUBSET NodeId
    BY <1>1, BoundAssumption DEF HInv, TypeOK, NodeId
  <2>4. Closed(S)
    <3> SUFFICES ASSUME NEW m \in S, node[m].next # NULL PROVE node[m].next \in S
      BY DEF Closed
    <3>1. m \in NodeId
      BY <2>3
    <3>2. node[m].next \in (m + 1)..used /\ SlotOf(node[m].next) = SlotOf(m)
      BY <1>1, <3>1 DEF HInv, ListsAscend
    <3> QED BY <1>1, <3>1, <3>2 DEF HInv, TypeOK, NodeId
  <2> HIDE DEF h, S
  <2>5. n \in S
    BY <2>1, <2>2, <2>3, <2>4 DEF Reach, h
  <2> QED BY <2>5 DEF S, SlotOf
<1> QED BY <1>1, Invariance, PTL

(* A non-empty set of nodes has a last one.                                *)
LEMMA LastNode ==
    ASSUME NEW S \in SUBSET NodeId, S # {}
    PROVE  \E n \in S : \A m \in S : m <= n
<1> DEFINE T == {MaxNodes - n : n \in S}
<1>1. MaxNodes \in Nat /\ T \subseteq Nat /\ T # {}
  <2>1. PICK n \in S : TRUE
    OBVIOUS
  <2>2. MaxNodes - n \in T
    BY <2>1
  <2>3. ASSUME NEW m \in S PROVE MaxNodes - m \in Nat
    BY BoundAssumption DEF NodeId
  <2> QED BY <2>2, <2>3, BoundAssumption
<1>2. PICK x \in T : \A y \in T : ~(<<y, x>> \in OpToRel(<, Nat))
  BY <1>1, NatLessThanWellFounded, WFMin
<1>3. \A y \in T : ~(y < x)
  BY <1>1, <1>2 DEF OpToRel
<1>4. PICK n \in S : x = MaxNodes - n
  BY <1>2
<1>5. ASSUME NEW m \in S PROVE m <= n
  <2>1. ~(MaxNodes - m < MaxNodes - n)
    BY <1>3, <1>4
  <2> QED BY <1>1, <1>4, <2>1 DEF NodeId
<1> QED BY <1>5

(* The lists of a table that is not resized never close to a cycle: links  *)
(* ascend, so a set of nodes has one, its last, that leads out of it.      *)
THEOREM NoCycle == ASSUME AllowResize = {FALSE} PROVE Spec => []Acyclic
<1>1. ASSUME HInv PROVE Acyclic
  <2>1. Entries \subseteq NodeId
    <3>1. \A t \in Threads : ~Moving(t) /\ ~Swapping(t)
      BY <1>1 DEF HInv, LocalsOK, InsertPcs, Moving, Swapping
    <3>2. Entries = Reach(Heads(store))
      BY <3>1 DEF Entries
    <3> QED BY <3>2 DEF Reach
  <2>2. ASSUME NEW S \in SUBSET Entries, S # {}
        PROVE  \E n \in S : node[n].next \notin S
    <3>1. S \in SUBSET NodeId
      BY <2>1
    <3>2. PICK n \in S : \A m \in S : m <= n
      BY <2>2, <3>1, LastNode
    <3>3. n \in NodeId /\ n \in Nat
      BY <3>1, <3>2, BoundAssumption DEF NodeId
    <3>4. NULL \notin S
      <4>1. NULL \notin NodeId
        BY NullAssumption, BoundAssumption DEF NodeId
      <4> QED BY <3>1, <4>1
    <3>5. node[n].next # NULL => node[n].next \in (n + 1)..used
      BY <1>1, <3>3 DEF HInv, ListsAscend
    <3> QED BY <1>1, <3>2, <3>3, <3>4, <3>5 DEF HInv, TypeOK
  <2> QED BY <2>2 DEF Acyclic
<1> QED BY <1>1, Invariance, PTL
-------------------------------------------------------------------------------
Fields == {"new_size", "new_store", "i", "base", "curr", "n"}
IsLocals(r) == r = [f \in Fields |-> r[f]]

(* Writing one field of a resize's locals leaves the others.               *)
LEMMA SetField ==
    ASSUME NEW r, IsLocals(r), NEW g \in Fields, NEW x
    PROVE  /\ IsLocals([r EXCEPT ![g] = x])
           /\ [r EXCEPT ![g] = x][g] = x
           /\ \A f \in Fields \ {g} : [r EXCEPT ![g] = x][f] = r[f]
<1> DEFINE q == [r EXCEPT ![g] = x]
<1>1. DOMAIN r = Fields
  BY DEF IsLocals
<1>2. q = [f \in Fields |-> IF f = g THEN x ELSE r[f]]
  BY <1>1
<1> HIDE DEF q
<1>3. q[g] = x /\ \A f \in Fields \ {g} : q[f] = r[f]
  BY <1>2
<1>4. q = [f \in Fields |-> q[f]]
  BY <1>2
<1> QED BY <1>3, <1>4 DEF q, IsLocals

(* The locals of a resize are a record of their fields.                    *)
LEMMA ShapeOfLocals == ASSUME Shapes, NEW t \in Threads PROVE IsLocals(rsz[t])
<1>1. rsz[t] = [f \in Fields |-> rsz[t][f]]
  BY DEF Shapes, Fields
<1> QED BY <1>1 DEF IsLocals

(* A step of t that frees no array, exchanges none and takes none.         *)
LEMMA QuietStep ==
    ASSUME ExchangeInv, NEW t \in Threads, NEW l \in Pcs, NEW r, IsLocals(r),
           store' = store, DOMAIN arrays' = DOMAIN arrays,
           IsSeq(arrays'),
           \A a \in DOMAIN arrays : /\ arrays'[a].live = arrays[a].live
                                    /\ arrays'[a] = [live |-> arrays'[a].live,
                                                     elt |-> arrays'[a].elt],
           pc' = [pc EXCEPT ![t] = l], rsz' = [rsz EXCEPT ![t] = r],
           pc[t] # "r_store",
           Resizing(t)' => Resizing(t) /\ r.new_store = rsz[t].new_store,
           l = "r_free" => r.base = store
    PROVE  ExchangeInv'
<1> USE DEF ExchangeInv, ArraysOwned
<1>1. /\ pc'[t] = l /\ rsz'[t] = r
      /\ \A u \in Threads \ {t} : pc'[u] = pc[u] /\ rsz'[u] = rsz[u]
  BY DEF Shapes
<1>2. Shapes'
  <2>1. pc' \in [Threads -> Pcs] /\ rsz' = [u \in Threads |-> rsz'[u]]
    BY DEF Shapes
  <2>2. ASSUME NEW u \in Threads PROVE rsz'[u] = [f \in Fields |-> rsz'[u][f]]
    BY <1>1, ShapeOfLocals DEF IsLocals
  <2>3. rsz' = [u \in Threads |-> [f \in Fields |-> rsz'[u][f]]]
    BY <2>1, <2>2
  <2> QED BY <2>1, <2>3 DEF Shapes, Fields
<1>3. \A u \in Threads : Resizing(u)' =>
         Resizing(u) /\ rsz'[u].new_store = rsz[u].new_store
  BY <1>1 DEF Resizing, Moving, Swapping
<1>4. \A u \in Threads : pc'[u] = "r_free" =>
         \/ pc[u] = "r_free" /\ rsz'[u].base = rsz[u].base
         \/ rsz'[u].base = store
  BY <1>1
<1>5. \A u \in Threads : Resizing(u)' => FillsItsOwn(u)'
  BY <1>3, <1>4 DEF FillsItsOwn, Shapes
<1>6. \A u \in Threads : pc'[u] = "r_free" => rsz'[u].base \in DOMAIN arrays'
  BY <1>4 DEF Shapes
<1>7. FreedOnlyInExchange'
  BY <1>1 DEF FreedOnlyInExchange, Shapes
<1> QED BY <1>2, <1>5, <1>6, <1>7

(* The steps that touch no slot array.                                     *)
LEMMA SameArrays ==
    ASSUME ExchangeInv, NEW t \in Threads, NEW l \in Pcs, NEW r, IsLocals(r),
           UNCHANGED <<store, arrays>>,
           pc' = [pc EXCEPT ![t] = l], rsz' = [rsz EXCEPT ![t] = r],
           pc[t] # "r_store",
           Resizing(t)' => Resizing(t) /\ r.new_store = rsz[t].new_store,
           l = "r_free" => r.base = store
    PROVE  ExchangeInv'
<1>1. Shapes
  BY DEF ExchangeInv, ArraysOwned
<1> QED BY <1>1, QuietStep DEF Shapes

(* A step outside the resize leaves its thread outside, or before it.      *)
LEMMA OutsideStep ==
    ASSUME ExchangeInv, NEW t \in Threads,
           NEW l \in {"idle", "ret", "r_new"} \cup InsertPcs,
           UNCHANGED <<store, arrays, rsz>>, pc' = [pc EXCEPT ![t] = l],
           pc[t] # "r_store"
    PROVE  ExchangeInv'
<1>1. Shapes /\ IsLocals(rsz[t])
  BY ShapeOfLocals DEF ExchangeInv, ArraysOwned
<1>3. rsz' = [rsz EXCEPT ![t] = rsz[t]]
  BY <1>1 DEF Shapes
<1>4. l \in Pcs /\ l # "r_free" /\ pc'[t] = l
  BY <1>1 DEF Shapes, Pcs, ResizePcs, InsertPcs
<1>2. ~Resizing(t)'
  BY <1>4 DEF Resizing, Moving, Swapping, InsertPcs
<1> QED BY <1>1, <1>2, <1>3, <1>4, SameArrays
LEMMA FunctionIsSeq ==
    ASSUME NEW n \in Nat, NEW R, NEW r \in [1..n -> R]
    PROVE  r \in Seq(R)
OBVIOUS

LEMMA SeqIsFunction ==
    ASSUME NEW T, NEW r \in Seq(T)
    PROVE  r = [a \in DOMAIN r |-> r[a]]
OBVIOUS

(* A sequence updated in place is a sequence.                              *)
LEMMA SameDomainSeq ==
    ASSUME NEW q, IsSeq(q), NEW a, NEW x,
           NEW r, r = [q EXCEPT ![a] = x]
    PROVE  IsSeq(r)
<1> DEFINE R == {r[b] : b \in DOMAIN r}
<1>1. Len(q) \in Nat /\ DOMAIN q = 1..Len(q)
  <2> DEFINE Q == {q[b] : b \in DOMAIN q}
  <2>1. q \in Seq(Q)
    BY DEF IsSeq
  <2> HIDE DEF Q
  <2> QED BY <2>1
<1>2. r = [b \in 1..Len(q) |-> r[b]]
  BY <1>1
<1>3. r \in [1..Len(q) -> R]
  <2>1. \A b \in 1..Len(q) : r[b] \in R
    BY <1>1
  <2> HIDE DEF R
  <2> QED BY <1>2, <2>1
<1> HIDE DEF R
<1>4. r \in Seq(R)
  BY <1>1, <1>3, FunctionIsSeq
<1> QED BY <1>4 DEF R, IsSeq

(* Writing a slot of an array frees none.                                  *)
LEMMA SlotWritten ==
    ASSUME Shapes, NEW a, NEW s, NEW x, arrays' = [arrays EXCEPT ![a].elt[s] = x]
    PROVE  /\ DOMAIN arrays' = DOMAIN arrays
           /\ IsSeq(arrays')
           /\ \A b \in DOMAIN arrays : /\ arrays'[b].live = arrays[b].live
                                     /\ arrays'[b] = [live |-> arrays'[b].live,
                                                      elt |-> arrays'[b].elt]
<1>1. DOMAIN arrays' = DOMAIN arrays
  OBVIOUS
<1>2. IsSeq(arrays')
  <2> DEFINE y == [arrays[a] EXCEPT !.elt[s] = x]
  <2>1. arrays' = [arrays EXCEPT ![a] = y]
    OBVIOUS
  <2> HIDE DEF y
  <2> QED BY <2>1, SameDomainSeq DEF Shapes
<1>3. ASSUME NEW b \in DOMAIN arrays
      PROVE  /\ arrays'[b].live = arrays[b].live
             /\ arrays'[b] = [live |-> arrays'[b].live, elt |-> arrays'[b].elt]
  <2>1. arrays[b] = [live |-> arrays[b].live, elt |-> arrays[b].elt]
    BY DEF Shapes
  <2>2. CASE b = a
    <3> DEFINE e == [arrays[b].elt EXCEPT ![s] = x]
    <3>1. arrays'[b] = [arrays[b] EXCEPT !.elt = e]
      BY <2>2
    <3> HIDE DEF e
    <3>2. arrays'[b] = [live |-> arrays[b].live, elt |-> e]
      BY <2>1, <3>1
    <3> QED BY <3>2
  <2>3. CASE b # a
    BY <2>1, <2>3
  <2> QED BY <2>2, <2>3
<1> QED BY <1>1, <1>2, <1>3

(* The steps of htable_insert and htable_lookup before a resize.           *)
LEMMA InsertExchange ==
    ASSUME ExchangeInv, NEW t \in Threads,
           \/ InsertStep(t) \/ Return(t) \/ CallInsert(t) \/ CallLookup(t)
    PROVE  ExchangeInv'
<1>1. ASSUME NEW op, NEW k, NEW v, Call(t, op, k, v) PROVE ExchangeInv'
  BY <1>1, OutsideStep DEF Call, Goto, table, InsertPcs
<1>2. CASE ReadSize(t)
  BY <1>2, OutsideStep DEF ReadSize, Goto, table, InsertPcs
<1>3. CASE ReadBase(t)
  BY <1>3, OutsideStep DEF ReadBase, Goto, table, InsertPcs
<1>4. CASE ReadHead(t)
  BY <1>4, OutsideStep DEF ReadHead, Goto, table, InsertPcs
<1>5. CASE Found(t)
  BY <1>5, OutsideStep DEF Found, Goto, table, InsertPcs
<1>6. CASE Advance(t)
  <2>1. pc' = [pc EXCEPT ![t] = "walk"]
    BY <1>6 DEF Advance, ExchangeInv, ArraysOwned, Shapes
  <2> QED BY <1>6, <2>1, OutsideStep DEF Advance, table, InsertPcs
<1>7. CASE LookupMiss(t)
  BY <1>7, OutsideStep DEF LookupMiss, Goto, table, InsertPcs
<1>8. CASE NewNode(t)
  <2> DEFINE l == IF loc[t].prev = NULL THEN "linkbase" ELSE "link"
  <2>1. l \in InsertPcs /\ pc' = [pc EXCEPT ![t] = l] /\ pc[t] # "r_store"
    BY <1>8 DEF NewNode, Goto, InsertPcs
  <2> HIDE DEF l
  <2> QED BY <1>8, <2>1, OutsideStep DEF NewNode
<1>9. ASSUME AfterLink(t), pc[t] # "r_store"
      PROVE  \E l \in {"ret", "r_new"} : pc' = [pc EXCEPT ![t] = l]
  BY <1>9 DEF AfterLink, Goto
<1>10. CASE LinkAfterPrev(t)
  <2>1. PICK l \in {"ret", "r_new"} : pc' = [pc EXCEPT ![t] = l]
    BY <1>9, <1>10 DEF LinkAfterPrev
  <2> QED BY <1>10, <2>1, OutsideStep DEF LinkAfterPrev
<1>11. CASE ReadBaseToLink(t)
  BY <1>11, OutsideStep DEF ReadBaseToLink, Goto, table, InsertPcs
<1>12. CASE LinkHead(t)
  <2>1. PICK l \in {"ret", "r_new"} : pc' = [pc EXCEPT ![t] = l]
    BY <1>9, <1>12 DEF LinkHead
  <2>2. /\ UNCHANGED <<store, rsz>> /\ pc[t] # "r_store"
        /\ arrays' = [arrays EXCEPT ![loc[t].base].elt[loc[t].slot] = loc[t].n]
    BY <1>12 DEF LinkHead
  <2>3. Shapes /\ IsLocals(rsz[t])
    BY ShapeOfLocals DEF ExchangeInv, ArraysOwned
  <2>4. /\ rsz' = [rsz EXCEPT ![t] = rsz[t]] /\ l \in Pcs /\ l # "r_free"
        /\ pc'[t] = l
    BY <2>1, <2>2, <2>3 DEF Shapes, Pcs, ResizePcs
  <2>5. ~Resizing(t)'
    BY <2>4 DEF Resizing, Moving, Swapping
  <2>6. /\ DOMAIN arrays' = DOMAIN arrays
        /\ IsSeq(arrays')
        /\ \A a \in DOMAIN arrays : /\ arrays'[a].live = arrays[a].live
                                  /\ arrays'[a] = [live |-> arrays'[a].live,
                                                   elt |-> arrays'[a].elt]
    BY <2>2, <2>3, SlotWritten
  <2> QED BY <2>1, <2>2, <2>3, <2>4, <2>5, <2>6, QuietStep
<1>13. CASE Return(t)
  BY <1>13, OutsideStep DEF Return, Goto, table, InsertPcs
<1> QED BY <1>1, <1>2, <1>3, <1>4, <1>5, <1>6, <1>7, <1>8, <1>10, <1>11, <1>12, <1>13
        DEF InsertStep, CallInsert, CallLookup
(* The steps of htable_resize that only move nodes and read.               *)
LEMMA ResizeExchange ==
    ASSUME ExchangeInv, NEW t \in Threads,
           \/ ForTest(t) \/ ForBase(t) \/ ForHead(t) \/ TakeNode(t) \/ ChainDone(t)
           \/ MoveNode(t) \/ SetSize(t) \/ ReadOldStore(t)
    PROVE  ExchangeInv'
<1> DEFINE rec == rsz[t]
<1>1. Shapes /\ IsLocals(rec) /\ rsz = [rsz EXCEPT ![t] = rec] /\ t \in DOMAIN rsz
  <2>1. Shapes
    BY DEF ExchangeInv, ArraysOwned
  <2>2. rsz = [rsz EXCEPT ![t] = rec] /\ t \in DOMAIN rsz
    BY <2>1 DEF Shapes
  <2> QED BY <2>1, <2>2, ShapeOfLocals
<1>2. ASSUME NEW l \in ResizePcs \ {"r_new"}, pc[t] \in ResizePcs \ {"r_new", "r_store"},
             NEW r, IsLocals(r), r.new_store = rec.new_store,
             UNCHANGED <<store, arrays>>, Goto(t, l), rsz' = [rsz EXCEPT ![t] = r],
             l = "r_free" => r.base = store
      PROVE  ExchangeInv'
  <2>1. Resizing(t) /\ l \in Pcs /\ pc' = [pc EXCEPT ![t] = l]
    BY <1>2 DEF Resizing, Moving, Swapping, ResizePcs, Pcs, Goto
  <2> HIDE DEF rec
  <2> QED BY <1>2, <2>1, SameArrays DEF rec
<1>3. CASE ForTest(t)
  <2> DEFINE l == IF rsz[t].i < size THEN "r_base" ELSE "r_size"
  <2>1. /\ l \in ResizePcs \ {"r_new"} /\ l # "r_free" /\ Goto(t, l)
        /\ pc[t] \in ResizePcs \ {"r_new", "r_store"}
        /\ UNCHANGED <<store, arrays, rsz>>
    BY <1>3 DEF ForTest, ResizePcs, table
  <2> HIDE DEF l
  <2> QED BY <1>1, <1>2, <2>1
<1>4. CASE ForBase(t) \/ ReadOldStore(t)
  <2> DEFINE r == [rec EXCEPT !["base"] = store]
  <2>1. IsLocals(r) /\ r.base = store /\ r.new_store = rec.new_store
    BY <1>1, SetField DEF Fields
  <2>2. rsz' = [rsz EXCEPT ![t] = r] /\ UNCHANGED <<store, arrays>>
    BY <1>4 DEF ForBase, ReadOldStore, SetResize, table
  <2>3. \E l \in ResizePcs \ {"r_new"} :
           pc[t] \in ResizePcs \ {"r_new", "r_store"} /\ Goto(t, l)
    BY <1>4 DEF ForBase, ReadOldStore, ResizePcs
  <2> HIDE DEF r, rec
  <2> QED BY <1>2, <2>1, <2>2, <2>3
<1>5. CASE ForHead(t)
  <2> DEFINE c == arrays[rec.base].elt[rec.i]
             r == [rec EXCEPT !["curr"] = c]
  <2>1. rsz' = [rsz EXCEPT ![t] = r] /\ UNCHANGED <<store, arrays>>
    BY <1>5 DEF ForHead, SetResize, table
  <2>2. /\ pc[t] \in ResizePcs \ {"r_new", "r_store"} /\ Goto(t, "r_walk")
        /\ "r_walk" \in ResizePcs \ {"r_new"}
    BY <1>5 DEF ForHead, ResizePcs
  <2> HIDE DEF c, rec
  <2>3. IsLocals(r) /\ r.new_store = rec.new_store
    BY <1>1, SetField DEF Fields
  <2> HIDE DEF r
  <2> QED BY <1>2, <2>1, <2>2, <2>3
<1>6. CASE TakeNode(t)
  <2> DEFINE c == node[rec.curr].next
             q == [rec EXCEPT !["n"] = rec.curr]
             r == [q EXCEPT !["curr"] = c]
  <2>1. rsz' = [rsz EXCEPT ![t] = r] /\ UNCHANGED <<store, arrays>>
    BY <1>6 DEF TakeNode, SetResize, table
  <2>2. /\ pc[t] \in ResizePcs \ {"r_new", "r_store"} /\ Goto(t, "r_move")
        /\ "r_move" \in ResizePcs \ {"r_new"}
    BY <1>6 DEF TakeNode, ResizePcs
  <2> HIDE DEF c, rec
  <2>3. IsLocals(q) /\ q.new_store = rec.new_store
    BY <1>1, SetField DEF Fields
  <2> HIDE DEF q
  <2>4. IsLocals(r) /\ r.new_store = rec.new_store
    BY <2>3, SetField DEF Fields
  <2> HIDE DEF r
  <2> QED BY <1>2, <2>1, <2>2, <2>4
<1>7. CASE ChainDone(t)
  <2> DEFINE k == rec.i + 1
             r == [rec EXCEPT !["i"] = k]
  <2>1. rsz' = [rsz EXCEPT ![t] = r] /\ UNCHANGED <<store, arrays>>
    BY <1>7 DEF ChainDone, SetResize, table
  <2>2. /\ pc[t] \in ResizePcs \ {"r_new", "r_store"} /\ Goto(t, "r_for")
        /\ "r_for" \in ResizePcs \ {"r_new"}
    BY <1>7 DEF ChainDone, ResizePcs
  <2> HIDE DEF k, rec
  <2>3. IsLocals(r) /\ r.new_store = rec.new_store
    BY <1>1, SetField DEF Fields
  <2> HIDE DEF r
  <2> QED BY <1>2, <2>1, <2>2, <2>3
<1>8. CASE MoveNode(t)
  <2> DEFINE s == hashcode[node[rec.n].key] % rec.new_size
  <2>1. /\ arrays' = [arrays EXCEPT ![rec.new_store].elt[s] = rec.n]
        /\ pc' = [pc EXCEPT ![t] = "r_walk"] /\ UNCHANGED <<store, rsz>>
        /\ pc[t] = "r_move"
    BY Zenon, <1>8 DEF MoveNode, Goto
  <2>2. Resizing(t) /\ "r_walk" \in Pcs
    BY <2>1 DEF Resizing, Moving, Pcs, ResizePcs
  <2> HIDE DEF s, rec
  <2>3. /\ DOMAIN arrays' = DOMAIN arrays
        /\ IsSeq(arrays')
        /\ \A a \in DOMAIN arrays : /\ arrays'[a].live = arrays[a].live
                                  /\ arrays'[a] = [live |-> arrays'[a].live,
                                                   elt |-> arrays'[a].elt]
    BY <1>1, <2>1, SlotWritten
  <2>4. rsz' = [rsz EXCEPT ![t] = rec] /\ pc[t] # "r_store" /\ "r_walk" # "r_free"
    BY <1>1, <2>1
  <2> QED BY Zenon, <1>1, <2>1, <2>2, <2>3, <2>4, QuietStep DEF rec
<1>9. CASE SetSize(t)
  <2>1. /\ "r_old" \in ResizePcs \ {"r_new"} /\ Goto(t, "r_old")
        /\ pc[t] \in ResizePcs \ {"r_new", "r_store"}
        /\ UNCHANGED <<store, arrays, rsz>>
    BY <1>9 DEF SetSize, ResizePcs
  <2> QED BY <1>1, <1>2, <2>1
<1> QED BY <1>3, <1>4, <1>5, <1>6, <1>7, <1>8, <1>9
(* A sequence of one more element.                                         *)
OneMore(q, x, r) ==
    /\ Len(q) \in Nat /\ DOMAIN q = 1..Len(q) /\ DOMAIN r = 1..(Len(q) + 1)
    /\ IsSeq(r) /\ r[Len(q) + 1] = x /\ \A a \in DOMAIN q : r[a] = q[a]

LEMMA Appended ==
    ASSUME NEW q, IsSeq(q), NEW x
    PROVE  OneMore(q, x, Append(q, x))
<1> SUFFICES ASSUME NEW r, r = Append(q, x) PROVE OneMore(q, x, r)
  OBVIOUS
<1> DEFINE Q == {q[a] : a \in DOMAIN q}
           T == Q \cup {x}
           R == {r[a] : a \in DOMAIN r}
<1>1. q \in Seq(Q)
  BY DEF IsSeq
<1> HIDE DEF Q
<1>2. /\ Len(q) \in Nat /\ DOMAIN q = 1..Len(q) /\ DOMAIN r = 1..(Len(q) + 1)
      /\ r[Len(q) + 1] = x /\ \A a \in DOMAIN q : r[a] = q[a]
  <2>1. q \in Seq(T) /\ x \in T
    BY <1>1
  <2> HIDE DEF T
  <2> QED BY <2>1
<1>3. r \in Seq(T)
  <2>1. q \in Seq(T) /\ x \in T
    BY <1>1
  <2> HIDE DEF T
  <2> QED BY <2>1
<1>4. r = [a \in DOMAIN r |-> r[a]]
  <2> HIDE DEF T
  <2> QED BY <1>3, SeqIsFunction
<1>5. \A a \in DOMAIN r : r[a] \in R
  OBVIOUS
<1> HIDE DEF R
<1>6. r \in [1..(Len(q) + 1) -> R]
  BY Zenon, <1>2, <1>4, <1>5
<1>7. r \in Seq(R)
  <2> DEFINE n == Len(q) + 1
  <2>1. n \in Nat /\ r \in [1..n -> R]
    BY <1>2, <1>6
  <2> HIDE DEF n
  <2> QED BY <2>1, FunctionIsSeq
<1> QED BY <1>2, <1>7 DEF R, IsSeq, OneMore

(* The array calloc returns is known to the thread that asked for it.      *)
LEMMA NewStoreExchange == ASSUME ExchangeInv, NEW t \in Threads, NewStore(t) PROVE ExchangeInv'
<1> DEFINE Z == ZeroArray(get_prime(2 * size))
           k == Len(arrays) + 1
           q == [NoResize EXCEPT !["new_size"] = get_prime(2 * size)]
           r == [q EXCEPT !["new_store"] = k]
<1>1. Shapes
  BY DEF ExchangeInv, ArraysOwned
<1>2. /\ arrays' = Append(arrays, Z) /\ store' = store
      /\ pc' = [pc EXCEPT ![t] = "r_for"] /\ rsz' = [rsz EXCEPT ![t] = r]
      /\ pc[t] = "r_new"
  BY DEF NewStore, Goto, SetResize
<1>3. Z.live = TRUE /\ Z = [live |-> Z.live, elt |-> Z.elt]
  BY DEF ZeroArray
<1>4. IsLocals(NoResize)
  BY DEF IsLocals, Fields, NoResize
<1> DEFINE p == get_prime(2 * size)
<1>5. IsLocals(q)
  <2> HIDE DEF p
  <2>1. IsLocals([NoResize EXCEPT !["new_size"] = p])
    BY <1>4, SetField DEF Fields
  <2> QED BY <2>1 DEF p
<1> HIDE DEF Z, q
<1>6. /\ Len(arrays) \in Nat /\ DOMAIN arrays = 1..Len(arrays) /\ DOMAIN arrays' = 1..k
      /\ IsSeq(arrays') /\ arrays'[k] = Z /\ \A a \in DOMAIN arrays : arrays'[a] = arrays[a]
  <2>1. IsSeq(arrays)
    BY <1>1 DEF Shapes
  <2>2. OneMore(arrays, Z, arrays')
    BY <1>2, <2>1, Appended
  <2> QED BY <2>2 DEF OneMore
<1>7. k \in DOMAIN arrays' /\ k \notin DOMAIN arrays /\ DOMAIN arrays' = DOMAIN arrays \cup {k}
  BY <1>6
<1> HIDE DEF k
<1>8. IsLocals(r) /\ r.new_store = k
  BY <1>5, SetField DEF Fields
<1> HIDE DEF r
<1>9. /\ pc'[t] = "r_for" /\ rsz'[t] = r
      /\ \A u \in Threads \ {t} : pc'[u] = pc[u] /\ rsz'[u] = rsz[u]
  BY <1>1, <1>2 DEF Shapes
<1>10. Shapes'
  <2>1. pc' \in [Threads -> Pcs] /\ rsz' = [u \in Threads |-> rsz'[u]]
    BY <1>1, <1>2 DEF Shapes, Pcs, ResizePcs
  <2>2. ASSUME NEW u \in Threads PROVE rsz'[u] = [f \in Fields |-> rsz'[u][f]]
    BY <1>1, <1>8, <1>9, ShapeOfLocals DEF IsLocals
  <2>3. rsz' = [u \in Threads |-> [f \in Fields |-> rsz'[u][f]]]
    BY <2>1, <2>2
  <2>4. \A a \in DOMAIN arrays' : /\ arrays'[a] = [live |-> arrays'[a].live, elt |-> arrays'[a].elt]
                                  /\ arrays'[a].live \in BOOLEAN
    BY <1>1, <1>3, <1>6, <1>7 DEF Shapes
  <2>5. store' \in DOMAIN arrays'
    BY <1>1, <1>2, <1>7 DEF Shapes
  <2> QED BY <1>6, <2>1, <2>3, <2>4, <2>5 DEF Shapes, Fields
<1>11. \A u \in Threads : pc'[u] = "r_free" =>
         pc[u] = "r_free" /\ rsz'[u] = rsz[u] /\ rsz[u].base \in DOMAIN arrays
  BY <1>9 DEF ExchangeInv, ArraysOwned
<1>12. \A u \in Threads \ {t} : Resizing(u)' =>
         Resizing(u) /\ FillsItsOwn(u) /\ rsz'[u] = rsz[u] /\ rsz[u].new_store \in DOMAIN arrays
  BY <1>9 DEF ExchangeInv, ArraysOwned, Resizing, Moving, Swapping, FillsItsOwn
<1>13. FillsItsOwn(t)'
  <2>1. arrays'[k].live /\ k # store'
    BY <1>1, <1>2, <1>3, <1>6, <1>7 DEF Shapes
  <2> QED BY <1>7, <1>8, <1>9, <1>11, <1>12, <2>1 DEF FillsItsOwn
<1>14. ASSUME NEW u \in Threads \ {t}, Resizing(u)' PROVE FillsItsOwn(u)'
  <2> DEFINE a == rsz[u].new_store
  <2>1. a \in DOMAIN arrays' /\ arrays'[a].live /\ a # store' /\ a # k
    BY <1>2, <1>6, <1>7, <1>12, <1>14 DEF FillsItsOwn
  <2>2. \A v \in Threads \ {u} : Resizing(v)' => rsz'[v].new_store # a
    BY <1>8, <1>9, <1>12, <1>14, <2>1 DEF FillsItsOwn
  <2>3. \A v \in Threads : pc'[v] = "r_free" => rsz'[v].base # a
    BY <1>11, <1>12, <1>14 DEF FillsItsOwn
  <2> HIDE DEF a
  <2> QED BY <1>12, <1>14, <2>1, <2>2, <2>3 DEF FillsItsOwn, a
<1>15. FreedOnlyInExchange'
  <2>1. arrays'[store'] = arrays[store]
    BY <1>1, <1>2, <1>6 DEF Shapes
  <2>2. \A u \in Threads : pc[u] = "r_store" => pc'[u] = "r_store"
    BY <1>2, <1>9
  <2> QED BY <2>1, <2>2 DEF ExchangeInv, ArraysOwned, FreedOnlyInExchange
<1>16. \A u \in Threads : pc'[u] = "r_free" => rsz'[u].base \in DOMAIN arrays'
  BY <1>7, <1>11
<1>17. \A u \in Threads : Resizing(u)' => FillsItsOwn(u)'
  BY <1>13, <1>14
<1> QED BY <1>10, <1>15, <1>16, <1>17 DEF ExchangeInv, ArraysOwned
(* free(ht->store): no other thread fills the array it names.              *)
LEMMA FreeStoreExchange ==
    ASSUME ExchangeInv, NEW t \in Threads, FreeStore(t) PROVE ExchangeInv'
<1> DEFINE b == rsz[t].base
<1>1. Shapes /\ b \in DOMAIN arrays
  BY DEF ExchangeInv, ArraysOwned, FreeStore
<1>2. /\ arrays' = [arrays EXCEPT ![b] = [@ EXCEPT !.live = FALSE]]
      /\ store' = store /\ rsz' = rsz
      /\ pc' = [pc EXCEPT ![t] = "r_store"] /\ pc[t] = "r_free"
  BY DEF FreeStore, Goto
<1>3. pc'[t] = "r_store" /\ \A u \in Threads \ {t} : pc'[u] = pc[u]
  BY <1>1, <1>2 DEF Shapes
<1>4. /\ DOMAIN arrays' = DOMAIN arrays
      /\ \A a \in DOMAIN arrays \ {b} : arrays'[a] = arrays[a]
      /\ arrays'[b] = [live |-> FALSE, elt |-> arrays[b].elt]
  <2>1. arrays[b] = [live |-> arrays[b].live, elt |-> arrays[b].elt]
    BY <1>1 DEF Shapes
  <2> HIDE DEF b
  <2>2. DOMAIN arrays' = DOMAIN arrays /\ \A a \in DOMAIN arrays \ {b} : arrays'[a] = arrays[a]
    BY <1>2
  <2>3. arrays'[b] = [arrays[b] EXCEPT !.live = FALSE]
    BY <1>1, <1>2
  <2> QED BY <2>1, <2>2, <2>3
<1>5. IsSeq(arrays')
  <2> DEFINE y == [arrays[b] EXCEPT !.live = FALSE]
  <2>1. arrays' = [arrays EXCEPT ![b] = y]
    BY <1>2
  <2> HIDE DEF b, y
  <2> QED BY <1>1, <2>1, SameDomainSeq DEF Shapes
<1> HIDE DEF b
<1>6. Shapes'
  <2>1. pc' \in [Threads -> Pcs]
    BY <1>1, <1>2 DEF Shapes, Pcs, ResizePcs
  <2>2. ASSUME NEW a \in DOMAIN arrays'
        PROVE  /\ arrays'[a] = [live |-> arrays'[a].live, elt |-> arrays'[a].elt]
               /\ arrays'[a].live \in BOOLEAN
    <3>1. CASE a = b
      <4> DEFINE e == arrays[b].elt
      <4>1. arrays'[a] = [live |-> FALSE, elt |-> e]
        BY <1>4, <3>1
      <4> HIDE DEF e
      <4>2. arrays'[a].live = FALSE /\ arrays'[a].elt = e
        BY <4>1
      <4> QED BY <4>1, <4>2
    <3>2. CASE a # b
      <4>1. arrays'[a] = arrays[a] /\ a \in DOMAIN arrays
        BY <1>4, <3>2
      <4> QED BY <1>1, <4>1 DEF Shapes
    <3> QED BY <3>1, <3>2
  <2> QED BY <1>1, <1>2, <1>4, <1>5, <2>1, <2>2 DEF Shapes
<1>7. \A u \in Threads : Resizing(u)' => Resizing(u)
  BY <1>2, <1>3 DEF Resizing, Moving, Swapping
<1>8. ASSUME NEW u \in Threads, Resizing(u)' PROVE FillsItsOwn(u)'
  <2> DEFINE a == rsz[u].new_store
  <2>1. FillsItsOwn(u)
    BY <1>7, <1>8 DEF ExchangeInv, ArraysOwned
  <2>2. a # b /\ a \in DOMAIN arrays /\ arrays[a].live /\ a # store
    BY <1>2, <2>1 DEF FillsItsOwn, b
  <2>3. /\ \A v \in Threads \ {u} : Resizing(v)' => rsz[v].new_store # a
        /\ \A v \in Threads : pc'[v] = "r_free" => rsz[v].base # a
    BY <1>3, <1>7, <2>1 DEF FillsItsOwn
  <2> QED BY <1>2, <1>4, <2>2, <2>3 DEF FillsItsOwn
<1>9. \A u \in Threads : pc'[u] = "r_free" => rsz'[u].base \in DOMAIN arrays'
  BY <1>2, <1>3, <1>4 DEF ExchangeInv, ArraysOwned
<1>10. FreedOnlyInExchange'
  BY <1>3 DEF FreedOnlyInExchange
<1> QED BY <1>6, <1>8, <1>9, <1>10 DEF ExchangeInv, ArraysOwned

(* ht->store = new_store: the table's array is live again.                 *)
LEMMA SetStoreExchange ==
    ASSUME ExchangeInv, NEW t \in Threads, SetStore(t) PROVE ExchangeInv'
<1> DEFINE a == rsz[t].new_store
<1>1. Shapes
  BY DEF ExchangeInv, ArraysOwned
<1>2. /\ store' = a /\ pc' = [pc EXCEPT ![t] = "ret"] /\ pc[t] = "r_store"
      /\ UNCHANGED <<arrays, rsz>>
  BY DEF SetStore, Goto
<1>3. pc'[t] = "ret" /\ \A u \in Threads \ {t} : pc'[u] = pc[u]
  BY <1>1, <1>2 DEF Shapes
<1>4. Resizing(t) /\ FillsItsOwn(t)
  BY <1>2 DEF ExchangeInv, ArraysOwned, Resizing, Swapping
<1>5. a \in DOMAIN arrays /\ arrays[a].live
  BY <1>4 DEF FillsItsOwn
<1>6. Shapes'
  <2>1. pc' \in [Threads -> Pcs]
    BY <1>1, <1>2 DEF Shapes, Pcs
  <2> QED BY <1>1, <1>2, <1>5, <2>1 DEF Shapes
<1>7. \A u \in Threads : Resizing(u)' => u # t /\ Resizing(u)
  BY <1>3 DEF Resizing, Moving, Swapping
<1>8. ASSUME NEW u \in Threads, Resizing(u)' PROVE FillsItsOwn(u)'
  <2>1. FillsItsOwn(u) /\ u # t
    BY <1>7, <1>8 DEF ExchangeInv, ArraysOwned
  <2>2. rsz[u].new_store # a
    BY <1>4, <2>1 DEF FillsItsOwn
  <2>3. /\ \A v \in Threads \ {u} : Resizing(v)' => rsz[v].new_store # rsz[u].new_store
        /\ \A v \in Threads : pc'[v] = "r_free" => rsz[v].base # rsz[u].new_store
    BY <1>3, <1>7, <2>1 DEF FillsItsOwn
  <2> HIDE DEF a
  <2> QED BY <1>2, <2>1, <2>2, <2>3 DEF FillsItsOwn
<1>9. \A u \in Threads : pc'[u] = "r_free" => rsz'[u].base \in DOMAIN arrays'
  BY <1>2, <1>3 DEF ExchangeInv, ArraysOwned
<1>10. FreedOnlyInExchange'
  BY <1>2, <1>5 DEF FreedOnlyInExchange
<1> QED BY <1>6, <1>8, <1>9, <1>10 DEF ExchangeInv, ArraysOwned

LEMMA SameExchange ==
    ASSUME ExchangeInv, UNCHANGED <<store, arrays, pc, rsz>> PROVE ExchangeInv'
<1>1. Shapes'
  BY DEF ExchangeInv, ArraysOwned, Shapes
<1>2. \A u \in Threads : Resizing(u)' => FillsItsOwn(u)'
  BY DEF ExchangeInv, ArraysOwned, Resizing, Moving, Swapping, FillsItsOwn
<1>3. \A u \in Threads : pc'[u] = "r_free" => rsz'[u].base \in DOMAIN arrays'
  BY DEF ExchangeInv, ArraysOwned
<1>4. FreedOnlyInExchange'
  BY DEF ExchangeInv, ArraysOwned, FreedOnlyInExchange
<1> QED BY <1>1, <1>2, <1>3, <1>4 DEF ExchangeInv, ArraysOwned

LEMMA InitExchange == Init => ExchangeInv
<1> SUFFICES ASSUME Init PROVE ExchangeInv
  OBVIOUS
<1> DEFINE Z == ZeroArray(get_prime(Sz + 1))
<1>1. /\ pc = [t \in Threads |-> "idle"] /\ rsz = [t \in Threads |-> NoResize]
      /\ store = 1 /\ arrays = <<Z>>
  BY DEF Init, htable_init
<1>2. Z = [live |-> Z.live, elt |-> Z.elt] /\ Z.live = TRUE
  BY DEF ZeroArray
<1>3. IsLocals(NoResize)
  BY DEF IsLocals, Fields, NoResize
<1> HIDE DEF Z
<1>4. DOMAIN arrays = 1..1 /\ arrays[1] = Z /\ arrays = [a \in 1..1 |-> Z]
  BY <1>1, OneTuple
<1>5. IsSeq(arrays)
  <2> DEFINE R == {arrays[a] : a \in DOMAIN arrays}
  <2>1. Z \in R /\ 1 \in Nat
    BY <1>4
  <2> HIDE DEF R
  <2>2. arrays \in [1..1 -> R]
    BY <1>4, <2>1
  <2>3. arrays \in Seq(R)
    BY <2>1, <2>2, FunctionIsSeq
  <2> QED BY <2>3 DEF R, IsSeq
<1>6. Shapes
  <2>1. pc \in [Threads -> Pcs]
    BY <1>1 DEF Pcs
  <2>2. ASSUME NEW t \in Threads PROVE rsz[t] = [f \in Fields |-> rsz[t][f]]
    <3>1. rsz[t] = NoResize
      BY <1>1
    <3> QED BY <1>3, <3>1 DEF IsLocals
  <2>3. rsz = [t \in Threads |-> rsz[t]]
    BY <1>1
  <2>4. rsz = [t \in Threads |-> [f \in Fields |-> rsz[t][f]]]
    BY <2>2, <2>3
  <2>5. \A a \in DOMAIN arrays : arrays[a] = Z
    BY <1>4
  <2>6. \A a \in DOMAIN arrays : /\ arrays[a] = [live |-> arrays[a].live, elt |-> arrays[a].elt]
                                 /\ arrays[a].live \in BOOLEAN
    BY <1>2, <2>5
  <2>7. store \in DOMAIN arrays
    BY <1>1, <1>4
  <2> QED BY <1>5, <2>1, <2>4, <2>6, <2>7 DEF Shapes, Fields
<1>7. \A t \in Threads : ~Resizing(t) /\ pc[t] # "r_free"
  BY <1>1 DEF Resizing, Moving, Swapping
<1>8. FreedOnlyInExchange
  BY <1>1, <1>2, <1>4 DEF FreedOnlyInExchange
<1> QED BY <1>6, <1>7, <1>8 DEF ExchangeInv, ArraysOwned

LEMMA NextExchange == ExchangeInv /\ [Next]_vars => ExchangeInv'
<1> SUFFICES ASSUME ExchangeInv, [Next]_vars PROVE ExchangeInv'
  OBVIOUS
<1>1. CASE UNCHANGED vars
  BY <1>1, SameExchange DEF vars, table, frames
<1>2. ASSUME NEW t \in Threads, CallInsert(t) \/ CallLookup(t) PROVE ExchangeInv'
  BY <1>2, InsertExchange
<1>3. ASSUME NEW t \in Threads, Step(t) PROVE ExchangeInv'
  <2>1. CASE Fault(t)
    BY <2>1, SameExchange DEF Fault, table, frames
  <2>2. CASE InsertStep(t) \/ Return(t)
    BY <2>2, InsertExchange
  <2>3. CASE ResizeStep(t)
    BY <2>3, ResizeExchange, NewStoreExchange, FreeStoreExchange, SetStoreExchange
       DEF ResizeStep
  <2> QED BY <1>3, <2>1, <2>2, <2>3 DEF Step
<1> QED BY <1>1, <1>2, <1>3 DEF Next

(* However many threads resize the table at once, the array a resize       *)
(* moves nodes to is live, is not the table's, and no other thread fills   *)
(* it or is about to free it (htable.c:113-134).                           *)
THEOREM NewArrays == Spec => []ArraysOwned
<1>1. ExchangeInv => ArraysOwned
  BY DEF ExchangeInv
<1> QED BY <1>1, InitExchange, NextExchange, PTL DEF Spec
-----------------------------------------------------------------------------
(* What Reach is: the least set of nodes that has P and is closed.         *)
ReachSpec ==
    \A P \in SUBSET Ptr :
      /\ Reach(P) \subseteq NodeId /\ P \ {NULL} \subseteq Reach(P)
      /\ \A m \in Reach(P) : node[m].next # NULL => node[m].next \in Reach(P)
      /\ \A S \in SUBSET NodeId :
           P \ {NULL} \subseteq S /\ (\A m \in S : node[m].next \in S \cup {NULL})
             => Reach(P) \subseteq S

LEMMA ReachIsLeast == HInv => ReachSpec
<1> SUFFICES ASSUME HInv, NEW P \in SUBSET Ptr
             PROVE  /\ Reach(P) \subseteq NodeId /\ P \ {NULL} \subseteq Reach(P)
                    /\ \A m \in Reach(P) : node[m].next # NULL => node[m].next \in Reach(P)
                    /\ \A S \in SUBSET NodeId :
                         P \ {NULL} \subseteq S
                           /\ (\A m \in S : node[m].next \in S \cup {NULL})
                           => Reach(P) \subseteq S
  BY DEF ReachSpec
<1>1. Reach(P) \subseteq NodeId
  BY DEF Reach
<1>2. P \ {NULL} \subseteq Reach(P)
  BY DEF Reach, Ptr
<1>3. ASSUME NEW m \in Reach(P), node[m].next # NULL PROVE node[m].next \in Reach(P)
  <2>1. node[m].next \in NodeId
    BY <1>1, <1>3 DEF HInv, TypeOK, Node_, Ptr
  <2>2. ASSUME NEW S \in SUBSET NodeId, P \ {NULL} \subseteq S, Closed(S)
        PROVE  node[m].next \in S
    BY <1>3, <2>2 DEF Reach, Closed
  <2> QED BY <2>1, <2>2 DEF Reach
<1>4. ASSUME NEW S \in SUBSET NodeId, P \ {NULL} \subseteq S,
             \A m \in S : node[m].next \in S \cup {NULL}
      PROVE  Reach(P) \subseteq S
  BY <1>4 DEF Reach, Closed
<1> QED BY <1>1, <1>2, <1>3, <1>4

(* What the table holds when nobody resizes it.                            *)
EntriesSpec ==
    /\ Heads(1) \in SUBSET Ptr
    /\ Entries = Reach(Heads(1)) /\ Entries \subseteq 1..used
    /\ Heads(1) = {arrays[1].elt[s] : s \in Slots(size)}

LEMMA EntriesAre == HInv => EntriesSpec
<1> SUFFICES ASSUME HInv PROVE EntriesSpec
  OBVIOUS
<1>1. \A t \in Threads : ~Moving(t) /\ ~Swapping(t)
  BY DEF HInv, LocalsOK, InsertPcs, Moving, Swapping
<1>2. Entries = Reach(Heads(1))
  BY <1>1 DEF Entries, HInv, OneArray
<1>3. arrays[1].elt \in [Slots(size) -> Ptr]
  BY TheArray DEF HInv
<1>4. Heads(1) = {arrays[1].elt[s] : s \in Slots(size)} /\ Heads(1) \in SUBSET Ptr
  BY <1>3 DEF Heads
<1>5. 1..used \in SUBSET NodeId
  BY BoundAssumption DEF HInv, TypeOK, NodeId
<1>6. Heads(1) \ {NULL} \subseteq 1..used
  BY <1>4 DEF HInv, HeadsInPlace
<1>7. \A m \in 1..used : node[m].next \in 1..used \cup {NULL}
  BY <1>5 DEF HInv, ListsAscend, TypeOK
<1>8. Entries \subseteq 1..used
  <2> DEFINE S == 1..used
             P == Heads(1)
  <2>1. ReachSpec
    BY ReachIsLeast
  <2>2. S \in SUBSET NodeId /\ P \in SUBSET Ptr /\ P \ {NULL} \subseteq S
        /\ \A m \in S : node[m].next \in S \cup {NULL}
    BY <1>4, <1>5, <1>6, <1>7
  <2> HIDE DEF S, P
  <2>3. Reach(P) \subseteq S
    BY <2>1, <2>2 DEF ReachSpec
  <2> QED BY <1>2, <2>3 DEF S, P
<1> QED BY <1>2, <1>4, <1>8 DEF EntriesSpec

LEMMA NullNotNode == NULL \notin NodeId /\ NodeId \subseteq Nat
BY NullAssumption, BoundAssumption DEF NodeId

(* Threads that inserted other things leave what a walk knows right.       *)
LEMMA OtherWalk ==
    ASSUME NEW u, NEW n, WalkOK(u),
           pc'[u] = pc[u], loc'[u] = loc[u], arg'[u] = arg[u],
           n # NULL, node[n].next = NULL, node'[n].next = NULL,
           \A m \in NodeId : node'[m].next = node[m].next \/ node'[m].next = n,
           \A m \in NodeId \ {n} : node'[m].key = node[m].key,
           n # loc[u].prev, n # loc[u].curr,
           Linking(u) => loc[u].n \in NodeId \ {n}
    PROVE  WalkOK(u)'
<1>1. pc'[u] \in {"base", "head"} => loc'[u].prev = NULL
  BY DEF WalkOK
<1>2. pc'[u] = "walk" /\ loc'[u].curr # NULL =>
         \A m \in NodeId : node'[m].next = loc'[u].curr => m = loc'[u].prev
  BY DEF WalkOK
<1>3. ASSUME pc'[u] \in {"walk", "link"}, loc'[u].prev # NULL
      PROVE  \E A \in SUBSET NodeId :
                /\ loc'[u].prev \in A /\ Upstream(A)'
                /\ \A m \in A : node'[m].key # arg'[u].key
  <2>1. PICK A \in SUBSET NodeId : /\ loc[u].prev \in A /\ Upstream(A)
                                   /\ \A m \in A : node[m].key # arg[u].key
    BY <1>3 DEF WalkOK
  <2> DEFINE B == A \ {n}
  <2>2. B \in SUBSET NodeId /\ loc'[u].prev \in B
    BY <2>1
  <2>3. ASSUME NEW m \in NodeId, node'[m].next \in B PROVE m \in B
    <3>1. node'[m].next = node[m].next
      BY <2>3
    <3>2. m \in A
      BY <2>1, <2>3, <3>1 DEF Upstream
    <3>3. m # n
      BY <2>1, <2>3, NullNotNode
    <3> QED BY <3>2, <3>3
  <2>4. \A m \in B : node'[m].key # arg'[u].key
    BY <2>1
  <2> HIDE DEF B
  <2> QED BY <2>2, <2>3, <2>4 DEF Upstream
<1>4. Linking(u)' => node'[loc'[u].n].key = arg'[u].key
  BY DEF WalkOK, Linking
<1> QED BY <1>1, <1>2, <1>3, <1>4 DEF WalkOK

(* The table holds the same where nodes and slots are the same.            *)
LEMMA SameEntries ==
    ASSUME HInv, HInv', UNCHANGED <<node, arrays>>
    PROVE  Entries' = Entries
<1>1. EntriesSpec /\ EntriesSpec'
  <2>1. (HInv => EntriesSpec)'
    BY EntriesAre, PTL
  <2> QED BY <2>1, EntriesAre
<1>2. Heads(1)' = Heads(1)
  BY DEF Heads
<1>3. Reach(Heads(1))' = Reach(Heads(1))
  BY <1>2 DEF Reach, Closed
<1> QED BY <1>1, <1>3 DEF EntriesSpec

(* A step that changes only the control and the locals of its thread.      *)
LEMMA WalkStep ==
    ASSUME RaceInv, HInv', NEW t \in Threads, UNCHANGED <<node, arrays>>,
           \A u \in Threads \ {t} : pc'[u] = pc[u] /\ loc'[u] = loc[u] /\ arg'[u] = arg[u],
           WalkOK(t)'
    PROVE  RaceInv'
<1>1. HInv
  BY DEF RaceInv
<1>2. OneWayIn'
  BY DEF RaceInv, OneWayIn, Heads
<1>3. NoDuplicateKeys'
  <2>1. Entries' = Entries
    BY <1>1, SameEntries
  <2> QED BY <2>1 DEF RaceInv, NoDuplicateKeys
<1>4. ASSUME NEW u \in Threads \ {t} PROVE WalkOK(u)'
  <2>1. WalkOK(u)
    BY DEF RaceInv
  <2> QED BY <2>1 DEF WalkOK, Linking, Upstream
<1> QED BY <1>2, <1>3, <1>4 DEF RaceInv

(* The thread's own control and locals after a step.                       *)
LEMMA OwnStep ==
    ASSUME HInv, NEW t \in Threads, NEW l, NEW x,
           pc' = [pc EXCEPT ![t] = l], loc' = [loc EXCEPT ![t] = x], arg' = arg
    PROVE  /\ pc'[t] = l /\ loc'[t] = x /\ arg'[t] = arg[t]
           /\ \A u \in Threads \ {t} :
                pc'[u] = pc[u] /\ loc'[u] = loc[u] /\ arg'[u] = arg[u]
BY DEF HInv, TypeOK

(* Steps after which the thread's walk has yet to begin or is over.        *)
LEMMA NoWalkStep ==
    ASSUME RaceInv, HInv', NEW t \in Threads, UNCHANGED <<node, arrays>>,
           \A u \in Threads \ {t} : pc'[u] = pc[u] /\ loc'[u] = loc[u] /\ arg'[u] = arg[u],
           pc'[t] \in {"idle", "ret", "size"}
    PROVE  RaceInv'
<1>1. WalkOK(t)'
  BY DEF WalkOK, Linking
<1> QED BY <1>1, WalkStep

LEMMA CallRace ==
    ASSUME RaceInv, HInv', NEW t \in Threads, NEW op, NEW k, NEW v, Call(t, op, k, v)
    PROVE  RaceInv'
<1>1. HInv
  BY DEF RaceInv
<1>2. /\ pc'[t] = "size" /\ UNCHANGED <<node, arrays>>
      /\ \A u \in Threads \ {t} : pc'[u] = pc[u] /\ loc'[u] = loc[u] /\ arg'[u] = arg[u]
  BY <1>1 DEF Call, Goto, SetLocal, HInv, TypeOK, table
<1> QED BY <1>2, NoWalkStep

LEMMA EndRace ==
    ASSUME RaceInv, HInv', NEW t \in Threads, Found(t) \/ LookupMiss(t) \/ Return(t)
    PROVE  RaceInv'
<1>1. HInv
  BY DEF RaceInv
<1>2. /\ pc'[t] \in {"ret", "idle"} /\ UNCHANGED <<node, arrays>>
      /\ \A u \in Threads \ {t} : pc'[u] = pc[u] /\ loc'[u] = loc[u] /\ arg'[u] = arg[u]
  BY <1>1 DEF Found, LookupMiss, Return, Goto, SetLocal, HInv, TypeOK, table
<1> QED BY <1>2, NoWalkStep

LEMMA ReadSizeRace ==
    ASSUME RaceInv, HInv', NEW t \in Threads, ReadSize(t) PROVE RaceInv'
<1> DEFINE x == [loc[t] EXCEPT !.slot = hashcode[arg[t].key] % size]
<1>1. HInv /\ LocalsOK(t) /\ loc[t] \in Local_
  BY DEF RaceInv, HInv, TypeOK
<1>2. /\ pc' = [pc EXCEPT ![t] = "base"] /\ loc' = [loc EXCEPT ![t] = x] /\ arg' = arg
      /\ UNCHANGED <<node, arrays>> /\ pc[t] = "size"
  BY DEF ReadSize, Goto, SetLocal, table
<1>3. x.prev = NULL
  BY <1>1, <1>2 DEF LocalsOK, Local_
<1> HIDE DEF x
<1>4. /\ pc'[t] = "base" /\ loc'[t] = x
      /\ \A u \in Threads \ {t} : pc'[u] = pc[u] /\ loc'[u] = loc[u] /\ arg'[u] = arg[u]
  BY <1>1, <1>2, OwnStep
<1>5. WalkOK(t)'
  BY <1>3, <1>4 DEF WalkOK, Linking
<1> QED BY <1>2, <1>4, <1>5, WalkStep

LEMMA ReadBaseRace ==
    ASSUME RaceInv, HInv', NEW t \in Threads, ReadBase(t) \/ ReadBaseToLink(t)
    PROVE  RaceInv'
<1> DEFINE x == [loc[t] EXCEPT !.base = store]
<1>1. HInv /\ WalkOK(t) /\ loc[t] \in Local_
  BY DEF RaceInv, HInv, TypeOK
<1>2. /\ loc' = [loc EXCEPT ![t] = x] /\ arg' = arg /\ UNCHANGED <<node, arrays>>
  BY DEF ReadBase, ReadBaseToLink, SetLocal, table
<1>3. x.prev = loc[t].prev /\ x.n = loc[t].n
  BY <1>1 DEF Local_
<1> HIDE DEF x
<1>4. PICK l : /\ pc' = [pc EXCEPT ![t] = l]
               /\ \/ pc[t] = "base" /\ l = "head"
                  \/ pc[t] = "linkbase" /\ l = "linkhead"
  BY DEF ReadBase, ReadBaseToLink, Goto
<1>5. /\ pc'[t] = l /\ loc'[t] = x /\ arg'[t] = arg[t]
      /\ \A u \in Threads \ {t} : pc'[u] = pc[u] /\ loc'[u] = loc[u] /\ arg'[u] = arg[u]
  BY <1>1, <1>2, <1>4, OwnStep
<1>6. WalkOK(t)'
  BY <1>1, <1>2, <1>3, <1>4, <1>5 DEF WalkOK, Linking
<1> QED BY <1>2, <1>5, <1>6, WalkStep

(* The head of a slot is entered from no node.                             *)
LEMMA ReadHeadRace ==
    ASSUME RaceInv, HInv', NEW t \in Threads, ReadHead(t) PROVE RaceInv'
<1> DEFINE c == arrays[loc[t].base].elt[loc[t].slot]
           x == [loc[t] EXCEPT !.curr = c]
<1>1. HInv /\ WalkOK(t) /\ LocalsOK(t) /\ loc[t] \in Local_ /\ OneWayIn
  BY DEF RaceInv, HInv, TypeOK
<1>2. /\ pc' = [pc EXCEPT ![t] = "walk"] /\ loc' = [loc EXCEPT ![t] = x] /\ arg' = arg
      /\ UNCHANGED <<node, arrays>> /\ pc[t] = "head" /\ ~BadAccess(t)
  BY DEF ReadHead, Goto, SetLocal, table
<1>3. x.prev = NULL /\ x.curr = c
  BY <1>1, <1>2 DEF WalkOK, Local_
<1>4. c \in Heads(1)
  <2>1. loc[t].base = 1 /\ loc[t].slot \in DOMAIN arrays[loc[t].base].elt
    BY <1>1, <1>2 DEF LocalsOK, BadAccess, BadIndex
  <2> QED BY <2>1 DEF Heads
<1> HIDE DEF c, x
<1>5. /\ pc'[t] = "walk" /\ loc'[t] = x
      /\ \A u \in Threads \ {t} : pc'[u] = pc[u] /\ loc'[u] = loc[u] /\ arg'[u] = arg[u]
  BY <1>1, <1>2, OwnStep
<1>6. WalkOK(t)'
  BY <1>1, <1>2, <1>3, <1>4, <1>5 DEF WalkOK, Linking, OneWayIn
<1> QED BY <1>2, <1>5, <1>6, WalkStep

(* What led to the node before leads to this one, and nothing else.        *)
LEMMA AdvanceRace ==
    ASSUME RaceInv, HInv', NEW t \in Threads, Advance(t) PROVE RaceInv'
<1> DEFINE p == loc[t].curr
           c == node[p].next
           k == IF loc[t].collision < MAX_COLLISION
                THEN loc[t].collision + 1 ELSE loc[t].collision
           x == [loc[t] EXCEPT !.prev = p, !.curr = c, !.collision = k]
<1>1. HInv /\ WalkOK(t) /\ loc[t] \in Local_ /\ OneWayIn
  BY DEF RaceInv, HInv, TypeOK
<1>2. /\ loc' = [loc EXCEPT ![t] = x] /\ arg' = arg /\ UNCHANGED <<node, arrays>>
      /\ pc[t] = "walk" /\ p # NULL /\ node[p].key # arg[t].key
  BY DEF Advance, SetLocal, table
<1>3. pc' = [pc EXCEPT ![t] = "walk"]
  BY <1>1, <1>2 DEF Advance, HInv, TypeOK
<1>4. p \in NodeId /\ x.prev = p /\ x.curr = c
  BY <1>1, <1>2 DEF Local_, Ptr
<1> HIDE DEF x, k
<1>5. /\ pc'[t] = "walk" /\ loc'[t] = x /\ arg'[t] = arg[t]
      /\ \A u \in Threads \ {t} : pc'[u] = pc[u] /\ loc'[u] = loc[u] /\ arg'[u] = arg[u]
  BY <1>1, <1>2, <1>3, OwnStep
<1>6. c # NULL => \A m \in NodeId : node[m].next = c => m = p
  BY <1>1, <1>4 DEF OneWayIn
<1>7. \E A \in SUBSET NodeId : /\ p \in A /\ Upstream(A)
                               /\ \A m \in A : node[m].key # arg[t].key
  <2>1. CASE loc[t].prev = NULL
    <3>1. Upstream({p}) /\ {p} \in SUBSET NodeId
      BY <1>1, <1>2, <1>4, <2>1, NullNotNode DEF WalkOK, Upstream
    <3> HIDE DEF p
    <3> QED BY <1>2, <3>1
  <2>2. CASE loc[t].prev # NULL
    <3>1. PICK A \in SUBSET NodeId : /\ loc[t].prev \in A /\ Upstream(A)
                                     /\ \A m \in A : node[m].key # arg[t].key
      BY <1>1, <1>2, <2>2 DEF WalkOK
    <3> DEFINE B == A \cup {p}
    <3>2. Upstream(B) /\ B \in SUBSET NodeId /\ p \in B
      BY <1>1, <1>2, <1>4, <3>1 DEF WalkOK, Upstream
    <3>3. \A m \in B : node[m].key # arg[t].key
      BY <1>2, <3>1
    <3> HIDE DEF B, p
    <3> QED BY <3>2, <3>3
  <2> QED BY <2>1, <2>2
<1> HIDE DEF p, c
<1>8. WalkOK(t)'
  BY <1>2, <1>4, <1>5, <1>6, <1>7 DEF WalkOK, Linking, Upstream
<1> QED BY <1>2, <1>5, <1>8, WalkStep

(* The facts about the table in the state before and after a step.         *)
LEMMA TableFacts ==
    ASSUME HInv, HInv'
    PROVE  EntriesSpec /\ EntriesSpec' /\ ReachSpec /\ ReachSpec'
<1>1. (HInv => EntriesSpec)' /\ (HInv => ReachSpec)'
  BY EntriesAre, ReachIsLeast, PTL
<1> QED BY <1>1, EntriesAre, ReachIsLeast

(* A set of nodes with the heads that no link leaves holds all entries.    *)
LEMMA EntriesWithin ==
    ASSUME HInv, NEW S \in SUBSET NodeId, Heads(1) \ {NULL} \subseteq S,
           \A m \in S : node[m].next \in S \cup {NULL}
    PROVE  Entries \subseteq S
BY EntriesAre, ReachIsLeast DEF EntriesSpec, ReachSpec

LEMMA EntriesWithinNext ==
    ASSUME HInv, HInv', NEW S \in SUBSET NodeId, Heads(1)' \ {NULL} \subseteq S,
           \A m \in S : node'[m].next \in S \cup {NULL}
    PROVE  Entries' \subseteq S
BY TableFacts DEF EntriesSpec, ReachSpec

(* What a thread knows of the node it is about to link.                    *)
LEMMA OwnNode ==
    ASSUME RaceInv, NEW t \in Threads, Linking(t), NEW n, n = loc[t].n
    PROVE  /\ n \in NodeId /\ n # NULL /\ node[n].next = NULL
           /\ SlotOf(n) = loc[t].slot /\ node[n].key = arg[t].key
           /\ n \notin Heads(1) /\ n \notin Entries
           /\ \A m \in NodeId : node[m].next # n
           /\ \A u \in Threads \ {t} :
                /\ n # loc[u].prev /\ n # loc[u].curr
                /\ Linking(u) => loc[u].n \in NodeId \ {n}
<1>1. /\ HInv /\ WalkOK(t) /\ LocalsOK(t) /\ PrivateUntilLinked
      /\ \A u \in Threads : LocalsOK(u)
  BY DEF RaceInv, HInv
<1>2. 1..used \subseteq NodeId
  BY <1>1, BoundAssumption DEF HInv, TypeOK, NodeId
<1>3. /\ n \in NodeId /\ node[n].next = NULL
      /\ SlotOf(n) = loc[t].slot /\ node[n].key = arg[t].key
  BY <1>1, <1>2 DEF LocalsOK, WalkOK
<1>4. n \notin Heads(1) /\ \A m \in NodeId : node[m].next # n
  BY <1>1, TheArray DEF HInv, PrivateUntilLinked
<1>5. n \notin Entries
  <2> DEFINE S == Entries \ {n}
  <2>1. EntriesSpec /\ ReachSpec
    BY <1>1, EntriesAre, ReachIsLeast
  <2>2. S \in SUBSET NodeId
    BY <1>2, <2>1 DEF EntriesSpec
  <2>3. Heads(1) \ {NULL} \subseteq S
    BY <1>4, <2>1 DEF EntriesSpec, ReachSpec
  <2>4. \A m \in S : node[m].next \in S \cup {NULL}
    BY <1>4, <2>1, <2>2 DEF EntriesSpec, ReachSpec
  <2>5. Entries \subseteq S
    <3> HIDE DEF S
    <3> QED BY <1>1, <2>2, <2>3, <2>4, EntriesWithin
  <2> QED BY <2>5
<1>6. ASSUME NEW u \in Threads \ {t}
      PROVE  /\ n # loc[u].prev /\ n # loc[u].curr
             /\ Linking(u) => loc[u].n \in NodeId \ {n}
  <2>1. n # loc[u].prev /\ n # loc[u].curr
    BY <1>1 DEF PrivateUntilLinked
  <2>2. Linking(u) => loc[u].n \in NodeId \ {n}
    BY <1>1, <1>2 DEF PrivateUntilLinked, LocalsOK
  <2> QED BY <2>1, <2>2
<1> QED BY <1>3, <1>4, <1>5, <1>6, NullNotNode

(* malloc's node is in no list yet.                                        *)
LEMMA NewNodeRace ==
    ASSUME RaceInv, HInv', NEW t \in Threads, NewNode(t) PROVE RaceInv'
<1> DEFINE n == used + 1
           x == [loc[t] EXCEPT !.n = n]
           l == IF loc[t].prev = NULL THEN "linkbase" ELSE "link"
           rec == [key |-> arg[t].key, val |-> arg[t].val, next |-> NULL]
<1>1. HInv /\ WalkOK(t) /\ loc[t] \in Local_ /\ OneWayIn /\ NoDuplicateKeys
      /\ \A u \in Threads : LocalsOK(u) /\ WalkOK(u)
  BY DEF RaceInv, HInv, TypeOK
<1>2. /\ pc' = [pc EXCEPT ![t] = l] /\ loc' = [loc EXCEPT ![t] = x] /\ arg' = arg
      /\ node' = [node EXCEPT ![n] = rec] /\ arrays' = arrays /\ pc[t] = "walk"
      /\ used < MaxNodes
  BY DEF NewNode, Goto, SetLocal
<1>3. used \in Nat /\ n \in NodeId /\ 1..used \subseteq NodeId \ {n}
  BY <1>1, <1>2, BoundAssumption DEF HInv, TypeOK, NodeId
<1>4. x.prev = loc[t].prev /\ x.n = n
  BY <1>1 DEF Local_
<1>5. /\ node'[n].next = NULL /\ node'[n].key = arg[t].key
      /\ \A m \in NodeId \ {n} : node'[m] = node[m]
  BY <1>1, <1>2, <1>3 DEF HInv, TypeOK
<1>6. node[n].next = NULL
  BY <1>1, <1>3 DEF HInv, ListsAscend
<1>7. l \in {"linkbase", "link"} /\ (l = "link" => loc[t].prev # NULL)
  OBVIOUS
<1> HIDE DEF n, x, l, rec
<1>8. /\ pc'[t] = l /\ loc'[t] = x /\ arg'[t] = arg[t]
      /\ \A u \in Threads \ {t} : pc'[u] = pc[u] /\ loc'[u] = loc[u] /\ arg'[u] = arg[u]
  BY <1>1, <1>2, OwnStep
<1>9. \A u \in Threads : /\ n # loc[u].prev /\ n # loc[u].curr
                         /\ Linking(u) => loc[u].n \in NodeId \ {n}
  <2>1. n # NULL /\ n \notin 1..used
    BY <1>3, NullNotNode
  <2> QED BY <1>1, <1>3, <2>1 DEF LocalsOK
<1>10. OneWayIn'
  <2>1. Heads(1)' = Heads(1)
    BY <1>2 DEF Heads
  <2> QED BY <1>1, <1>5, <2>1 DEF OneWayIn
<1>11. NoDuplicateKeys'
  <2>1. EntriesSpec /\ EntriesSpec' /\ ReachSpec
    BY <1>1, TableFacts
  <2>2. Entries \in SUBSET (NodeId \ {n})
    BY <1>3, <2>1 DEF EntriesSpec
  <2>3. Heads(1)' = Heads(1)
    BY <1>2 DEF Heads
  <2> DEFINE S == Entries
  <2>4. Heads(1)' \ {NULL} \subseteq S
    BY <2>1, <2>3 DEF EntriesSpec, ReachSpec
  <2>5. \A m \in S : node'[m].next \in S \cup {NULL}
    BY <1>5, <2>1, <2>2 DEF EntriesSpec, ReachSpec
  <2>6. Entries' \subseteq S
    <3>1. S \in SUBSET NodeId
      BY <2>2
    <3> HIDE DEF S
    <3> QED BY <1>1, <2>4, <2>5, <3>1, EntriesWithinNext
  <2>7. \A m \in Entries' : node'[m] = node[m] /\ m \in Entries
    BY <1>5, <2>2, <2>6
  <2> QED BY <1>1, <2>7 DEF NoDuplicateKeys
<1>12. ASSUME NEW u \in Threads \ {t} PROVE WalkOK(u)'
  <2>1. WalkOK(u) /\ pc'[u] = pc[u] /\ loc'[u] = loc[u] /\ arg'[u] = arg[u] /\ n # NULL
    BY <1>1, <1>3, <1>8, NullNotNode
  <2> QED BY <1>5, <1>6, <1>9, <2>1, OtherWalk
<1>13. WalkOK(t)'
  <2>1. ASSUME l = "link"
        PROVE  \E A \in SUBSET NodeId : /\ x.prev \in A /\ Upstream(A)'
                                        /\ \A m \in A : node'[m].key # arg[t].key
    <3>1. PICK A \in SUBSET NodeId : /\ loc[t].prev \in A /\ Upstream(A)
                                     /\ \A m \in A : node[m].key # arg[t].key
      BY <1>1, <1>2, <1>7, <2>1 DEF WalkOK
    <3> DEFINE B == A \ {n}
    <3>2. B \in SUBSET NodeId /\ x.prev \in B
      BY <1>4, <1>9, <3>1
    <3>3. \A m \in NodeId : node'[m].next \in B => m \in B
      BY <1>5, <3>1, NullNotNode DEF Upstream
    <3>4. \A m \in B : node'[m].key # arg[t].key
      BY <1>5, <3>1
    <3> HIDE DEF B
    <3> QED BY <3>2, <3>3, <3>4 DEF Upstream
  <2> QED BY <1>4, <1>5, <1>7, <1>8, <2>1 DEF WalkOK, Linking
<1> QED BY <1>10, <1>11, <1>12, <1>13 DEF RaceInv

(* Linking a node elsewhere than where another thread walks: the thread    *)
(* returns, the others' walks and new nodes are as they were.              *)
LEMMA LinkWalks ==
    ASSUME RaceInv, NEW t \in Threads, Linking(t), pc'[t] = "ret",
           \A u \in Threads \ {t} : pc'[u] = pc[u] /\ loc'[u] = loc[u] /\ arg'[u] = arg[u],
           node'[loc[t].n].next = NULL,
           \A m \in NodeId : node'[m].next \in {node[m].next, loc[t].n},
           \A m \in NodeId : node'[m].key = node[m].key
    PROVE  \A u \in Threads : WalkOK(u)'
<1> DEFINE n == loc[t].n
<1>1. HInv /\ \A u \in Threads : WalkOK(u)
  BY DEF RaceInv
<1>2. \A m \in NodeId : node'[m].next = node[m].next \/ node'[m].next = n
  OBVIOUS
<1> HIDE DEF n
<1>3. WalkOK(t)'
  BY DEF WalkOK, Linking
<1>4. ASSUME NEW u \in Threads \ {t} PROVE WalkOK(u)'
  <2>1. /\ n # NULL /\ node[n].next = NULL /\ n # loc[u].prev /\ n # loc[u].curr
        /\ Linking(u) => loc[u].n \in NodeId \ {n}
    BY OwnNode DEF n
  <2>2. WalkOK(u) /\ pc'[u] = pc[u] /\ loc'[u] = loc[u] /\ arg'[u] = arg[u]
    BY <1>1
  <2>3. node'[n].next = NULL
    BY DEF n
  <2> QED BY <1>2, <2>1, <2>2, <2>3, OtherWalk
<1> QED BY <1>3, <1>4

(* ht->store[slot] = n: whatever the slot held, it now holds n alone.      *)
LEMMA LinkHeadRace ==
    ASSUME RaceInv, HInv', NEW t \in Threads, LinkHead(t) PROVE RaceInv'
<1> DEFINE n == loc[t].n
           s == loc[t].slot
           x == [loc[t] EXCEPT !.ret = 0]
<1>1. HInv /\ LocalsOK(t) /\ OneWayIn /\ NoDuplicateKeys
  BY DEF RaceInv, HInv
<1>2. /\ pc' = [pc EXCEPT ![t] = "ret"] /\ loc' = [loc EXCEPT ![t] = x] /\ arg' = arg
      /\ arrays' = [arrays EXCEPT ![1].elt[s] = n] /\ UNCHANGED <<node, size>>
      /\ Linking(t) /\ s \in Slots(size)
  <2>1. allow_resize = FALSE /\ loc[t].base = 1 /\ pc[t] = "linkhead" /\ ~BadAccess(t)
    BY <1>1 DEF HInv, OneArray, LinkHead, LocalsOK
  <2>2. s \in Slots(size)
    BY <1>1, <2>1, TheArray DEF BadAccess, BadIndex, HInv
  <2> QED BY <2>1, <2>2 DEF LinkHead, AfterLink, SetLocal, Goto, Linking
<1>3. /\ n \in NodeId /\ n # NULL /\ node[n].next = NULL /\ SlotOf(n) = s
      /\ n \notin Heads(1) /\ n \notin Entries /\ \A m \in NodeId : node[m].next # n
  BY <1>2, OwnNode
<1>4. /\ arrays[1].elt \in [Slots(size) -> Ptr] /\ DOMAIN arrays = 1..1
      /\ arrays[1] = [live |-> TRUE, elt |-> arrays[1].elt]
  BY <1>1, TheArray DEF HInv
<1> HIDE DEF n, s, x
<1>5. /\ arrays'[1].elt[s] = n
      /\ \A r \in Slots(size) \ {s} : arrays'[1].elt[r] = arrays[1].elt[r]
  <2> DEFINE e == [arrays[1].elt EXCEPT ![s] = n]
  <2>1. e[s] = n /\ \A r \in Slots(size) \ {s} : e[r] = arrays[1].elt[r]
    BY <1>2, <1>4
  <2>2. arrays'[1] = [arrays[1] EXCEPT !.elt = e]
    BY <1>2, <1>4
  <2> HIDE DEF e
  <2>3. arrays'[1].elt = e
    BY <1>4, <2>2
  <2> QED BY <2>1, <2>3
<1>6. EntriesSpec /\ EntriesSpec' /\ ReachSpec /\ ReachSpec'
  BY <1>1, TableFacts
<1>7. Heads(1)' \subseteq Heads(1) \cup {n}
  BY <1>2, <1>5, <1>6 DEF EntriesSpec
<1>8. OneWayIn'
  BY <1>1, <1>2, <1>3, <1>7 DEF OneWayIn
<1>9. Entries' \subseteq Entries \cup {n}
  <2> DEFINE S == Entries \cup {n}
  <2>1. S \in SUBSET NodeId
    BY <1>3, <1>6 DEF EntriesSpec, ReachSpec
  <2>2. Heads(1)' \ {NULL} \subseteq S
    BY <1>6, <1>7 DEF EntriesSpec, ReachSpec
  <2>3. \A m \in S : node'[m].next \in S \cup {NULL}
    BY <1>2, <1>3, <1>6 DEF EntriesSpec, ReachSpec
  <2> HIDE DEF S
  <2>4. Entries' \subseteq S
    BY <1>1, <2>1, <2>2, <2>3, EntriesWithinNext
  <2> QED BY <2>4 DEF S
<1>10. \A m \in Entries' : m # n => SlotOf(m) # s
  <2> DEFINE S == {m \in Entries' : SlotOf(m) # s} \cup {n}
  <2>1. S \in SUBSET NodeId
    BY <1>3, <1>6 DEF EntriesSpec, ReachSpec
  <2>2. Heads(1)' \ {NULL} \subseteq S
    <3> SUFFICES ASSUME NEW r \in Slots(size), arrays'[1].elt[r] # NULL
                 PROVE  arrays'[1].elt[r] \in S
      BY <1>2, <1>6 DEF EntriesSpec
    <3>1. arrays'[1].elt[r] \in Entries'
      BY <1>2, <1>6 DEF EntriesSpec, ReachSpec
    <3>2. r # s => SlotOf(arrays'[1].elt[r]) = r
      BY <1>1, <1>5 DEF HInv, HeadsInPlace
    <3> QED BY <1>5, <3>1, <3>2
  <2>3. ASSUME NEW m \in S, node'[m].next # NULL PROVE node'[m].next \in S
    <3>1. m # n /\ m \in Entries' /\ SlotOf(m) # s /\ m \in NodeId
      BY <1>2, <1>3, <2>1, <2>3
    <3>2. node'[m].next \in Entries'
      BY <1>6, <2>3, <3>1 DEF EntriesSpec, ReachSpec
    <3>3. SlotOf(node'[m].next) = SlotOf(m)
      BY <1>1, <1>2, <2>3, <3>1 DEF HInv, ListsAscend
    <3> QED BY <3>1, <3>2, <3>3
  <2> HIDE DEF S
  <2>4. Entries' \subseteq S
    BY <1>1, <2>1, <2>2, <2>3, EntriesWithinNext
  <2> QED BY <2>4 DEF S
<1>11. NoDuplicateKeys'
  <2> SUFFICES ASSUME NEW a \in Entries', NEW b \in Entries', node'[a].key = node'[b].key
               PROVE  a = b
    BY DEF NoDuplicateKeys
  <2>1. node[a].key = node[b].key /\ SlotOf(a) = SlotOf(b)
    BY <1>2 DEF SlotOf
  <2>2. CASE a = n \/ b = n
    BY <1>3, <1>10, <2>1, <2>2
  <2>3. CASE a # n /\ b # n
    BY <1>1, <1>9, <2>1, <2>3 DEF NoDuplicateKeys
  <2> QED BY <2>2, <2>3
<1>12. \A u \in Threads : WalkOK(u)'
  <2>1. /\ node'[n].next = NULL /\ \A m \in NodeId : node'[m].next = node[m].next
        /\ \A m \in NodeId : node'[m].key = node[m].key /\ n = loc[t].n
    BY <1>2, <1>3 DEF n
  <2>2. /\ pc'[t] = "ret" /\ Linking(t)
        /\ \A u \in Threads \ {t} : pc'[u] = pc[u] /\ loc'[u] = loc[u] /\ arg'[u] = arg[u]
    BY <1>1, <1>2, OwnStep
  <2> QED BY <2>1, <2>2, LinkWalks DEF n
<1> QED BY <1>8, <1>11, <1>12 DEF RaceInv

(* prev->next = n: if prev is still in its list, the list up to it has     *)
(* other keys, and the new node is all that follows.                       *)
LEMMA LinkAfterPrevRace ==
    ASSUME RaceInv, HInv', NEW t \in Threads, LinkAfterPrev(t) PROVE RaceInv'
<1> DEFINE n == loc[t].n
           p == loc[t].prev
           s == loc[t].slot
           x == [loc[t] EXCEPT !.ret = 0]
<1>1. HInv /\ LocalsOK(t) /\ OneWayIn /\ NoDuplicateKeys /\ WalkOK(t)
  BY DEF RaceInv, HInv
<1>2. /\ pc' = [pc EXCEPT ![t] = "ret"] /\ loc' = [loc EXCEPT ![t] = x] /\ arg' = arg
      /\ node' = [node EXCEPT ![p] = [@ EXCEPT !.next = n]] /\ UNCHANGED <<arrays, size>>
      /\ Linking(t) /\ pc[t] = "link"
  <2>1. allow_resize = FALSE
    BY <1>1 DEF HInv, OneArray
  <2> QED BY <2>1 DEF LinkAfterPrev, AfterLink, SetLocal, Goto, Linking
<1>3. /\ n \in NodeId /\ n # NULL /\ node[n].next = NULL /\ SlotOf(n) = s
      /\ n \notin Heads(1) /\ n \notin Entries /\ \A m \in NodeId : node[m].next # n
      /\ node[n].key = arg[t].key
  BY <1>2, OwnNode
<1>4. p \in NodeId /\ SlotOf(p) = s /\ p # n /\ p # NULL
  <2>1. p \in 1..used /\ SlotOf(p) = s /\ p < n
    BY <1>1, <1>2 DEF LocalsOK, InsertPcs
  <2>2. 1..used \subseteq NodeId
    BY <1>1, BoundAssumption DEF HInv, TypeOK, NodeId
  <2> QED BY <2>1, <2>2, NullNotNode
<1> HIDE DEF n, p, s, x
<1>5. /\ node'[p].next = n /\ \A m \in NodeId \ {p} : node'[m] = node[m]
      /\ \A m \in NodeId : node'[m].key = node[m].key
  BY <1>1, <1>2, <1>4 DEF HInv, TypeOK, Node_
<1>6. EntriesSpec /\ EntriesSpec' /\ ReachSpec /\ ReachSpec'
  BY <1>1, TableFacts
<1>7. Heads(1)' = Heads(1)
  BY <1>2 DEF Heads
<1>8. OneWayIn'
  BY <1>1, <1>3, <1>5, <1>7 DEF OneWayIn
<1>9. Entries' \subseteq Entries \cup {n} /\ Entries' \subseteq NodeId
  <2> DEFINE S == Entries \cup {n}
  <2>1. S \in SUBSET NodeId
    BY <1>3, <1>6 DEF EntriesSpec, ReachSpec
  <2>2. Heads(1)' \ {NULL} \subseteq S
    BY <1>6, <1>7 DEF EntriesSpec, ReachSpec
  <2>3. \A m \in S : node'[m].next \in S \cup {NULL}
    BY <1>3, <1>4, <1>5, <1>6, <2>1 DEF EntriesSpec, ReachSpec
  <2> HIDE DEF S
  <2>4. Entries' \subseteq S
    BY <1>1, <2>1, <2>2, <2>3, EntriesWithinNext
  <2> QED BY <2>1, <2>4 DEF S
<1>10. \A m \in NodeId : node'[m].next # NULL =>
          node'[m].next \in NodeId /\ SlotOf(node'[m].next) = SlotOf(m)
  <2>1. \A m \in NodeId : node[m].next # NULL =>
          node[m].next \in NodeId /\ SlotOf(node[m].next) = SlotOf(m)
    BY <1>1 DEF HInv, ListsAscend, TypeOK, Node_, Ptr
  <2> QED BY <1>3, <1>4, <1>5, <2>1
<1>11. \A r \in Slots(size) : arrays[1].elt[r] # NULL => SlotOf(arrays[1].elt[r]) = r
  BY <1>1 DEF HInv, HeadsInPlace
<1>12. PICK A \in SUBSET NodeId : /\ p \in A /\ Upstream(A)
                                  /\ \A m \in A : node[m].key # arg[t].key
  BY <1>1, <1>2, <1>4 DEF WalkOK, p
<1> DEFINE X == {m \in Entries' : p \in Reach({m})'}
<1>13. ASSUME NEW m \in X PROVE m \in A
  <2> DEFINE S == (NodeId \ A) \cup {n}
  <2>1. ASSUME m \notin A PROVE FALSE
    <3>1. S \in SUBSET NodeId /\ m \in S /\ p \notin S /\ m \in NodeId /\ {m} \in SUBSET Ptr
      BY <1>3, <1>4, <1>9, <1>12, <2>1 DEF Ptr
    <3>2. \A q \in S : node'[q].next \in S \cup {NULL}
      BY <1>3, <1>4, <1>5, <1>10, <1>12 DEF Upstream
    <3> HIDE DEF S
    <3>3. Reach({m})' \subseteq S
      BY <1>6, <3>1, <3>2 DEF ReachSpec
    <3> QED BY <3>1, <3>3
  <2> QED BY <2>1
<1>14. ASSUME NEW m \in X, m # p PROVE node'[m].next # NULL /\ node'[m].next \in X
  <2>1. m \in NodeId /\ m \in Entries' /\ {m} \in SUBSET Ptr /\ p \in Reach({m})'
    BY <1>9 DEF Ptr
  <2>2. ASSUME NEW S \in SUBSET NodeId, m \in S,
               \A a \in S : node'[a].next \in S \cup {NULL}
        PROVE  p \in S
    <3>1. Reach({m})' \subseteq S
      BY <1>6, <2>1, <2>2 DEF ReachSpec
    <3> QED BY <2>1, <3>1
  <2>3. ASSUME node'[m].next = NULL PROVE FALSE
    <3>1. p \in {m}
      BY <2>1, <2>2, <2>3
    <3> QED BY <1>14, <3>1
  <2>4. node'[m].next \in NodeId /\ node'[m].next \in Entries'
    BY <1>6, <1>10, <2>1, <2>3 DEF EntriesSpec, ReachSpec
  <2>5. PICK q \in NodeId : q = node'[m].next /\ {q} \in SUBSET Ptr
    BY <2>4 DEF Ptr
  <2>6. /\ q \in Reach({q})' /\ Reach({q})' \subseteq NodeId
        /\ \A b \in Reach({q})' : node'[b].next # NULL => node'[b].next \in Reach({q})'
    BY <1>6, <2>5, NullNotNode DEF ReachSpec
  <2>7. p \in {m} \cup Reach({q})'
    <3> DEFINE S == {m} \cup Reach({q})'
    <3>1. S \in SUBSET NodeId /\ m \in S
      BY <2>1, <2>6
    <3>2. \A a \in S : node'[a].next \in S \cup {NULL}
      BY <2>5, <2>6
    <3> HIDE DEF S
    <3>3. p \in S
      BY <2>2, <3>1, <3>2
    <3> QED BY <3>3 DEF S
  <2>8. q \in X
    BY <1>14, <2>4, <2>5, <2>7
  <2> HIDE DEF X
  <2> QED BY <2>3, <2>5, <2>8
<1> HIDE DEF X
<1>15. ASSUME n \in Entries' PROVE p \in Entries'
  <2>1. ASSUME p \notin Entries' PROVE FALSE
    <3> DEFINE S == Entries' \ {n}
    <3>1. S \in SUBSET NodeId /\ Heads(1)' \ {NULL} \subseteq S
      BY <1>3, <1>6, <1>7, <1>9 DEF EntriesSpec, ReachSpec
    <3>2. \A m \in S : node'[m].next \in S \cup {NULL}
      BY <1>3, <1>5, <1>6, <1>9, <2>1 DEF EntriesSpec, ReachSpec
    <3>3. Entries' \subseteq S
      <4> HIDE DEF S
      <4> QED BY <1>1, <3>1, <3>2, EntriesWithinNext
    <3> QED BY <1>15, <3>3
  <2> QED BY <2>1
<1>16. ASSUME p \in Entries', NEW r \in Slots(size), arrays[1].elt[r] # NULL, r = s
       PROVE  arrays[1].elt[r] \in X
  <2>1. arrays[1].elt[r] \in Entries' /\ arrays[1].elt[r] \in NodeId
    BY <1>2, <1>6, <1>7, <1>9, <1>16 DEF EntriesSpec, ReachSpec
  <2>2. PICK h \in NodeId : h = arrays[1].elt[r] /\ {h} \in SUBSET Ptr
    BY <2>1 DEF Ptr
  <2>3. /\ h \in Reach({h})' /\ Reach({h})' \subseteq NodeId
        /\ \A b \in Reach({h})' : node'[b].next # NULL => node'[b].next \in Reach({h})'
    BY <1>6, <2>2, NullNotNode DEF ReachSpec
  <2> DEFINE S == {m \in NodeId : SlotOf(m) # s} \cup Reach({h})'
  <2>4. S \in SUBSET NodeId
    BY <2>3
  <2>5. Heads(1)' \ {NULL} \subseteq S
    <3>0. Heads(1)' = {arrays[1].elt[a] : a \in Slots(size)}
      BY <1>6, <1>7 DEF EntriesSpec
    <3> SUFFICES ASSUME NEW a \in Slots(size), arrays[1].elt[a] # NULL
                 PROVE  arrays[1].elt[a] \in S
      <4> HIDE DEF S
      <4> QED BY <3>0
    <3>1. CASE a = s
      BY <1>16, <2>2, <2>3, <3>1
    <3>2. CASE a # s
      <4>1. arrays[1].elt[a] \in NodeId
        BY <1>6, <1>7, <1>9 DEF EntriesSpec, ReachSpec
      <4> QED BY <1>11, <3>2, <4>1
    <3> QED BY <3>1, <3>2
  <2>6. ASSUME NEW m \in S PROVE node'[m].next \in S \cup {NULL}
    <3>1. CASE SlotOf(m) # s /\ m \in NodeId
      BY <1>10, <3>1
    <3>2. CASE m \in Reach({h})'
      BY <2>3, <3>2
    <3> QED BY <2>6, <3>1, <3>2
  <2>7. Entries' \subseteq S
    <3> HIDE DEF S
    <3> QED BY <1>1, <2>4, <2>5, <2>6, EntriesWithinNext
  <2>8. p \in Reach({h})'
    BY <1>4, <1>16, <2>7
  <2>9. h \in X
    BY <2>1, <2>2, <2>8 DEF X
  <2> QED BY <2>2, <2>9
<1>17. ASSUME n \in Entries', NEW m \in Entries', m # n, SlotOf(m) = s PROVE m \in X
  <2> DEFINE S == {a \in Entries' : SlotOf(a) # s} \cup X \cup {n}
  <2>1. p \in Entries'
    BY <1>15, <1>17
  <2>2. S \in SUBSET NodeId
    BY <1>3, <1>9 DEF X
  <2>3. Heads(1)' \ {NULL} \subseteq S
    <3> SUFFICES ASSUME NEW a \in Slots(size), arrays[1].elt[a] # NULL
                 PROVE  arrays[1].elt[a] \in S
      BY <1>6, <1>7 DEF EntriesSpec
    <3>1. CASE a = s
      BY <1>16, <2>1, <3>1
    <3>2. CASE a # s
      <4>1. arrays[1].elt[a] \in Entries'
        BY <1>6, <1>7 DEF EntriesSpec, ReachSpec
      <4> QED BY <1>11, <3>2, <4>1
    <3> QED BY <3>1, <3>2
  <2>4. ASSUME NEW a \in S, node'[a].next # NULL PROVE node'[a].next \in S
    <3>1. CASE a = p
      BY <1>5, <3>1
    <3>2. CASE a = n
      BY <1>3, <1>4, <1>5, <2>4, <3>2
    <3>3. CASE a \in X /\ a # p
      BY <1>14, <3>3
    <3>4. CASE a \in Entries' /\ SlotOf(a) # s
      <4>1. node'[a].next \in Entries' /\ a \in NodeId
        BY <1>6, <1>9, <2>4, <3>4 DEF EntriesSpec, ReachSpec
      <4> QED BY <1>10, <2>4, <3>4, <4>1
    <3> QED BY <3>1, <3>2, <3>3, <3>4
  <2>5. Entries' \subseteq S
    <3> HIDE DEF S
    <3> QED BY <1>1, <2>2, <2>3, <2>4, EntriesWithinNext
  <2> QED BY <1>17, <2>5
<1>18. NoDuplicateKeys'
  <2> SUFFICES ASSUME NEW a \in Entries', NEW b \in Entries', node'[a].key = node'[b].key
               PROVE  a = b
    BY DEF NoDuplicateKeys
  <2>1. node[a].key = node[b].key /\ SlotOf(a) = SlotOf(b)
    BY <1>5, <1>9 DEF SlotOf
  <2>2. ASSUME NEW m \in Entries', n \in Entries', node[m].key = node[n].key, SlotOf(m) = s
        PROVE  m = n
    BY <1>3, <1>12, <1>13, <1>17, <2>2
  <2>3. CASE a # n /\ b # n
    BY <1>1, <1>9, <2>1, <2>3 DEF NoDuplicateKeys
  <2> QED BY <1>3, <2>1, <2>2, <2>3
<1>19. \A u \in Threads : WalkOK(u)'
  <2>1. /\ node'[n].next = NULL /\ \A m \in NodeId : node'[m].next \in {node[m].next, n}
        /\ \A m \in NodeId : node'[m].key = node[m].key
    BY <1>3, <1>4, <1>5
  <2>2. /\ pc'[t] = "ret" /\ Linking(t)
        /\ \A u \in Threads \ {t} : pc'[u] = pc[u] /\ loc'[u] = loc[u] /\ arg'[u] = arg[u]
    BY <1>1, <1>2, OwnStep
  <2> QED BY <2>1, <2>2, LinkWalks DEF n
<1> QED BY <1>8, <1>18, <1>19 DEF RaceInv
-----------------------------------------------------------------------------
LEMMA InitRace == ASSUME AllowResize = {FALSE} PROVE Init => RaceInv
<1> SUFFICES ASSUME Init PROVE RaceInv
  OBVIOUS
<1>1. HInv
  BY InitHInv
<1>2. /\ node = [n \in NodeId |-> [key |-> NULL, val |-> NULL, next |-> NULL]]
      /\ used = 0 /\ pc = [t \in Threads |-> "idle"]
  BY DEF Init, htable_init
<1>3. OneWayIn
  BY <1>2 DEF OneWayIn
<1>4. \A t \in Threads : WalkOK(t)
  BY <1>2 DEF WalkOK, Linking
<1>5. NoDuplicateKeys
  <2>1. Entries \subseteq 1..used
    BY <1>1, EntriesAre DEF EntriesSpec
  <2> QED BY <1>2, <2>1 DEF NoDuplicateKeys
<1> QED BY <1>1, <1>3, <1>4, <1>5 DEF RaceInv

LEMMA NextRace == RaceInv /\ [Next]_vars => RaceInv'
<1> SUFFICES ASSUME RaceInv, [Next]_vars PROVE RaceInv'
  OBVIOUS
<1>1. HInv /\ HInv'
  BY NextHInv DEF RaceInv
<1>2. CASE UNCHANGED vars
  <2>1. UNCHANGED <<node, arrays, pc, loc, arg>>
    BY <1>2 DEF vars, table, frames
  <2>2. OneWayIn' /\ \A t \in Threads : WalkOK(t)'
    BY <2>1 DEF RaceInv, OneWayIn, Heads, WalkOK, Upstream, Linking
  <2>3. NoDuplicateKeys'
    BY <1>1, <2>1, SameEntries DEF RaceInv, NoDuplicateKeys
  <2> QED BY <1>1, <2>2, <2>3 DEF RaceInv
<1>3. ASSUME NEW t \in Threads, CallInsert(t) \/ CallLookup(t) PROVE RaceInv'
  BY <1>1, <1>3, CallRace DEF CallInsert, CallLookup
<1>4. ASSUME NEW t \in Threads, Step(t) PROVE RaceInv'
  <2>1. InsertStep(t) \/ Return(t)
    BY <1>1, <1>4, NoBadAccess DEF Step, Fault
  <2> QED BY <1>1, <2>1, ReadSizeRace, ReadBaseRace, ReadHeadRace, EndRace, AdvanceRace,
             NewNodeRace, LinkAfterPrevRace, LinkHeadRace
          DEF InsertStep
<1> QED BY <1>2, <1>3, <1>4 DEF Next

LEMMA RaceInvariance == ASSUME AllowResize = {FALSE} PROVE Spec => []RaceInv
<1>1. Init => RaceInv
  BY InitRace
<1> QED BY <1>1, NextRace, PTL DEF Spec

(* However the inserts of any number of threads race, no key is in the     *)
(* table twice: an insert that links behind a node has seen every key that *)
(* leads to it, and one that links at the head leaves nothing behind.      *)
THEOREM NoDuplicates == ASSUME AllowResize = {FALSE} PROVE Spec => []NoDuplicateKeys
<1>1. RaceInv => NoDuplicateKeys
  BY DEF RaceInv
<1> QED BY <1>1, RaceInvariance, PTL
-----------------------------------------------------------------------------
(* Steps that write no pointer lose no key.                                *)
KeysStay == \A n \in Entries : n \in Entries' /\ node'[n].key = node[n].key

LEMMA QuietKeysStay ==
    ASSUME HInv, HInv', UNCHANGED <<node, arrays>>
    PROVE  KeysStay
BY SameEntries DEF KeysStay

LEMMA NewNodeKeysStay ==
    ASSUME HInv, HInv', NEW t \in Threads, NewNode(t)
    PROVE  KeysStay
<1> DEFINE n == used + 1
           rec == [key |-> arg[t].key, val |-> arg[t].val, next |-> NULL]
<1>1. EntriesSpec /\ EntriesSpec' /\ ReachSpec /\ ReachSpec'
  BY TableFacts
<1>2. used \in Nat /\ n \in NodeId /\ n \notin 1..used
  BY BoundAssumption DEF NewNode, HInv, TypeOK, NodeId
<1>3. node' = [node EXCEPT ![n] = rec] /\ arrays' = arrays
  BY DEF NewNode
<1>4. /\ \A m \in NodeId \ {n} : node'[m] = node[m]
      /\ node[n].next = NULL
  BY <1>2, <1>3 DEF HInv, TypeOK, ListsAscend
<1> HIDE DEF n
<1>5. Heads(1)' = Heads(1)
  BY <1>3 DEF Heads
<1> DEFINE S == Entries' \cup {n}
<1>6. S \in SUBSET NodeId /\ Heads(1) \ {NULL} \subseteq S
  BY <1>1, <1>2, <1>5 DEF EntriesSpec, ReachSpec
<1>7. \A m \in S : node[m].next \in S \cup {NULL}
  BY <1>1, <1>4, <1>6 DEF EntriesSpec, ReachSpec
<1>8. Entries \subseteq S
  <2> HIDE DEF S
  <2> QED BY <1>6, <1>7, EntriesWithin
<1>9. n \notin Entries
  BY <1>1, <1>2 DEF EntriesSpec
<1>10. \A m \in Entries : m \in Entries' /\ node'[m] = node[m]
  BY <1>4, <1>6, <1>8, <1>9
<1> QED BY <1>10 DEF KeysStay

(* A link written over none loses no key, and a link written over one      *)
(* loses only keys of its slot.                                            *)
LEMMA LinkLosesItsSlot ==
    ASSUME HInv, HInv', NEW t \in Threads, LinkHead(t) \/ LinkAfterPrev(t),
           NEW n \in Entries,
           Overwritten(t) = NULL \/ SlotOf(n) # loc[t].slot
    PROVE  n \in Entries' /\ node'[n].key = node[n].key
<1> DEFINE s == loc[t].slot
<1>1. EntriesSpec /\ EntriesSpec' /\ ReachSpec /\ ReachSpec' /\ LocalsOK(t)
  BY TableFacts DEF HInv
<1>2. /\ Entries \subseteq NodeId /\ Entries' \subseteq NodeId
      /\ Heads(1) = {arrays[1].elt[r] : r \in Slots(size)}
      /\ Heads(1)' = {arrays'[1].elt[r] : r \in Slots(size')}
      /\ Heads(1) \ {NULL} \subseteq Entries /\ Heads(1)' \ {NULL} \subseteq Entries'
      /\ \A m \in Entries' : node'[m].next # NULL => node'[m].next \in Entries'
      /\ \A m \in Entries : node[m].next # NULL => node[m].next \in Entries
  BY <1>1 DEF EntriesSpec, ReachSpec
<1>3. /\ \A m \in NodeId : node[m].next # NULL =>
           node[m].next \in NodeId /\ SlotOf(node[m].next) = SlotOf(m)
      /\ \A r \in Slots(size) : arrays[1].elt[r] # NULL => SlotOf(arrays[1].elt[r]) = r
  BY DEF HInv, ListsAscend, HeadsInPlace, TypeOK, Node_, Ptr
(* The one pointer the step writes, if its slot's list used it.            *)
<1>4. /\ size' = size
      /\ \A m \in NodeId : node'[m].key = node[m].key
      /\ \A m \in NodeId :
           node[m].next # NULL /\ (Overwritten(t) = NULL \/ SlotOf(m) # s)
             => node'[m].next = node[m].next
      /\ \A r \in Slots(size) :
           arrays[1].elt[r] # NULL /\ (Overwritten(t) = NULL \/ r # s)
             => arrays'[1].elt[r] = arrays[1].elt[r]
  <2>1. CASE LinkAfterPrev(t)
    <3> DEFINE p == loc[t].prev
    <3>1. pc[t] = "link" /\ p \in NodeId /\ SlotOf(p) = s /\ Overwritten(t) = node[p].next
      <4>1. pc[t] = "link"
        BY <2>1 DEF LinkAfterPrev
      <4>2. p \in 1..used /\ SlotOf(p) = s
        BY <1>1, <4>1 DEF LocalsOK, InsertPcs
      <4>3. 1..used \subseteq NodeId
        BY BoundAssumption DEF HInv, TypeOK, NodeId
      <4> QED BY <4>1, <4>2, <4>3 DEF Overwritten
    <3>2. /\ node' = [node EXCEPT ![p] = [@ EXCEPT !.next = loc[t].n]]
          /\ UNCHANGED <<arrays, size>>
      BY <2>1 DEF LinkAfterPrev
    <3> HIDE DEF p, s
    <3>3. /\ \A m \in NodeId \ {p} : node'[m] = node[m]
          /\ \A m \in NodeId : node'[m].key = node[m].key
      BY <3>1, <3>2 DEF HInv, TypeOK, Node_
    <3> QED BY <3>1, <3>2, <3>3
  <2>2. CASE LinkHead(t)
    <3>1. /\ pc[t] = "linkhead" /\ loc[t].base = 1 /\ UNCHANGED <<node, size>>
          /\ arrays' = [arrays EXCEPT ![1].elt[s] = loc[t].n]
          /\ Overwritten(t) = arrays[1].elt[s]
      BY <1>1, <2>2 DEF LinkHead, LocalsOK, Overwritten
    <3>2. /\ arrays[1].elt \in [Slots(size) -> Ptr] /\ DOMAIN arrays = 1..1
          /\ arrays[1] = [live |-> TRUE, elt |-> arrays[1].elt]
      BY TheArray DEF HInv
    <3> DEFINE v == loc[t].n
               e == [arrays[1].elt EXCEPT ![s] = v]
    <3> HIDE DEF s, v
    <3>3. \A r \in Slots(size) \ {s} : e[r] = arrays[1].elt[r]
      BY <3>2
    <3>4. arrays'[1] = [arrays[1] EXCEPT !.elt = e]
      BY <3>1, <3>2 DEF v
    <3> HIDE DEF e
    <3>5. arrays'[1].elt = e
      BY <3>2, <3>4
    <3> QED BY <3>1, <3>3, <3>5
  <2> QED BY <2>1, <2>2
<1> DEFINE S == Entries' \cup
                {m \in NodeId : SlotOf(m) = s /\ Overwritten(t) # NULL}
<1> HIDE DEF s
<1>5. S \in SUBSET NodeId
  BY <1>2
<1>6. Heads(1) \ {NULL} \subseteq S
  <2> SUFFICES ASSUME NEW r \in Slots(size), arrays[1].elt[r] # NULL
               PROVE  arrays[1].elt[r] \in S
    BY <1>2
  <2>1. CASE Overwritten(t) # NULL /\ r = s
    BY <1>2, <1>3, <2>1
  <2>2. CASE Overwritten(t) = NULL \/ r # s
    BY <1>2, <1>4, <2>2
  <2> QED BY <2>1, <2>2
<1>7. ASSUME NEW m \in S, node[m].next # NULL PROVE node[m].next \in S
  <2>1. CASE Overwritten(t) # NULL /\ SlotOf(m) = s
    BY <1>3, <1>5, <1>7, <2>1
  <2>2. CASE Overwritten(t) = NULL \/ SlotOf(m) # s
    <3>1. node'[m].next = node[m].next /\ m \in Entries'
      BY <1>4, <1>5, <1>7, <2>2
    <3> QED BY <1>2, <1>7, <3>1
  <2> QED BY <2>1, <2>2
<1>8. Entries \subseteq S
  <2> HIDE DEF S
  <2> QED BY <1>5, <1>6, <1>7, EntriesWithin
<1>9. n \in NodeId /\ n \in Entries'
  BY <1>2, <1>8 DEF s
<1> QED BY <1>4, <1>9

(* A key that leaves the table leaves it by a link written over one that   *)
(* another thread had linked since: the race testhash.c sets out to show   *)
(* loses entries of one chain, and nothing else ever does.                 *)
THEOREM OnlyStaleLinks == ASSUME AllowResize = {FALSE} PROVE Spec => OnlyStaleLinkLoses
<1> DEFINE Loses == \A k \in Present \ Present' :
         \E t \in Threads :
            /\ pc[t] \in {"link", "linkhead"} /\ pc'[t] # pc[t]
            /\ Overwritten(t) # NULL
            /\ hashcode[k] % size = loc[t].slot
<1>1. HInv /\ HInv' /\ [Next]_vars => [Loses]_vars
  <2> SUFFICES ASSUME HInv, HInv', [Next]_vars,
                      NEW n \in Entries, node[n].key \notin Present'
               PROVE  \E t \in Threads :
                         /\ pc[t] \in {"link", "linkhead"} /\ pc'[t] # pc[t]
                         /\ Overwritten(t) # NULL
                         /\ hashcode[node[n].key] % size = loc[t].slot
    BY DEF Present
  <2>1. ~(n \in Entries' /\ node'[n].key = node[n].key)
    BY DEF Present
  <2>2. ~KeysStay
    BY <2>1 DEF KeysStay
  <2>3. ~UNCHANGED <<node, arrays>>
    BY <2>2, QuietKeysStay
  <2>4. PICK t \in Threads : CallInsert(t) \/ CallLookup(t) \/ Step(t)
    BY <2>3 DEF Next, vars, table
  <2>5. InsertStep(t)
    <3>1. ~CallInsert(t) /\ ~CallLookup(t) /\ ~Return(t)
      BY <2>3 DEF CallInsert, CallLookup, Call, Return, table
    <3> QED BY <2>4, <3>1, NoBadAccess DEF Step, Fault
  <2>6. LinkHead(t) \/ LinkAfterPrev(t)
    BY <2>2, <2>3, <2>5, NewNodeKeysStay
       DEF InsertStep, ReadSize, ReadBase, ReadHead, Found, Advance, LookupMiss,
           ReadBaseToLink, table
  <2>7. Overwritten(t) # NULL /\ SlotOf(n) = loc[t].slot
    BY <2>1, <2>6, LinkLosesItsSlot
  <2>8. pc[t] \in {"link", "linkhead"} /\ pc'[t] # pc[t]
    BY <2>6 DEF LinkHead, LinkAfterPrev, AfterLink, Goto, HInv, TypeOK, OneArray
  <2> QED BY <2>7, <2>8 DEF SlotOf
<1> QED BY <1>1, Invariance, PTL DEF Spec, OnlyStaleLinkLoses
-----------------------------------------------------------------------------
(* The types, and what a step leaves of them.                                 *)
Links(f) == \A m \in NodeId : f[m].next \in Ptr

ArraysTyped(q) ==
    \A a \in DOMAIN q : /\ q[a].live \in BOOLEAN
                        /\ \A s \in DOMAIN q[a].elt : q[a].elt[s] \in Ptr

(* Thread t goes to l, with the locals x and r and the call c.             *)
Goes(t, l, x, r, c) ==
    /\ l \in Pcs /\ x \in Local_ /\ r \in Resize_ /\ c \in Call_
    /\ pc' = [pc EXCEPT ![t] = l] /\ loc' = [loc EXCEPT ![t] = x]
    /\ rsz' = [rsz EXCEPT ![t] = r] /\ arg' = [arg EXCEPT ![t] = c]

LEMMA TypeStep ==
    ASSUME TypeOK, NEW t \in Threads, NEW l, NEW x, NEW r, NEW c, Goes(t, l, x, r, c),
           size' \in Nat \ {0}, allow_resize' = allow_resize, store' \in DOMAIN arrays',
           ArraysTyped(arrays'), node' \in [NodeId -> Node_], used' \in 0..MaxNodes,
           calls' \in [Threads -> 0..MaxCalls], fault' \in BOOLEAN
    PROVE  /\ TypeOK' /\ pc'[t] = l /\ loc'[t] = x /\ rsz'[t] = r /\ arg'[t] = c
<1>1. /\ pc \in [Threads -> Pcs] /\ loc \in [Threads -> Local_]
      /\ rsz \in [Threads -> Resize_] /\ arg \in [Threads -> Call_]
      /\ allow_resize' \in BOOLEAN
  BY DEF TypeOK
<1>2. pc' \in [Threads -> Pcs] /\ pc'[t] = l
  BY <1>1 DEF Goes
<1>3. loc' \in [Threads -> Local_] /\ loc'[t] = x
  BY <1>1 DEF Goes
<1>4. rsz' \in [Threads -> Resize_] /\ rsz'[t] = r
  BY <1>1 DEF Goes
<1>5. arg' \in [Threads -> Call_] /\ arg'[t] = c
  BY <1>1 DEF Goes
<1>6. \A a \in DOMAIN arrays' : /\ arrays'[a].live \in BOOLEAN
                                /\ \A s \in DOMAIN arrays'[a].elt : arrays'[a].elt[s] \in Ptr
  BY DEF ArraysTyped
<1> QED BY <1>1, <1>2, <1>3, <1>4, <1>5, <1>6 DEF TypeOK

(* What the types say of the thread.                                       *)
LEMMA TypeFacts ==
    ASSUME TypeOK, NEW t \in Threads
    PROVE  /\ Links(node) /\ used \in Nat /\ 1..used \subseteq NodeId
           /\ size \in Nat \ {0} /\ NULL \notin NodeId
           /\ pc[t] \in Pcs /\ loc[t] \in Local_ /\ rsz[t] \in Resize_ /\ arg[t] \in Call_
           /\ loc = [loc EXCEPT ![t] = loc[t]] /\ rsz = [rsz EXCEPT ![t] = rsz[t]]
           /\ arg = [arg EXCEPT ![t] = arg[t]] /\ pc = [pc EXCEPT ![t] = pc[t]]
           /\ ArraysTyped(arrays)
<1>1. node \in [NodeId -> Node_] /\ used \in 0..MaxNodes /\ MaxNodes \in Nat
  BY BoundAssumption DEF TypeOK
<1>2. Links(node)
  BY <1>1 DEF Links, Node_
<1>3. used \in Nat /\ 1..used \subseteq NodeId
  BY <1>1 DEF NodeId
<1>4. ArraysTyped(arrays)
  BY DEF TypeOK, ArraysTyped
<1>5. /\ pc \in [Threads -> Pcs] /\ loc \in [Threads -> Local_]
      /\ rsz \in [Threads -> Resize_] /\ arg \in [Threads -> Call_]
  BY DEF TypeOK
<1>6. pc[t] \in Pcs /\ pc = [pc EXCEPT ![t] = pc[t]]
  BY <1>5
<1>7. loc[t] \in Local_ /\ loc = [loc EXCEPT ![t] = loc[t]]
  BY <1>5
<1>8. rsz[t] \in Resize_ /\ rsz = [rsz EXCEPT ![t] = rsz[t]]
  BY <1>5
<1>9. arg[t] \in Call_ /\ arg = [arg EXCEPT ![t] = arg[t]]
  BY <1>5
<1>10. size \in Nat \ {0}
  BY DEF TypeOK
<1> QED BY <1>2, <1>3, <1>4, <1>6, <1>7, <1>8, <1>9, <1>10, NullNotNode

LEMMA ArrayNumbers ==
    ASSUME ExchangeInv
    PROVE  /\ Len(arrays) \in Nat /\ DOMAIN arrays = 1..Len(arrays) /\ store \in DOMAIN arrays
           /\ store \in Nat
<1> DEFINE Q == {arrays[b] : b \in DOMAIN arrays}
<1>1. arrays \in Seq(Q) /\ store \in DOMAIN arrays
  BY DEF ExchangeInv, ArraysOwned, Shapes, IsSeq
<1> HIDE DEF Q
<1> QED BY <1>1

(* A slot of an array is written.                                          *)
Put(q, a, s, v) == [q EXCEPT ![a].elt[s] = v]
PutIn(e, s, v) == [e EXCEPT ![s] = v]

LEMMA SlotTyped ==
    ASSUME Shapes, ArraysTyped(arrays), NEW a \in DOMAIN arrays, NEW s, NEW v \in Ptr,
           arrays' = Put(arrays, a, s, v)
    PROVE  /\ ArraysTyped(arrays') /\ DOMAIN arrays' = DOMAIN arrays
           /\ arrays'[a].elt = PutIn(arrays[a].elt, s, v)
           /\ \A b \in DOMAIN arrays : arrays'[b].live = arrays[b].live
           /\ \A b \in DOMAIN arrays \ {a} : arrays'[b] = arrays[b]
<1> DEFINE e == [arrays[a].elt EXCEPT ![s] = v]
           y == [arrays[a] EXCEPT !.elt = e]
<1>1. /\ DOMAIN arrays' = DOMAIN arrays
      /\ \A b \in DOMAIN arrays : arrays'[b].live = arrays[b].live
  BY SlotWritten DEF Put
<1>2. arrays' = [arrays EXCEPT ![a] = y]
  BY DEF Put
<1>3. y.elt = e
  <2>1. arrays[a] = [live |-> arrays[a].live, elt |-> arrays[a].elt]
    BY DEF Shapes
  <2> HIDE DEF e
  <2> QED BY <2>1
<1>4. \A z \in DOMAIN e : e[z] \in Ptr
  BY DEF ArraysTyped
<1> HIDE DEF y
<1>5. arrays'[a].elt = e /\ \A b \in DOMAIN arrays \ {a} : arrays'[b] = arrays[b]
  BY <1>2, <1>3
<1>6. e = PutIn(arrays[a].elt, s, v)
  BY DEF PutIn
<1> HIDE DEF e
<1>7. ArraysTyped(arrays')
  BY <1>1, <1>4, <1>5 DEF ArraysTyped
<1> QED BY <1>1, <1>5, <1>6, <1>7
-----------------------------------------------------------------------------
(* Pointers, of any number of threads and any number of resizes at once.   *)
InLink(l) == l \in {"link", "linkbase", "linkhead"}
InResize(l) == l \in ResizePcs \ {"r_new"}

(* PlaceOK, of a place l, the locals x and r, and a call c.                *)
PlaceAt(l, x, r, c) ==
    /\ l \in InsertPcs => c.key \in Keys
    /\ l \in {"head", "linkhead"} => x.base \in DOMAIN arrays'
    /\ l = "link" => x.prev # NULL
    /\ InLink(l) => x.n \in 1..used'
    /\ l = "r_head" => r.base \in DOMAIN arrays'
    /\ l = "r_move" => r.n # NULL
    /\ InResize(l) =>
         /\ r.new_size \in Nat \ {0}
         /\ DOMAIN arrays'[r.new_store].elt = Slots(r.new_size)

(* The nodes that are or were linked stay so.                              *)
LEMMA KnownGrows ==
    ASSUME PointerInv, NEW t \in Threads, NEW l, NEW x, NEW r, NEW c, Goes(t, l, x, r, c),
           used' \in Nat, used' >= used,
           InLink(l) => (Linking(t) /\ x.n = loc[t].n) \/ x.n \in 1..used' \ 1..used
    PROVE  Known \subseteq Known'
<1>1. /\ pc \in [Threads -> Pcs] /\ loc \in [Threads -> Local_] /\ used \in Nat
  BY TypeFacts DEF PointerInv, TypeOK
<1>2. 1..used \subseteq 1..used'
  BY <1>1
<1>3. SUFFICES ASSUME NEW z \in Known, z \in Unlinked' PROVE FALSE
  BY <1>2 DEF Known
<1>4. PICK u \in Threads : Linking(u)' /\ loc'[u].n = z
  BY <1>3 DEF Unlinked
<1>5. CASE u # t
  <2>1. pc'[u] = pc[u] /\ loc'[u] = loc[u]
    BY <1>1, <1>5 DEF Goes
  <2> QED BY <1>3, <1>4, <2>1 DEF Known, Unlinked, Linking
<1>6. CASE u = t
  <2>1. pc'[t] = l /\ loc'[t] = x
    BY <1>1 DEF Goes
  <2>2. InLink(l) /\ x.n = z
    BY <1>4, <1>6, <2>1 DEF Linking, InLink
  <2>3. z # NULL
    <3>1. PlaceOK(t)
      BY DEF PointerInv
    <3>2. CASE Linking(t) /\ x.n = loc[t].n
      BY <3>1, <3>2, <2>2, <1>1, NullAssumption DEF PlaceOK
    <3>3. CASE x.n \in 1..used' \ 1..used
      BY <3>3, <2>2, NullAssumption
    <3> QED BY <3>2, <3>3, <2>2
  <2>4. z \in 1..used
    BY <1>3, <2>3 DEF Known
  <2>5. Linking(t) /\ x.n = loc[t].n
    BY <2>2, <2>4
  <2> QED BY <2>2, <2>5, <1>3 DEF Known, Unlinked
<1> QED BY <1>5, <1>6

(* A node that has been linked is known.                                   *)
LEMMA LinkedIsKnown ==
    ASSUME PointerInv, NEW t \in Threads, NEW l, NEW x, NEW r, NEW c, Goes(t, l, x, r, c),
           used' = used, ~InLink(l), Linking(t)
    PROVE  loc[t].n \in Known'
<1>1. /\ pc \in [Threads -> Pcs] /\ loc \in [Threads -> Local_]
      /\ loc[t].n \in 1..used
  <2>1. PlaceOK(t) /\ TypeOK
    BY DEF PointerInv
  <2> QED BY <2>1 DEF PlaceOK, TypeOK
<1>2. ASSUME NEW u \in Threads, Linking(u)' PROVE loc'[u].n # loc[t].n
  <2>1. pc'[t] = l
    BY <1>1 DEF Goes
  <2>2. u # t
    BY <2>1, <1>2 DEF Linking, InLink
  <2>3. pc'[u] = pc[u] /\ loc'[u] = loc[u]
    BY <1>1, <2>2 DEF Goes
  <2>4. Linking(u)
    BY <1>2, <2>3 DEF Linking
  <2> QED BY <2>2, <2>3, <2>4 DEF PointerInv
<1>3. loc[t].n \notin Unlinked'
  BY <1>2 DEF Unlinked
<1> QED BY <1>1, <1>3 DEF Known

(* A step keeps PointerInv that leaves the arrays their lengths and the    *)
(* nodes their keys, and whose pointers are to known nodes.                *)
LEMMA PointerStep ==
    ASSUME PointerInv, ExchangeInv, NEW t \in Threads, NEW l, NEW x, NEW r, NEW c,
           Goes(t, l, x, r, c), TypeOK', PlaceAt(l, x, r, c),
           DOMAIN arrays \subseteq DOMAIN arrays',
           \A a \in DOMAIN arrays : DOMAIN arrays'[a].elt = DOMAIN arrays[a].elt,
           used' >= used,
           \A m \in 1..used : node'[m].key = node[m].key,
           \A m \in 1..used' \ 1..used : node'[m].key \in Keys,
           InLink(l) => (Linking(t) /\ x.n = loc[t].n) \/ x.n \in 1..used' \ 1..used,
           Known \subseteq Known' =>
             /\ \A a \in DOMAIN arrays' : \A s \in DOMAIN arrays'[a].elt :
                   arrays'[a].elt[s] \in Known'
             /\ \A m \in NodeId : node'[m].next \in Known'
             /\ {x.prev, x.curr, r.curr, r.n} \subseteq Known'
    PROVE  PointerInv'
<1>1. /\ pc \in [Threads -> Pcs] /\ loc \in [Threads -> Local_] /\ used \in Nat
      /\ rsz \in [Threads -> Resize_] /\ arg \in [Threads -> Call_] /\ used' \in Nat
  BY BoundAssumption DEF PointerInv, TypeOK
<1>2. pc'[t] = l /\ loc'[t] = x /\ rsz'[t] = r /\ arg'[t] = c
  BY <1>1 DEF Goes
<1>3. ASSUME NEW u \in Threads \ {t}
      PROVE  pc'[u] = pc[u] /\ loc'[u] = loc[u] /\ rsz'[u] = rsz[u] /\ arg'[u] = arg[u]
  BY <1>1 DEF Goes
<1>4. Known \subseteq Known'
  BY <1>1, KnownGrows
<1>5. (\A m \in 1..used : node[m].key \in Keys)'
  <2>1. \A m \in 1..used : node[m].key \in Keys
    BY DEF PointerInv
  <2> QED BY <2>1
<1>6. PointersKnown'
  <2>1. ASSUME NEW u \in Threads
        PROVE  {loc'[u].prev, loc'[u].curr, rsz'[u].curr, rsz'[u].n} \subseteq Known'
    <3>1. CASE u = t
      BY <1>2, <1>4, <3>1
    <3>2. CASE u # t
      <4>1. {loc[u].prev, loc[u].curr, rsz[u].curr, rsz[u].n} \subseteq Known
        BY DEF PointerInv, PointersKnown
      <4> QED BY <4>1, <1>3, <1>4, <3>2
    <3> QED BY <3>1, <3>2
  <2> QED BY <2>1, <1>4 DEF PointersKnown
<1>7. ASSUME NEW u \in Threads PROVE PlaceOK(u)'
  <2>1. CASE u = t
    BY <1>2, <2>1 DEF PlaceOK, PlaceAt, Linking, InLink, Resizing, Moving, Swapping,
       InResize, ResizePcs
  <2>2. CASE u # t
    <3>1. PlaceOK(u)
      BY DEF PointerInv
    <3>2. pc'[u] = pc[u] /\ loc'[u] = loc[u] /\ rsz'[u] = rsz[u] /\ arg'[u] = arg[u]
      BY <1>3, <2>2
    <3>3. Resizing(u) => rsz[u].new_store \in DOMAIN arrays
      BY DEF ExchangeInv, ArraysOwned, FillsItsOwn
    <3>4. 1..used \subseteq 1..used'
      BY <1>1
    <3>5. (Resizing(u))' => Resizing(u)
      BY <3>2 DEF Resizing, Moving, Swapping
    <3>6. (Linking(u))' => Linking(u)
      BY <3>2 DEF Linking
    <3>7. (Resizing(u))' =>
             /\ rsz'[u].new_size \in Nat \ {0}
             /\ DOMAIN arrays'[rsz'[u].new_store].elt = Slots(rsz'[u].new_size)
      BY <3>1, <3>2, <3>3, <3>5 DEF PlaceOK
    <3>8. (Linking(u))' => loc'[u].n \in 1..used'
      BY <3>1, <3>2, <3>4, <3>6 DEF PlaceOK
    <3>9. /\ pc'[u] \in InsertPcs => arg'[u].key \in Keys
          /\ pc'[u] \in {"head", "linkhead"} => loc'[u].base \in DOMAIN arrays'
          /\ pc'[u] = "link" => loc'[u].prev # NULL
          /\ pc'[u] = "r_head" => rsz'[u].base \in DOMAIN arrays'
          /\ pc'[u] = "r_move" => rsz'[u].n # NULL
      BY <3>1, <3>2 DEF PlaceOK
    <3> QED BY <3>7, <3>8, <3>9 DEF PlaceOK, Slots
  <2> QED BY <2>1, <2>2
<1>8. ASSUME NEW u \in Threads, NEW v \in Threads, (Linking(u))', (Linking(v))',
             loc'[u].n = loc'[v].n
      PROVE  u = v
  <2>1. ASSUME NEW w \in Threads, w # t, (Linking(w))'
        PROVE  Linking(w) /\ loc[w].n \in 1..used /\ loc'[w].n = loc[w].n
    <3>1. Linking(w) /\ loc'[w].n = loc[w].n
      BY <1>3, <2>1 DEF Linking
    <3>2. PlaceOK(w)
      BY DEF PointerInv
    <3> QED BY <3>1, <3>2 DEF PlaceOK
  <2>2. ASSUME (Linking(t))'
        PROVE  (Linking(t) /\ loc'[t].n = loc[t].n) \/ loc'[t].n \notin 1..used
    BY <1>2, <2>2 DEF Linking, InLink
  <2>3. \A y, z \in Threads : Linking(y) /\ Linking(z) /\ loc[y].n = loc[z].n => y = z
    BY DEF PointerInv
  <2>4. CASE u # t /\ v # t
    BY <2>1, <2>3, <2>4, <1>8
  <2>5. CASE u = t /\ v # t
    BY <2>1, <2>2, <2>3, <2>5, <1>8
  <2>6. CASE u # t /\ v = t
    BY <2>1, <2>2, <2>3, <2>6, <1>8
  <2> QED BY <2>4, <2>5, <2>6
<1> QED BY <1>5, <1>6, <1>7, <1>8 DEF PointerInv
-----------------------------------------------------------------------------
(* Steps that write neither a node nor an array.                           *)
LEMMA QuietPointer ==
    ASSUME PointerInv, ExchangeInv, NEW t \in Threads, NEW l, NEW x, NEW r, NEW c,
           Goes(t, l, x, r, c), UNCHANGED <<allow_resize, arrays, node, used>>,
           size' \in Nat \ {0}, store' \in DOMAIN arrays,
           calls' \in [Threads -> 0..MaxCalls], fault' \in BOOLEAN,
           PlaceAt(l, x, r, c),
           InLink(l) => Linking(t) /\ x.n = loc[t].n,
           {x.prev, x.curr, r.curr, r.n} \subseteq Known
    PROVE  PointerInv'
<1>1. TypeOK /\ ArraysTyped(arrays) /\ used \in Nat /\ PointersKnown
  BY TypeFacts DEF PointerInv
<1>2. node' \in [NodeId -> Node_] /\ used' \in 0..MaxNodes
  BY <1>1 DEF TypeOK
<1>3. TypeOK'
  BY <1>1, <1>2, TypeStep
<1>4. /\ DOMAIN arrays \subseteq DOMAIN arrays'
      /\ \A a \in DOMAIN arrays : DOMAIN arrays'[a].elt = DOMAIN arrays[a].elt
      /\ used' >= used
      /\ \A m \in 1..used : node'[m].key = node[m].key
      /\ \A m \in 1..used' \ 1..used : node'[m].key \in Keys
  BY <1>1
<1>5. Known \subseteq Known' =>
         /\ \A a \in DOMAIN arrays' : \A s \in DOMAIN arrays'[a].elt : arrays'[a].elt[s] \in Known'
         /\ \A m \in NodeId : node'[m].next \in Known'
         /\ {x.prev, x.curr, r.curr, r.n} \subseteq Known'
  BY <1>1 DEF PointersKnown
<1> QED BY <1>3, <1>4, <1>5, PointerStep

(* What is known of a thread before its step.                              *)
LEMMA Before ==
    ASSUME PointerInv, ExchangeInv, NEW t \in Threads
    PROVE  /\ TypeOK /\ PlaceOK(t) /\ NULL \in Known /\ NULL \notin NodeId
           /\ {loc[t].prev, loc[t].curr, rsz[t].curr, rsz[t].n} \subseteq Known
           /\ Known \ {NULL} \subseteq 1..used /\ 1..used \subseteq NodeId
           /\ Known \subseteq Ptr /\ used \in Nat
           /\ \A m \in 1..used : node[m].key \in Keys /\ node[m].next \in Known
           /\ \A a \in DOMAIN arrays : \A s \in DOMAIN arrays[a].elt : arrays[a].elt[s] \in Known
           /\ size \in Nat \ {0} /\ store \in DOMAIN arrays
           /\ calls \in [Threads -> 0..MaxCalls] /\ fault \in BOOLEAN
           /\ pc[t] \in Pcs /\ loc[t] \in Local_ /\ rsz[t] \in Resize_ /\ arg[t] \in Call_
           /\ loc = [loc EXCEPT ![t] = loc[t]] /\ rsz = [rsz EXCEPT ![t] = rsz[t]]
           /\ arg = [arg EXCEPT ![t] = arg[t]] /\ pc = [pc EXCEPT ![t] = pc[t]]
<1>1. TypeOK /\ PlaceOK(t) /\ PointersKnown /\ \A m \in 1..used : node[m].key \in Keys
  BY DEF PointerInv
<1>2. /\ used \in Nat /\ 1..used \subseteq NodeId /\ size \in Nat \ {0} /\ NULL \notin NodeId
      /\ pc[t] \in Pcs /\ loc[t] \in Local_ /\ rsz[t] \in Resize_ /\ arg[t] \in Call_
      /\ loc = [loc EXCEPT ![t] = loc[t]] /\ rsz = [rsz EXCEPT ![t] = rsz[t]]
      /\ arg = [arg EXCEPT ![t] = arg[t]] /\ pc = [pc EXCEPT ![t] = pc[t]]
  BY <1>1, TypeFacts
<1>3. /\ calls \in [Threads -> 0..MaxCalls] /\ fault \in BOOLEAN /\ store \in DOMAIN arrays
  BY <1>1 DEF TypeOK
<1>4. NULL \notin Unlinked
  <2>1. ASSUME NEW u \in Threads, Linking(u) PROVE loc[u].n # NULL
    <3>1. PlaceOK(u)
      BY DEF PointerInv
    <3> QED BY <3>1, <2>1, <1>2 DEF PlaceOK
  <2> QED BY <2>1 DEF Unlinked
<1>5. /\ NULL \in Known /\ Known \ {NULL} \subseteq 1..used /\ Known \subseteq Ptr
  BY <1>2, <1>4 DEF Known, Ptr
<1>6. /\ {loc[t].prev, loc[t].curr, rsz[t].curr, rsz[t].n} \subseteq Known
      /\ \A m \in 1..used : node[m].next \in Known
      /\ \A a \in DOMAIN arrays : \A s \in DOMAIN arrays[a].elt : arrays[a].elt[s] \in Known
  BY <1>1, <1>2 DEF PointersKnown
<1> QED BY <1>1, <1>2, <1>3, <1>5, <1>6

LEMMA CallPointer ==
    ASSUME PointerInv, ExchangeInv, NEW t \in Threads, NEW op \in {"insert", "lookup"},
           NEW k \in Keys, NEW v \in Vals \cup {NULL}, Call(t, op, k, v)
    PROVE  PointerInv'
<1> DEFINE c == [op |-> op, key |-> k, val |-> v]
<1>1. /\ pc[t] = "idle" /\ arg' = [arg EXCEPT ![t] = c] /\ loc' = [loc EXCEPT ![t] = NoLocal]
      /\ calls' = [calls EXCEPT ![t] = @ + 1] /\ calls[t] < MaxCalls
      /\ pc' = [pc EXCEPT ![t] = "size"]
      /\ UNCHANGED <<size, allow_resize, store, arrays, node, used, rsz, fault>>
  BY DEF Call, SetLocal, Goto, table
<1>2. calls' \in [Threads -> 0..MaxCalls]
  BY <1>1, Before, BoundAssumption
<1>3. c \in Call_ /\ c.key = k
  BY DEF Call_
<1>4. NoLocal \in Local_ /\ NoLocal.prev = NULL /\ NoLocal.curr = NULL
  BY DEF NoLocal, Local_, Ptr
<1> HIDE DEF c
<1>5. Goes(t, "size", NoLocal, rsz[t], c)
  BY <1>1, <1>3, <1>4, Before DEF Goes, Pcs, InsertPcs
<1>6. PlaceAt("size", NoLocal, rsz[t], c) /\ ~InLink("size")
  BY <1>3 DEF PlaceAt, InLink, InResize, ResizePcs
<1> QED BY <1>1, <1>2, <1>4, <1>5, <1>6, Before, QuietPointer

(* A step of htable_insert or htable_lookup that changes only its locals.  *)
LEMMA LocalPointer ==
    ASSUME PointerInv, ExchangeInv, NEW t \in Threads, NEW l, NEW x,
           pc' = [pc EXCEPT ![t] = l], loc' = [loc EXCEPT ![t] = x],
           UNCHANGED <<table, arg, rsz, calls, fault>>,
           pc[t] \in InsertPcs \cup {"ret"}, l \in InsertPcs \cup {"idle", "ret"},
           l \in InsertPcs => pc[t] \in InsertPcs,
           x \in Local_, {x.prev, x.curr} \subseteq Known,
           l \in {"head", "linkhead"} => x.base \in DOMAIN arrays,
           l # "link", InLink(l) => Linking(t) /\ x.n = loc[t].n
    PROVE  PointerInv'
<1>1. UNCHANGED <<size, allow_resize, store, arrays, node, used, arg, rsz, calls, fault>>
  BY DEF table
<1>2. Goes(t, l, x, rsz[t], arg[t])
  BY <1>1, Before DEF Goes, Pcs
<1>3. l \notin ResizePcs /\ l \notin {"r_head", "r_move"}
  BY DEF InsertPcs, ResizePcs
<1>4. InLink(l) => x.n \in 1..used
  BY Before DEF PlaceOK
<1>5. l \in InsertPcs => arg[t].key \in Keys
  BY Before DEF PlaceOK
<1>6. PlaceAt(l, x, rsz[t], arg[t])
  BY <1>1, <1>3, <1>4, <1>5 DEF PlaceAt, InResize
<1>7. {x.prev, x.curr, rsz[t].curr, rsz[t].n} \subseteq Known
  BY Before
<1> QED BY <1>1, <1>2, <1>6, <1>7, Before, QuietPointer

LEMMA ReadSizePointer ==
    ASSUME PointerInv, ExchangeInv, NEW t \in Threads, ReadSize(t) PROVE PointerInv'
<1> DEFINE s == hashcode[arg[t].key] % size
           x == [loc[t] EXCEPT !.slot = s]
<1>1. /\ pc[t] = "size" /\ loc' = [loc EXCEPT ![t] = x] /\ pc' = [pc EXCEPT ![t] = "base"]
      /\ UNCHANGED <<table, arg, rsz, calls, fault>>
  BY DEF ReadSize, SetLocal, Goto
<1>2. s \in Nat
  <2>1. arg[t].key \in Keys /\ size \in Nat \ {0}
    BY <1>1, Before DEF PlaceOK, InsertPcs
  <2> QED BY <2>1, HashAssumption
<1> HIDE DEF s
<1>3. x \in Local_ /\ x.prev = loc[t].prev /\ x.curr = loc[t].curr
  BY <1>2, Before DEF Local_
<1> HIDE DEF x
<1>9. {x.prev, x.curr} \subseteq Known
  BY <1>1, <1>3, Before
<1> QED BY <1>1, <1>3, <1>9, LocalPointer DEF InsertPcs, InLink

LEMMA ReadBasePointer ==
    ASSUME PointerInv, ExchangeInv, NEW t \in Threads, ReadBase(t) \/ ReadBaseToLink(t)
    PROVE  PointerInv'
<1> DEFINE x == [loc[t] EXCEPT !.base = store]
<1>1. x \in Local_ /\ x.prev = loc[t].prev /\ x.curr = loc[t].curr /\ x.base = store /\ x.n = loc[t].n
  BY Before, ArrayNumbers DEF Local_
<1>2. CASE ReadBase(t)
  <2>1. /\ pc[t] = "base" /\ loc' = [loc EXCEPT ![t] = x] /\ pc' = [pc EXCEPT ![t] = "head"]
        /\ UNCHANGED <<table, arg, rsz, calls, fault>>
    BY <1>2 DEF ReadBase, SetLocal, Goto
  <2> HIDE DEF x
  <2>9. {x.prev, x.curr} \subseteq Known /\ x.base \in DOMAIN arrays
    BY <1>1, <2>1, Before
  <2> QED BY <1>1, <2>1, <2>9, LocalPointer DEF InsertPcs, InLink
<1>3. CASE ReadBaseToLink(t)
  <2>1. /\ pc[t] = "linkbase" /\ loc' = [loc EXCEPT ![t] = x] /\ pc' = [pc EXCEPT ![t] = "linkhead"]
        /\ UNCHANGED <<table, arg, rsz, calls, fault>>
    BY <1>3 DEF ReadBaseToLink, SetLocal, Goto
  <2> HIDE DEF x
  <2>9. {x.prev, x.curr} \subseteq Known /\ x.base \in DOMAIN arrays
    BY <1>1, <2>1, Before
  <2> QED BY <1>1, <2>1, <2>9, LocalPointer DEF InsertPcs, InLink, Linking
<1> QED BY <1>2, <1>3

LEMMA ReadHeadPointer ==
    ASSUME PointerInv, ExchangeInv, NEW t \in Threads, ReadHead(t) PROVE PointerInv'
<1> DEFINE h == arrays[loc[t].base].elt[loc[t].slot]
           x == [loc[t] EXCEPT !.curr = h]
<1>1. /\ pc[t] = "head" /\ ~BadAccess(t) /\ loc' = [loc EXCEPT ![t] = x]
      /\ pc' = [pc EXCEPT ![t] = "walk"] /\ UNCHANGED <<table, arg, rsz, calls, fault>>
  BY DEF ReadHead, SetLocal, Goto
<1>2. loc[t].base \in DOMAIN arrays /\ loc[t].slot \in DOMAIN arrays[loc[t].base].elt
  BY <1>1, Before DEF PlaceOK, BadAccess, BadIndex
<1>3. h \in Known /\ h \in Ptr
  BY <1>2, Before
<1> HIDE DEF h
<1>4. x \in Local_ /\ x.prev = loc[t].prev /\ x.curr = h
  BY <1>3, Before DEF Local_
<1> HIDE DEF x
<1>9. {x.prev, x.curr} \subseteq Known
  BY <1>1, <1>3, <1>4, Before
<1> QED BY <1>1, <1>3, <1>4, <1>9, LocalPointer DEF InsertPcs, InLink

LEMMA FoundPointer ==
    ASSUME PointerInv, ExchangeInv, NEW t \in Threads, Found(t) PROVE PointerInv'
<1> DEFINE v == IF arg[t].op = "insert" THEN 1 ELSE node[loc[t].curr].val
           x == [loc[t] EXCEPT !.ret = v]
<1>1. /\ pc[t] = "walk" /\ loc[t].curr # NULL /\ loc' = [loc EXCEPT ![t] = x]
      /\ pc' = [pc EXCEPT ![t] = "ret"] /\ UNCHANGED <<table, arg, rsz, calls, fault>>
  BY DEF Found, SetLocal, Goto
<1>2. v \in {0, 1, NULL} \cup Vals
  <2>1. loc[t].curr \in NodeId /\ node \in [NodeId -> Node_]
    BY <1>1, Before DEF TypeOK
  <2>2. node[loc[t].curr].val \in Vals \cup {NULL}
    BY <2>1 DEF Node_
  <2> QED BY <2>2
<1> HIDE DEF v
<1>3. x \in Local_ /\ x.prev = loc[t].prev /\ x.curr = loc[t].curr
  BY <1>2, Before DEF Local_
<1> HIDE DEF x
<1>9. {x.prev, x.curr} \subseteq Known
  BY <1>1, <1>3, Before
<1> QED BY <1>1, <1>3, <1>9, LocalPointer DEF InsertPcs, InLink

LEMMA AdvancePointer ==
    ASSUME PointerInv, ExchangeInv, NEW t \in Threads, Advance(t) PROVE PointerInv'
<1> DEFINE y == node[loc[t].curr].next
           d == IF loc[t].collision < MAX_COLLISION THEN loc[t].collision + 1 ELSE loc[t].collision
           z == [loc[t] EXCEPT !.prev = loc[t].curr, !.curr = y]
           x == [z EXCEPT !.collision = d]
<1>1. /\ pc[t] = "walk" /\ loc[t].curr # NULL /\ UNCHANGED <<table, pc, arg, rsz, calls, fault>>
  BY DEF Advance
<1>2. loc' = [loc EXCEPT ![t] = x]
  BY Before DEF Advance, SetLocal, Local_
<1>3. y \in Known /\ y \in Ptr /\ loc[t].curr \in Known /\ loc[t].curr \in Ptr
  BY <1>1, Before
<1>4. d \in Nat
  BY Before, BoundAssumption DEF Local_
<1> HIDE DEF y, d
<1>5. z \in Local_ /\ z.prev = loc[t].curr /\ z.curr = y
  BY <1>3, Before DEF Local_
<1> HIDE DEF z
<1>6. x \in Local_ /\ x.prev = loc[t].curr /\ x.curr = y
  BY <1>4, <1>5 DEF Local_
<1> HIDE DEF x
<1>7. pc' = [pc EXCEPT ![t] = "walk"]
  BY <1>1, Before
<1>9. {x.prev, x.curr} \subseteq Known
  BY <1>1, <1>2, <1>3, <1>6, <1>7, Before
<1> QED BY <1>1, <1>2, <1>3, <1>6, <1>7, <1>9, LocalPointer DEF InsertPcs, InLink

LEMMA EndPointer ==
    ASSUME PointerInv, ExchangeInv, NEW t \in Threads, LookupMiss(t) \/ Return(t)
    PROVE  PointerInv'
<1>1. PICK l \in {"ret", "idle"} :
         /\ pc[t] \in {"walk", "ret"} /\ pc' = [pc EXCEPT ![t] = l]
         /\ UNCHANGED <<table, arg, loc, rsz, calls, fault>>
  BY DEF LookupMiss, Return, Goto
<1>2. loc' = [loc EXCEPT ![t] = loc[t]]
  BY <1>1, Before
<1>9. {loc[t].prev, loc[t].curr} \subseteq Known
  BY <1>1, <1>2, Before
<1> QED BY <1>1, <1>2, <1>9, Before, LocalPointer DEF InsertPcs, InLink

(* A step of htable_resize that writes neither a node nor an array.        *)
LEMMA LoopPointer ==
    ASSUME PointerInv, ExchangeInv, NEW t \in Threads, NEW l, NEW r,
           pc' = [pc EXCEPT ![t] = l], rsz' = [rsz EXCEPT ![t] = r],
           UNCHANGED <<allow_resize, arrays, node, used, arg, loc, calls, fault>>,
           size' \in Nat \ {0}, store' \in DOMAIN arrays,
           Resizing(t), l \in (ResizePcs \ {"r_new"}) \cup {"ret"},
           r \in Resize_, {r.curr, r.n} \subseteq Known,
           r.new_size = rsz[t].new_size, r.new_store = rsz[t].new_store,
           l = "r_head" => r.base \in DOMAIN arrays, l = "r_move" => r.n # NULL
    PROVE  PointerInv'
<1>1. Goes(t, l, loc[t], r, arg[t])
  BY Before DEF Goes, Pcs
<1>2. l \notin InsertPcs /\ l \notin {"head", "linkhead", "link"} /\ ~InLink(l)
  BY DEF InsertPcs, ResizePcs, InLink
<1>3. r.new_size \in Nat \ {0} /\ DOMAIN arrays[r.new_store].elt = Slots(r.new_size)
  BY Before DEF PlaceOK
<1>4. PlaceAt(l, loc[t], r, arg[t])
  BY <1>2, <1>3 DEF PlaceAt
<1>5. {loc[t].prev, loc[t].curr, r.curr, r.n} \subseteq Known
  BY Before
<1>6. calls' \in [Threads -> 0..MaxCalls] /\ fault' \in BOOLEAN
  BY Before
<1> QED BY <1>1, <1>2, <1>4, <1>5, <1>6, QuietPointer

LEMMA ForTestPointer ==
    ASSUME PointerInv, ExchangeInv, NEW t \in Threads, ForTest(t) PROVE PointerInv'
<1>1. PICK l \in {"r_base", "r_size"} :
         /\ pc[t] = "r_for" /\ pc' = [pc EXCEPT ![t] = l]
         /\ UNCHANGED <<size, allow_resize, store, arrays, node, used, arg, loc, rsz, calls, fault>>
  BY DEF ForTest, Goto, table
<1>2. /\ rsz' = [rsz EXCEPT ![t] = rsz[t]] /\ rsz[t] \in Resize_
      /\ {rsz[t].curr, rsz[t].n} \subseteq Known
      /\ size' \in Nat \ {0} /\ store' \in DOMAIN arrays
  BY <1>1, Before
<1> QED BY <1>1, <1>2, LoopPointer DEF ResizePcs, Resizing, Moving

LEMMA ForBasePointer ==
    ASSUME PointerInv, ExchangeInv, NEW t \in Threads, ForBase(t) \/ ReadOldStore(t)
    PROVE  PointerInv'
<1> DEFINE r == [rsz[t] EXCEPT !.base = store]
<1>1. PICK l \in {"r_head", "r_free"} :
         /\ pc[t] \in {"r_base", "r_old"} /\ pc' = [pc EXCEPT ![t] = l]
         /\ rsz' = [rsz EXCEPT ![t] = r]
         /\ UNCHANGED <<size, allow_resize, store, arrays, node, used, arg, loc, calls, fault>>
  BY DEF ForBase, ReadOldStore, Goto, SetResize, table
<1>2. /\ r \in Resize_ /\ r.curr = rsz[t].curr /\ r.n = rsz[t].n /\ r.base = store
      /\ r.new_size = rsz[t].new_size /\ r.new_store = rsz[t].new_store
  BY Before, ArrayNumbers DEF Resize_
<1> HIDE DEF r
<1>3. /\ {r.curr, r.n} \subseteq Known /\ r.base \in DOMAIN arrays
      /\ size' \in Nat \ {0} /\ store' \in DOMAIN arrays
  BY <1>1, <1>2, Before
<1> QED BY <1>1, <1>2, <1>3, LoopPointer DEF ResizePcs, Resizing, Moving, Swapping

LEMMA ForHeadPointer ==
    ASSUME PointerInv, ExchangeInv, NEW t \in Threads, ForHead(t) PROVE PointerInv'
<1> DEFINE h == arrays[rsz[t].base].elt[rsz[t].i]
           r == [rsz[t] EXCEPT !.curr = h]
<1>1. /\ pc[t] = "r_head" /\ ~BadAccess(t) /\ pc' = [pc EXCEPT ![t] = "r_walk"]
      /\ rsz' = [rsz EXCEPT ![t] = r]
      /\ UNCHANGED <<size, allow_resize, store, arrays, node, used, arg, loc, calls, fault>>
  BY DEF ForHead, Goto, SetResize, table
<1>2. rsz[t].base \in DOMAIN arrays /\ rsz[t].i \in DOMAIN arrays[rsz[t].base].elt
  BY <1>1, Before DEF PlaceOK, BadAccess, BadIndex
<1>3. h \in Known /\ h \in Ptr
  BY <1>2, Before
<1> HIDE DEF h
<1>4. /\ r \in Resize_ /\ r.curr = h /\ r.n = rsz[t].n
      /\ r.new_size = rsz[t].new_size /\ r.new_store = rsz[t].new_store
  BY <1>3, Before DEF Resize_
<1> HIDE DEF r
<1>5. {r.curr, r.n} \subseteq Known /\ size' \in Nat \ {0} /\ store' \in DOMAIN arrays
  BY <1>1, <1>3, <1>4, Before
<1> QED BY <1>1, <1>4, <1>5, LoopPointer DEF ResizePcs, Resizing, Moving

LEMMA TakeNodePointer ==
    ASSUME PointerInv, ExchangeInv, NEW t \in Threads, TakeNode(t) PROVE PointerInv'
<1> DEFINE c == rsz[t].curr
           y == node[c].next
           r == [rsz[t] EXCEPT !.n = c, !.curr = y]
<1>1. /\ pc[t] = "r_walk" /\ c # NULL /\ pc' = [pc EXCEPT ![t] = "r_move"]
      /\ rsz' = [rsz EXCEPT ![t] = r]
      /\ UNCHANGED <<size, allow_resize, store, arrays, node, used, arg, loc, calls, fault>>
  BY DEF TakeNode, Goto, SetResize, table
<1>2. c \in Known /\ c \in Ptr /\ y \in Known /\ y \in Ptr
  BY <1>1, Before
<1> HIDE DEF c, y
<1>3. /\ r \in Resize_ /\ r.curr = y /\ r.n = c
      /\ r.new_size = rsz[t].new_size /\ r.new_store = rsz[t].new_store
  BY <1>2, Before DEF Resize_
<1> HIDE DEF r
<1>4. {r.curr, r.n} \subseteq Known /\ size' \in Nat \ {0} /\ store' \in DOMAIN arrays
  BY <1>1, <1>2, <1>3, Before
<1> QED BY <1>1, <1>3, <1>4, LoopPointer DEF ResizePcs, Resizing, Moving

LEMMA ChainDonePointer ==
    ASSUME PointerInv, ExchangeInv, NEW t \in Threads, ChainDone(t) PROVE PointerInv'
<1> DEFINE r == [rsz[t] EXCEPT !.i = @ + 1]
<1>1. /\ pc[t] = "r_walk" /\ pc' = [pc EXCEPT ![t] = "r_for"] /\ rsz' = [rsz EXCEPT ![t] = r]
      /\ UNCHANGED <<size, allow_resize, store, arrays, node, used, arg, loc, calls, fault>>
  BY DEF ChainDone, Goto, SetResize, table
<1>2. /\ r \in Resize_ /\ r.curr = rsz[t].curr /\ r.n = rsz[t].n
      /\ r.new_size = rsz[t].new_size /\ r.new_store = rsz[t].new_store
  BY Before DEF Resize_
<1> HIDE DEF r
<1>3. {r.curr, r.n} \subseteq Known /\ size' \in Nat \ {0} /\ store' \in DOMAIN arrays
  BY <1>1, <1>2, Before
<1> QED BY <1>1, <1>2, <1>3, LoopPointer DEF ResizePcs, Resizing, Moving

(* ht->size and ht->store, in the order of the code.                       *)
LEMMA ExchangePointer ==
    ASSUME PointerInv, ExchangeInv, NEW t \in Threads, SetSize(t) \/ SetStore(t)
    PROVE  PointerInv'
<1>1. PICK l \in {"r_old", "ret"} :
         /\ pc[t] \in {"r_size", "r_store"} /\ pc' = [pc EXCEPT ![t] = l]
         /\ size' \in {size, rsz[t].new_size} /\ store' \in {store, rsz[t].new_store}
         /\ UNCHANGED <<allow_resize, arrays, node, used, arg, loc, rsz, calls, fault>>
  BY DEF SetSize, SetStore, Goto
<1>2. Resizing(t)
  BY <1>1 DEF Resizing, Swapping
<1>3. /\ rsz' = [rsz EXCEPT ![t] = rsz[t]] /\ rsz[t] \in Resize_
      /\ {rsz[t].curr, rsz[t].n} \subseteq Known
  BY <1>1, Before
<1>4. size' \in Nat \ {0} /\ store' \in DOMAIN arrays
  <2>1. rsz[t].new_size \in Nat \ {0} /\ size \in Nat \ {0} /\ store \in DOMAIN arrays
    BY <1>2, Before DEF PlaceOK
  <2>2. rsz[t].new_store \in DOMAIN arrays
    BY <1>2 DEF ExchangeInv, ArraysOwned, FillsItsOwn
  <2> QED BY <1>1, <2>1, <2>2
<1> QED BY <1>1, <1>2, <1>3, <1>4, LoopPointer DEF ResizePcs

(* A fault, or nothing at all.                                             *)
LEMMA StillPointer ==
    ASSUME PointerInv, ExchangeInv, UNCHANGED <<table, frames, calls>>, fault' \in BOOLEAN
    PROVE  PointerInv'
<1>1. UNCHANGED <<size, allow_resize, store, arrays, node, used, pc, arg, loc, rsz, calls>>
  BY DEF table, frames
<1>2. TypeOK'
  BY <1>1 DEF PointerInv, TypeOK
<1>3. Known' = Known
  BY <1>1 DEF Known, Unlinked, Linking
<1>4. PointersKnown'
  BY <1>1, <1>3 DEF PointerInv, PointersKnown
<1>5. ASSUME NEW t \in Threads PROVE PlaceOK(t)'
  <2>1. PlaceOK(t)
    BY DEF PointerInv
  <2> QED BY <2>1, <1>1 DEF PlaceOK, Linking, Resizing, Moving, Swapping
<1> QED BY <1>1, <1>2, <1>4, <1>5 DEF PointerInv, Linking
-----------------------------------------------------------------------------
(* Steps that write a node or an array.                                    *)
LEMMA NewNodePointer ==
    ASSUME PointerInv, ExchangeInv, NEW t \in Threads, NewNode(t) PROVE PointerInv'
<1> DEFINE b == used + 1
           rec == [key |-> arg[t].key, val |-> arg[t].val, next |-> NULL]
           x == [loc[t] EXCEPT !.n = b]
           l == IF loc[t].prev = NULL THEN "linkbase" ELSE "link"
<1>1. /\ pc[t] = "walk" /\ used < MaxNodes /\ used' = b /\ node' = [node EXCEPT ![b] = rec]
      /\ loc' = [loc EXCEPT ![t] = x] /\ pc' = [pc EXCEPT ![t] = l]
      /\ UNCHANGED <<size, allow_resize, store, arrays, arg, rsz, calls, fault>>
  BY DEF NewNode, SetLocal, Goto
<1>2. /\ b \in NodeId /\ b \in 0..MaxNodes /\ b \in 1..b \ 1..used /\ b >= used
      /\ 1..b = 1..used \cup {b} /\ b \in Ptr
  <2>1. used \in Nat /\ used < MaxNodes /\ MaxNodes \in Nat
    BY <1>1, Before, BoundAssumption
  <2> QED BY <2>1 DEF NodeId, Ptr
<1> HIDE DEF b
<1>3. rec \in Node_ /\ rec.key = arg[t].key /\ rec.next = NULL /\ arg[t].key \in Keys
  BY <1>1, Before DEF Node_, Ptr, Call_, PlaceOK, InsertPcs
<1> HIDE DEF rec
<1>4. /\ node' \in [NodeId -> Node_] /\ node'[b] = rec
      /\ \A m \in NodeId \ {b} : node'[m] = node[m]
  BY <1>1, <1>2, <1>3, Before DEF TypeOK
<1>5. x \in Local_ /\ x.n = b /\ x.prev = loc[t].prev /\ x.curr = loc[t].curr
  BY <1>2, Before DEF Local_
<1>6. /\ l \in Pcs /\ l \in InsertPcs /\ InLink(l) /\ l \notin ResizePcs /\ l \notin {"head", "linkhead"}
      /\ (l = "link" => loc[t].prev # NULL)
  BY DEF Pcs, InsertPcs, InLink, ResizePcs
<1> HIDE DEF x, l
<1>7. Goes(t, l, x, rsz[t], arg[t])
  BY <1>1, <1>5, <1>6, Before DEF Goes
<1>8. TypeOK'
  <2>1. /\ ArraysTyped(arrays') /\ size' \in Nat \ {0} /\ store' \in DOMAIN arrays'
        /\ calls' \in [Threads -> 0..MaxCalls] /\ fault' \in BOOLEAN /\ TypeOK
    BY <1>1, Before, TypeFacts
  <2>2. used' \in 0..MaxNodes /\ allow_resize' = allow_resize
    BY <1>1, <1>2
  <2> QED BY <2>1, <2>2, <1>4, <1>7, TypeStep
<1>9. PlaceAt(l, x, rsz[t], arg[t])
  BY <1>1, <1>2, <1>3, <1>5, <1>6 DEF PlaceAt, InResize, ResizePcs
<1>10. /\ DOMAIN arrays \subseteq DOMAIN arrays'
       /\ \A a \in DOMAIN arrays : DOMAIN arrays'[a].elt = DOMAIN arrays[a].elt
       /\ used' >= used /\ x.n \in 1..used' \ 1..used
       /\ \A m \in 1..used : node'[m].key = node[m].key
       /\ \A m \in 1..used' \ 1..used : node'[m].key \in Keys
  <2>1. 1..used \subseteq NodeId
    BY Before
  <2> QED BY <2>1, <1>1, <1>2, <1>3, <1>4, <1>5
<1>11. ASSUME Known \subseteq Known'
       PROVE  /\ \A a \in DOMAIN arrays' : \A s \in DOMAIN arrays'[a].elt : arrays'[a].elt[s] \in Known'
              /\ \A m \in NodeId : node'[m].next \in Known'
              /\ {x.prev, x.curr, rsz[t].curr, rsz[t].n} \subseteq Known'
  <2>1. \A m \in NodeId : node'[m].next \in Known
    <3>1. \A m \in NodeId : node[m].next \in Known /\ NULL \in Known
      BY Before DEF PointerInv, PointersKnown
    <3> QED BY <3>1, <1>3, <1>4
  <2>2. /\ \A a \in DOMAIN arrays : \A s \in DOMAIN arrays[a].elt : arrays[a].elt[s] \in Known
        /\ {x.prev, x.curr, rsz[t].curr, rsz[t].n} \subseteq Known
    BY <1>5, Before
  <2> QED BY <2>1, <2>2, <1>1, <1>11
<1> QED BY <1>7, <1>8, <1>9, <1>10, <1>11, PointerStep

(* The link: from now on the node is known.                                *)
LEMMA LinkPointer ==
    ASSUME PointerInv, ExchangeInv, NEW t \in Threads, Linking(t), AfterLink(t),
           UNCHANGED <<size, allow_resize, store, used, arg, rsz, calls, fault>>,
           node' \in [NodeId -> Node_], ArraysTyped(arrays'), DOMAIN arrays' = DOMAIN arrays,
           \A a \in DOMAIN arrays :
             /\ DOMAIN arrays'[a].elt = DOMAIN arrays[a].elt
             /\ \A s \in DOMAIN arrays[a].elt : arrays'[a].elt[s] \in Known \cup {loc[t].n},
           \A m \in NodeId : /\ node'[m].key = node[m].key
                             /\ node'[m].next \in Known \cup {loc[t].n}
    PROVE  PointerInv'
<1> DEFINE x == [loc[t] EXCEPT !.ret = 0]
           l == IF allow_resize /\ loc[t].collision >= MAX_COLLISION THEN "r_new" ELSE "ret"
<1>1. loc' = [loc EXCEPT ![t] = x] /\ pc' = [pc EXCEPT ![t] = l]
  BY DEF AfterLink, SetLocal, Goto
<1>2. x \in Local_ /\ x.prev = loc[t].prev /\ x.curr = loc[t].curr
  BY Before DEF Local_
<1>3. l \in {"r_new", "ret"}
  OBVIOUS
<1> HIDE DEF x, l
<1>4. /\ l \in Pcs /\ ~InLink(l) /\ l \notin InsertPcs /\ ~InResize(l)
  BY <1>3 DEF Pcs, InsertPcs, ResizePcs, InLink, InResize
<1>5. Goes(t, l, x, rsz[t], arg[t])
  BY <1>1, <1>2, <1>4, Before DEF Goes
<1>6. TypeOK'
  <2>1. /\ size' \in Nat \ {0} /\ store' \in DOMAIN arrays' /\ TypeOK
        /\ calls' \in [Threads -> 0..MaxCalls] /\ fault' \in BOOLEAN
    BY Before
  <2>2. used' \in 0..MaxNodes /\ allow_resize' = allow_resize
    BY Before DEF TypeOK
  <2> QED BY <2>1, <2>2, <1>5, TypeStep
<1>7. PlaceAt(l, x, rsz[t], arg[t])
  BY <1>3, <1>4 DEF PlaceAt
<1>8. loc[t].n \in Known'
  BY <1>4, <1>5, LinkedIsKnown
<1>9. used' >= used /\ \A m \in 1..used : node'[m].key = node[m].key
  BY Before
<1>10. ASSUME Known \subseteq Known'
       PROVE  /\ \A a \in DOMAIN arrays' : \A s \in DOMAIN arrays'[a].elt : arrays'[a].elt[s] \in Known'
              /\ \A m \in NodeId : node'[m].next \in Known'
              /\ {x.prev, x.curr, rsz[t].curr, rsz[t].n} \subseteq Known'
  <2>1. {x.prev, x.curr, rsz[t].curr, rsz[t].n} \subseteq Known
    BY <1>2, Before
  <2> QED BY <2>1, <1>8, <1>10
<1>11. \A m \in 1..used' \ 1..used : node'[m].key \in Keys
  OBVIOUS
<1> QED BY <1>4, <1>5, <1>6, <1>7, <1>9, <1>10, <1>11, PointerStep

(* A node's link is written.                                               *)
LEMMA NextWritten ==
    ASSUME node \in [NodeId -> Node_], NEW m \in NodeId, NEW p \in Ptr,
           node' = [node EXCEPT ![m].next = p]
    PROVE  /\ node' \in [NodeId -> Node_] /\ node'[m].next = p
           /\ \A k \in NodeId : node'[k].key = node[k].key
           /\ \A k \in NodeId \ {m} : node'[k].next = node[k].next
<1> DEFINE b == [node[m] EXCEPT !.next = p]
<1>1. b \in Node_ /\ b.next = p /\ b.key = node[m].key
  BY DEF Node_
<1>2. node' = [node EXCEPT ![m] = b]
  OBVIOUS
<1> HIDE DEF b
<1> QED BY <1>1, <1>2

LEMMA LinkAfterPrevPointer ==
    ASSUME PointerInv, ExchangeInv, NEW t \in Threads, LinkAfterPrev(t) PROVE PointerInv'
<1>1. /\ pc[t] = "link" /\ AfterLink(t) /\ node' = [node EXCEPT ![loc[t].prev].next = loc[t].n]
      /\ UNCHANGED <<size, allow_resize, store, arrays, used, arg, rsz, calls, fault>>
  BY DEF LinkAfterPrev
<1>2. Linking(t) /\ loc[t].n \in 1..used /\ loc[t].n \in Ptr /\ loc[t].prev \in NodeId
  BY <1>1, Before DEF Linking, PlaceOK, Ptr
<1>3. node \in [NodeId -> Node_]
  BY Before DEF TypeOK
<1>4. /\ node' \in [NodeId -> Node_] /\ node'[loc[t].prev].next = loc[t].n
      /\ \A k \in NodeId : node'[k].key = node[k].key
      /\ \A k \in NodeId \ {loc[t].prev} : node'[k].next = node[k].next
  BY <1>1, <1>2, <1>3, NextWritten
<1>5. \A m \in NodeId : node[m].next \in Known
  BY DEF PointerInv, PointersKnown
<1>6. \A m \in NodeId : node'[m].key = node[m].key /\ node'[m].next \in Known \cup {loc[t].n}
  BY <1>4, <1>5
<1>7. /\ ArraysTyped(arrays') /\ DOMAIN arrays' = DOMAIN arrays
      /\ \A a \in DOMAIN arrays :
           /\ DOMAIN arrays'[a].elt = DOMAIN arrays[a].elt
           /\ \A s \in DOMAIN arrays[a].elt : arrays'[a].elt[s] \in Known \cup {loc[t].n}
  BY <1>1, Before, TypeFacts
<1> QED BY <1>1, <1>2, <1>4, <1>6, <1>7, LinkPointer

(* A slot of an array is written with a node.                              *)
LEMMA SlotPointer ==
    ASSUME PointerInv, ExchangeInv, NEW t \in Threads, NEW a \in DOMAIN arrays,
           NEW s, NEW v \in Ptr, arrays' = Put(arrays, a, s, v)
    PROVE  /\ ArraysTyped(arrays') /\ DOMAIN arrays' = DOMAIN arrays
           /\ \A b \in DOMAIN arrays :
                /\ DOMAIN arrays'[b].elt = DOMAIN arrays[b].elt
                /\ \A z \in DOMAIN arrays[b].elt : arrays'[b].elt[z] \in Known \cup {v}
<1>1. TypeOK /\ ArraysTyped(arrays) /\ Shapes
  BY TypeFacts DEF PointerInv, ExchangeInv, ArraysOwned
<1>2. /\ ArraysTyped(arrays') /\ DOMAIN arrays' = DOMAIN arrays
      /\ arrays'[a].elt = PutIn(arrays[a].elt, s, v)
      /\ \A b \in DOMAIN arrays \ {a} : arrays'[b] = arrays[b]
  BY <1>1, SlotTyped
<1>3. \A b \in DOMAIN arrays : \A z \in DOMAIN arrays[b].elt : arrays[b].elt[z] \in Known
  BY DEF PointerInv, PointersKnown
<1>4. ASSUME NEW b \in DOMAIN arrays
      PROVE  /\ DOMAIN arrays'[b].elt = DOMAIN arrays[b].elt
             /\ \A z \in DOMAIN arrays[b].elt : arrays'[b].elt[z] \in Known \cup {v}
  <2>1. CASE b = a
    BY <2>1, <1>2, <1>3 DEF PutIn
  <2>2. CASE b # a
    BY <2>2, <1>2, <1>3
  <2> QED BY <2>1, <2>2
<1> QED BY <1>2, <1>4

LEMMA LinkHeadPointer ==
    ASSUME PointerInv, ExchangeInv, NEW t \in Threads, LinkHead(t) PROVE PointerInv'
<1>1. /\ pc[t] = "linkhead" /\ AfterLink(t)
      /\ arrays' = Put(arrays, loc[t].base, loc[t].slot, loc[t].n)
      /\ UNCHANGED <<size, allow_resize, store, node, used, arg, rsz, calls, fault>>
  BY DEF LinkHead, Put
<1>2. Linking(t) /\ loc[t].n \in Ptr /\ loc[t].base \in DOMAIN arrays
  BY <1>1, Before DEF Linking, PlaceOK, Ptr
<1>3. /\ ArraysTyped(arrays') /\ DOMAIN arrays' = DOMAIN arrays
      /\ \A a \in DOMAIN arrays :
           /\ DOMAIN arrays'[a].elt = DOMAIN arrays[a].elt
           /\ \A s \in DOMAIN arrays[a].elt : arrays'[a].elt[s] \in Known \cup {loc[t].n}
  BY <1>1, <1>2, SlotPointer
<1>4. \A m \in NodeId : node'[m].key = node[m].key /\ node'[m].next \in Known \cup {loc[t].n}
  BY <1>1 DEF PointerInv, PointersKnown
<1>5. node' \in [NodeId -> Node_]
  BY <1>1, Before DEF TypeOK
<1> QED BY <1>1, <1>2, <1>3, <1>4, <1>5, LinkPointer

(* What is left of a step of htable_resize that writes an array.           *)
LEMMA WritePointer ==
    ASSUME PointerInv, ExchangeInv, NEW t \in Threads, NEW l, NEW r,
           pc' = [pc EXCEPT ![t] = l], rsz' = [rsz EXCEPT ![t] = r],
           UNCHANGED <<size, allow_resize, store, used, arg, loc, calls, fault>>,
           l \in {"r_for", "r_walk", "r_store"},
           r \in Resize_, {r.curr, r.n} \subseteq Known,
           r.new_size \in Nat \ {0}, DOMAIN arrays'[r.new_store].elt = Slots(r.new_size),
           node' \in [NodeId -> Node_], ArraysTyped(arrays'), DOMAIN arrays \subseteq DOMAIN arrays',
           \A a \in DOMAIN arrays : DOMAIN arrays'[a].elt = DOMAIN arrays[a].elt,
           \A a \in DOMAIN arrays' : \A s \in DOMAIN arrays'[a].elt : arrays'[a].elt[s] \in Known,
           \A m \in NodeId : node'[m].key = node[m].key /\ node'[m].next \in Known
    PROVE  PointerInv'
<1>1. /\ l \in Pcs /\ ~InLink(l) /\ l \notin InsertPcs
      /\ l \notin {"head", "linkhead", "link", "r_head", "r_move"}
  BY DEF Pcs, InsertPcs, ResizePcs, InLink
<1>2. Goes(t, l, loc[t], r, arg[t])
  BY <1>1, Before DEF Goes
<1>3. TypeOK'
  <2>1. /\ size' \in Nat \ {0} /\ store' \in DOMAIN arrays' /\ TypeOK
        /\ calls' \in [Threads -> 0..MaxCalls] /\ fault' \in BOOLEAN
    BY Before
  <2>2. used' \in 0..MaxNodes /\ allow_resize' = allow_resize
    BY Before DEF TypeOK
  <2> QED BY <2>1, <2>2, <1>2, TypeStep
<1>4. PlaceAt(l, loc[t], r, arg[t])
  BY <1>1 DEF PlaceAt
<1>5. used' >= used /\ \A m \in 1..used : node'[m].key = node[m].key
  BY Before
<1>6. \A m \in 1..used' \ 1..used : node'[m].key \in Keys
  OBVIOUS
<1>7. ASSUME Known \subseteq Known'
      PROVE  /\ \A a \in DOMAIN arrays' : \A s \in DOMAIN arrays'[a].elt : arrays'[a].elt[s] \in Known'
             /\ \A m \in NodeId : node'[m].next \in Known'
             /\ {loc[t].prev, loc[t].curr, r.curr, r.n} \subseteq Known'
  <2>1. {loc[t].prev, loc[t].curr} \subseteq Known
    BY Before
  <2> QED BY <2>1, <1>7
<1> QED BY <1>1, <1>2, <1>3, <1>4, <1>5, <1>6, <1>7, PointerStep

LEMMA MoveNodePointer ==
    ASSUME PointerInv, ExchangeInv, NEW t \in Threads, MoveNode(t) PROVE PointerInv'
<1>1. PICK r : r = rsz[t]
  OBVIOUS
<1> DEFINE s == hashcode[node[r.n].key] % r.new_size
           h == arrays[r.new_store].elt[s]
<1>2. /\ pc[t] = "r_move" /\ node' = [node EXCEPT ![r.n].next = h]
      /\ arrays' = Put(arrays, r.new_store, s, r.n) /\ pc' = [pc EXCEPT ![t] = "r_walk"]
      /\ UNCHANGED <<size, allow_resize, store, used, arg, loc, rsz, calls, fault>>
  BY Zenon, <1>1 DEF MoveNode, Goto, Put
<1>3. Resizing(t)
  BY <1>2 DEF Resizing, Moving
<1>4. /\ r \in Resize_ /\ rsz' = [rsz EXCEPT ![t] = r] /\ {r.curr, r.n} \subseteq Known
      /\ r.n # NULL /\ r.new_size \in Nat \ {0}
      /\ DOMAIN arrays[r.new_store].elt = Slots(r.new_size)
      /\ r.new_store \in DOMAIN arrays
  <2>1. r.new_store \in DOMAIN arrays
    BY <1>1, <1>3 DEF ExchangeInv, ArraysOwned, FillsItsOwn
  <2> QED BY Zenon, <2>1, <1>1, <1>2, <1>3, Before DEF PlaceOK
<1>5. r.n \in NodeId /\ r.n \in Ptr /\ node[r.n].key \in Keys
  <2>1. r.n \in 1..used
    BY <1>4, Before
  <2> QED BY <2>1, Before DEF Ptr
<1>6. s \in Slots(r.new_size)
  BY <1>4, <1>5, SlotInRange, HashAssumption
<1>7. h \in Known /\ h \in Ptr
  BY <1>4, <1>6, Before
<1> HIDE DEF s, h
<1>8. /\ node' \in [NodeId -> Node_] /\ node'[r.n].next = h
      /\ \A k \in NodeId : node'[k].key = node[k].key
      /\ \A k \in NodeId \ {r.n} : node'[k].next = node[k].next
  <2>1. node \in [NodeId -> Node_]
    BY Before DEF TypeOK
  <2> QED BY <2>1, <1>2, <1>5, <1>7, NextWritten
<1>9. \A m \in NodeId : node'[m].key = node[m].key /\ node'[m].next \in Known
  <2>1. \A m \in NodeId : node[m].next \in Known
    BY DEF PointerInv, PointersKnown
  <2> QED BY <2>1, <1>7, <1>8
<1>10. /\ ArraysTyped(arrays') /\ DOMAIN arrays' = DOMAIN arrays
       /\ \A b \in DOMAIN arrays :
            /\ DOMAIN arrays'[b].elt = DOMAIN arrays[b].elt
            /\ \A z \in DOMAIN arrays[b].elt : arrays'[b].elt[z] \in Known \cup {r.n}
  BY <1>2, <1>4, <1>5, SlotPointer
<1>11. /\ DOMAIN arrays'[r.new_store].elt = Slots(r.new_size)
       /\ \A a \in DOMAIN arrays' : \A z \in DOMAIN arrays'[a].elt : arrays'[a].elt[z] \in Known
  BY <1>4, <1>10
<1>12. /\ pc' = [pc EXCEPT ![t] = "r_walk"]
       /\ UNCHANGED <<size, allow_resize, store, used, arg, loc, calls, fault>>
  BY <1>2
<1>13. node' \in [NodeId -> Node_]
  BY <1>8
<1>14. /\ ArraysTyped(arrays') /\ DOMAIN arrays \subseteq DOMAIN arrays'
       /\ \A b \in DOMAIN arrays : DOMAIN arrays'[b].elt = DOMAIN arrays[b].elt
  BY <1>10
<1> QED BY Zenon, <1>4, <1>9, <1>11, <1>12, <1>13, <1>14, WritePointer

LEMMA NewStorePointer ==
    ASSUME PointerInv, ExchangeInv, NEW t \in Threads, NewStore(t) PROVE PointerInv'
<1> DEFINE n == get_prime(2 * size)
           z == ZeroArray(n)
           k == Len(arrays) + 1
<1>1. PICK r : r = [NoResize EXCEPT !.new_size = n, !.new_store = k]
  OBVIOUS
<1>2. /\ pc[t] = "r_new" /\ arrays' = Append(arrays, z)
      /\ pc' = [pc EXCEPT ![t] = "r_for"] /\ rsz' = [rsz EXCEPT ![t] = r]
      /\ UNCHANGED <<size, allow_resize, store, node, used, arg, loc, calls, fault>>
  BY <1>1 DEF NewStore, Goto, SetResize
<1>3. n \in Nat \ {0}
  <2>1. 2 * size \in Nat \ {0}
    BY Before
  <2> QED BY <2>1, NewSize
<1>4. z.live = TRUE /\ DOMAIN z.elt = Slots(n) /\ \A s \in Slots(n) : z.elt[s] = NULL
  BY DEF ZeroArray
<1>5. OneMore(arrays, z, arrays')
  <2>1. IsSeq(arrays)
    BY DEF ExchangeInv, ArraysOwned, Shapes
  <2> HIDE DEF z
  <2> QED BY <2>1, <1>2, Appended
<1> HIDE DEF n, z
<1>6. /\ k \in Nat /\ DOMAIN arrays' = DOMAIN arrays \cup {k} /\ k \notin DOMAIN arrays
      /\ arrays'[k] = z /\ \A a \in DOMAIN arrays : arrays'[a] = arrays[a]
  BY <1>5 DEF OneMore
<1> HIDE DEF k
<1>7. /\ r \in Resize_ /\ r.new_size = n /\ r.new_store = k /\ r.curr = NULL /\ r.n = NULL
  BY <1>1, <1>3, <1>6 DEF NoResize, Resize_, Ptr
<1>8. ArraysTyped(arrays')
  <2>1. z.live \in BOOLEAN /\ \A s \in DOMAIN z.elt : z.elt[s] \in Ptr
    BY <1>4 DEF Ptr
  <2>2. ArraysTyped(arrays)
    BY Before, TypeFacts
  <2> QED BY <2>1, <2>2, <1>6 DEF ArraysTyped
<1>9. \A a \in DOMAIN arrays' : \A s \in DOMAIN arrays'[a].elt : arrays'[a].elt[s] \in Known
  <2>1. /\ NULL \in Known
        /\ \A a \in DOMAIN arrays : \A s \in DOMAIN arrays[a].elt : arrays[a].elt[s] \in Known
    BY Before
  <2> QED BY <2>1, <1>4, <1>6
<1>10. \A m \in NodeId : node'[m].key = node[m].key /\ node'[m].next \in Known
  BY <1>2 DEF PointerInv, PointersKnown
<1>11. node' \in [NodeId -> Node_] /\ {r.curr, r.n} \subseteq Known
  BY <1>2, <1>7, Before DEF TypeOK
<1>12. DOMAIN arrays'[r.new_store].elt = Slots(r.new_size) /\ r.new_size \in Nat \ {0}
  BY <1>3, <1>4, <1>6, <1>7
<1>13. \A a \in DOMAIN arrays : DOMAIN arrays'[a].elt = DOMAIN arrays[a].elt
  BY <1>6
<1> QED BY <1>2, <1>6, <1>7, <1>8, <1>9, <1>10, <1>11, <1>12, <1>13, WritePointer

LEMMA FreeStorePointer ==
    ASSUME PointerInv, ExchangeInv, NEW t \in Threads, FreeStore(t) PROVE PointerInv'
<1>1. PICK r : r = rsz[t]
  OBVIOUS
<1> DEFINE y == [arrays[r.base] EXCEPT !.live = FALSE]
<1>2. /\ pc[t] = "r_free" /\ arrays' = [arrays EXCEPT ![r.base] = y]
      /\ pc' = [pc EXCEPT ![t] = "r_store"]
      /\ UNCHANGED <<size, allow_resize, store, node, used, arg, loc, rsz, calls, fault>>
  BY <1>1 DEF FreeStore, Goto
<1>3. /\ r \in Resize_ /\ rsz' = [rsz EXCEPT ![t] = r] /\ {r.curr, r.n} \subseteq Known
      /\ r.new_size \in Nat \ {0} /\ DOMAIN arrays[r.new_store].elt = Slots(r.new_size)
  BY <1>1, <1>2, Before DEF PlaceOK, Resizing, Swapping
<1>4. r.base \in DOMAIN arrays /\ r.new_store \in DOMAIN arrays
  BY <1>1, <1>2 DEF ExchangeInv, ArraysOwned, FillsItsOwn, Resizing, Swapping
<1>5. y.live = FALSE /\ y.elt = arrays[r.base].elt
  <2>1. arrays[r.base] = [live |-> arrays[r.base].live, elt |-> arrays[r.base].elt]
    BY <1>4 DEF ExchangeInv, ArraysOwned, Shapes
  <2> QED BY <2>1
<1> HIDE DEF y
<1>6. /\ DOMAIN arrays' = DOMAIN arrays
      /\ \A a \in DOMAIN arrays : /\ arrays'[a].elt = arrays[a].elt
                                  /\ arrays'[a].live \in {FALSE, arrays[a].live}
  BY <1>2, <1>4, <1>5
<1>7. ArraysTyped(arrays')
  <2>1. ArraysTyped(arrays)
    BY Before, TypeFacts
  <2> QED BY <2>1, <1>6 DEF ArraysTyped
<1>8. /\ \A a \in DOMAIN arrays' : \A s \in DOMAIN arrays'[a].elt : arrays'[a].elt[s] \in Known
      /\ \A a \in DOMAIN arrays : DOMAIN arrays'[a].elt = DOMAIN arrays[a].elt
      /\ DOMAIN arrays'[r.new_store].elt = Slots(r.new_size)
  BY <1>3, <1>4, <1>6, Before
<1>9. \A m \in NodeId : node'[m].key = node[m].key /\ node'[m].next \in Known
  BY <1>2 DEF PointerInv, PointersKnown
<1>10. node' \in [NodeId -> Node_]
  BY <1>2, Before DEF TypeOK
<1> QED BY <1>2, <1>3, <1>6, <1>7, <1>8, <1>9, <1>10, WritePointer
-----------------------------------------------------------------------------
LEMMA InitPointer == Init => PointerInv
<1> SUFFICES ASSUME Init PROVE PointerInv
  OBVIOUS
<1>1. InitTable /\ TypeOK
  BY InitIs, InitType
<1>2. /\ used = 0 /\ \A t \in Threads : pc[t] = "idle"
      /\ \A m \in NodeId : node[m].next = NULL
      /\ \A a \in DOMAIN arrays : \A s \in DOMAIN arrays[a].elt : arrays[a].elt[s] = NULL
  BY <1>1 DEF InitTable, ZeroElt
<1>3. \A t \in Threads : /\ loc[t].prev = NULL /\ loc[t].curr = NULL
                         /\ rsz[t].curr = NULL /\ rsz[t].n = NULL
  BY DEF Init, NoLocal, NoResize
<1>4. \A t \in Threads : ~Linking(t) /\ ~Resizing(t)
  BY <1>2 DEF Linking, Resizing, Moving, Swapping
<1>5. NULL \in Known
  BY <1>4 DEF Known, Unlinked
<1>6. PointersKnown
  BY <1>2, <1>3, <1>5 DEF PointersKnown
<1>7. \A t \in Threads : PlaceOK(t)
  BY <1>2, <1>4 DEF PlaceOK, InsertPcs
<1>8. \A m \in 1..used : node[m].key \in Keys
  BY <1>2
<1> QED BY <1>1, <1>4, <1>6, <1>7, <1>8 DEF PointerInv

LEMMA NextPointer ==
    ASSUME PointerInv, ExchangeInv, [Next]_vars
    PROVE  PointerInv'
<1>1. CASE UNCHANGED vars
  BY <1>1, StillPointer DEF vars, PointerInv, TypeOK
<1>2. ASSUME NEW t \in Threads, CallInsert(t) PROVE PointerInv'
  BY <1>2, CallPointer DEF CallInsert
<1>3. ASSUME NEW t \in Threads, CallLookup(t) PROVE PointerInv'
  <2>1. PICK k \in Keys : Call(t, "lookup", k, NULL)
    BY <1>3 DEF CallLookup
  <2> QED BY <2>1, CallPointer
<1>4. ASSUME NEW t \in Threads, InsertStep(t) \/ Return(t) PROVE PointerInv'
  BY <1>4, ReadSizePointer, ReadBasePointer, ReadHeadPointer, FoundPointer, AdvancePointer,
     EndPointer, NewNodePointer, LinkAfterPrevPointer, LinkHeadPointer DEF InsertStep
<1>5. ASSUME NEW t \in Threads, ResizeStep(t) PROVE PointerInv'
  BY <1>5, NewStorePointer, ForTestPointer, ForBasePointer, ForHeadPointer, TakeNodePointer,
     ChainDonePointer, MoveNodePointer, ExchangePointer, FreeStorePointer DEF ResizeStep
<1>6. ASSUME NEW t \in Threads, Fault(t) PROVE PointerInv'
  BY <1>6, StillPointer DEF Fault
<1> QED BY <1>1, <1>2, <1>3, <1>4, <1>5, <1>6 DEF Next, Step

PointersAlways == PointerInv /\ ExchangeInv
LEMMA PointerInvariance == Spec => []PointersAlways
<1>1. Init => PointersAlways
  BY InitPointer, InitExchange DEF PointersAlways
<1>2. PointersAlways /\ [Next]_vars => PointersAlways'
  BY NextPointer, NextExchange DEF PointersAlways
<1> QED BY <1>1, <1>2, PTL DEF Spec

(* Whatever the threads and their resizes do to each other, every variable *)
(* and local of htable.c holds a value of its C type, up to the access     *)
(* that is a fault.                                                        *)
THEOREM Types == Spec => []TypeOK
<1>1. PointersAlways => TypeOK
  BY DEF PointersAlways, PointerInv
<1> QED BY <1>1, PointerInvariance, PTL

(* A node is its thread's own until the link is written, also when other   *)
(* threads resize the table meanwhile.                                     *)
THEOREM Private == Spec => []PrivateUntilLinked
<1>1. ASSUME PointersAlways PROVE PrivateUntilLinked
  <2> SUFFICES ASSUME NEW t \in Threads, Linking(t)
               PROVE  LET n == loc[t].n
                      IN  /\ \A a \in DOMAIN arrays : n \notin Heads(a)
                          /\ \A m \in NodeId : node[m].next # n
                          /\ \A u \in Threads \ {t} :
                               /\ n \notin {loc[u].prev, loc[u].curr}
                               /\ Linking(u) => loc[u].n # n
                               /\ pc[u] \in ResizePcs => n \notin {rsz[u].curr, rsz[u].n}
    BY DEF PrivateUntilLinked
  <2> DEFINE n == loc[t].n
  <2>1. n \notin Known
    BY DEF Known, Unlinked
  <2>2. /\ \A a \in DOMAIN arrays : \A s \in DOMAIN arrays[a].elt : arrays[a].elt[s] \in Known
        /\ \A m \in NodeId : node[m].next \in Known
        /\ \A u \in Threads : {loc[u].prev, loc[u].curr, rsz[u].curr, rsz[u].n} \subseteq Known
        /\ \A u \in Threads : Linking(u) /\ loc[u].n = loc[t].n => u = t
    BY <1>1 DEF PointersAlways, PointerInv, PointersKnown
  <2>3. \A a \in DOMAIN arrays : n \notin Heads(a)
    BY <2>1, <2>2 DEF Heads
  <2> QED BY <2>1, <2>2, <2>3
<1> QED BY <1>1, PointerInvariance, PTL
-----------------------------------------------------------------------------
(* The test of the table (testhash.c) stores with each key its own value.  *)
CallAt(l, x, c) ==
    /\ l \in InsertPcs => x.ret = NULL /\ (c.op = "insert" => c.val = c.key)
    /\ l \in ResizePcs \cup {"link", "linkbase", "linkhead"} => c.op = "insert"
    /\ l = "ret" /\ c.op = "lookup" => x.ret \in {NULL, c.key}

ValuesOK ==
    /\ \A m \in 1..used : node[m].val = node[m].key
    /\ \A t \in Threads : CallAt(pc[t], loc[t], arg[t])

LEMMA ValueStep ==
    ASSUME TypeOK, ValuesOK, NEW t \in Threads, NEW l, NEW x, NEW c, CallAt(l, x, c),
           pc' = [pc EXCEPT ![t] = l], loc' = [loc EXCEPT ![t] = x], arg' = [arg EXCEPT ![t] = c],
           \A m \in 1..used' : node'[m].val = node'[m].key
    PROVE  ValuesOK'
<1>1. /\ pc \in [Threads -> Pcs] /\ loc \in [Threads -> Local_] /\ arg \in [Threads -> Call_]
  BY DEF TypeOK
<1>2. ASSUME NEW u \in Threads PROVE CallAt(pc'[u], loc'[u], arg'[u])
  <2>1. CASE u = t
    <3>1. pc'[u] = l /\ loc'[u] = x /\ arg'[u] = c
      BY <1>1, <2>1
    <3> QED BY <3>1
  <2>2. CASE u # t
    <3>1. pc'[u] = pc[u] /\ loc'[u] = loc[u] /\ arg'[u] = arg[u]
      BY <1>1, <2>2
    <3> QED BY <3>1 DEF ValuesOK
  <2> QED BY <2>1, <2>2
<1>3. \A u \in Threads : CallAt(pc[u], loc[u], arg[u])'
  BY <1>2 DEF CallAt
<1> QED BY <1>3 DEF ValuesOK

(* A walk, up to the node it finds or the end of the chain.                *)
LEMMA WalkValues ==
    ASSUME PointerInv, ExchangeInv, ValuesOK, NEW t \in Threads,
           \/ ReadSize(t) \/ ReadBase(t) \/ ReadHead(t) \/ Found(t) \/ Advance(t)
           \/ LookupMiss(t) \/ ReadBaseToLink(t) \/ Return(t)
    PROVE  ValuesOK'
<1>1. UNCHANGED <<used, node, arg>> /\ pc[t] \in InsertPcs \cup {"ret"}
  BY DEF ReadSize, ReadBase, ReadHead, Found, Advance, LookupMiss, ReadBaseToLink, Return, table,
         InsertPcs
<1>2. /\ TypeOK /\ loc[t] \in Local_ /\ CallAt(pc[t], loc[t], arg[t])
      /\ loc = [loc EXCEPT ![t] = loc[t]] /\ arg = [arg EXCEPT ![t] = arg[t]]
      /\ pc = [pc EXCEPT ![t] = pc[t]]
  BY Before DEF ValuesOK
<1>3. \A m \in 1..used' : node'[m].val = node'[m].key
  BY <1>1 DEF ValuesOK
<1>4. SUFFICES \E l, x : /\ pc' = [pc EXCEPT ![t] = l] /\ loc' = [loc EXCEPT ![t] = x]
                         /\ CallAt(l, x, arg[t])
  <2>1. PICK l, x : /\ pc' = [pc EXCEPT ![t] = l] /\ loc' = [loc EXCEPT ![t] = x]
                    /\ CallAt(l, x, arg[t])
    BY <1>4
  <2>2. arg' = [arg EXCEPT ![t] = arg[t]]
    BY <1>1, <1>2
  <2> QED BY <2>1, <2>2, <1>2, <1>3, ValueStep
<1>5. CASE Found(t)
  <2> DEFINE v == IF arg[t].op = "insert" THEN 1 ELSE node[loc[t].curr].val
             x == [loc[t] EXCEPT !.ret = v]
  <2>1. loc' = [loc EXCEPT ![t] = x] /\ pc' = [pc EXCEPT ![t] = "ret"]
    BY <1>5 DEF Found, SetLocal, Goto
  <2>2. loc[t].curr \in 1..used
    BY <1>5, Before DEF Found
  <2>3. arg[t].op = "lookup" => v = arg[t].key
    BY <2>2, <1>5 DEF Found, ValuesOK
  <2> HIDE DEF v
  <2>4. x.ret = v
    BY <1>2 DEF Local_
  <2> HIDE DEF x
  <2>5. CallAt("ret", x, arg[t])
    BY <2>3, <2>4 DEF CallAt, InsertPcs, ResizePcs
  <2> QED BY <2>1, <2>5
<1>6. CASE LookupMiss(t)
  <2>1. /\ pc[t] = "walk" /\ arg[t].op = "lookup" /\ pc' = [pc EXCEPT ![t] = "ret"]
        /\ loc' = [loc EXCEPT ![t] = loc[t]]
    BY <1>2, <1>6 DEF LookupMiss, Goto
  <2>2. CallAt("ret", loc[t], arg[t])
    BY <2>1, <1>2 DEF CallAt, InsertPcs, ResizePcs
  <2> QED BY <2>1, <2>2
<1>7. CASE Return(t)
  <2>1. pc' = [pc EXCEPT ![t] = "idle"] /\ loc' = [loc EXCEPT ![t] = loc[t]]
    BY <1>2, <1>7 DEF Return, Goto
  <2>2. CallAt("idle", loc[t], arg[t])
    BY DEF CallAt, InsertPcs, ResizePcs
  <2> QED BY <2>1, <2>2
<1>8. ASSUME NEW l \in {"base", "head", "walk", "linkhead"}, NEW x, x.ret = loc[t].ret,
             pc[t] \in InsertPcs, l = "linkhead" => pc[t] = "linkbase"
      PROVE  CallAt(l, x, arg[t])
  BY <1>2, <1>8 DEF CallAt, InsertPcs, ResizePcs
<1>9. CASE ReadSize(t)
  <2> DEFINE x == [loc[t] EXCEPT !.slot = hashcode[arg[t].key] % size]
  <2>1. loc' = [loc EXCEPT ![t] = x] /\ pc' = [pc EXCEPT ![t] = "base"] /\ pc[t] = "size"
    BY <1>9 DEF ReadSize, SetLocal, Goto
  <2>2. x.ret = loc[t].ret
    BY <1>2 DEF Local_
  <2> HIDE DEF x
  <2>3. CallAt("base", x, arg[t])
    BY <2>1, <2>2, <1>8 DEF InsertPcs
  <2> QED BY <2>1, <2>3
<1>10. CASE ReadBase(t) \/ ReadBaseToLink(t)
  <2> DEFINE x == [loc[t] EXCEPT !.base = store]
  <2>1. PICK l \in {"head", "linkhead"} :
          /\ loc' = [loc EXCEPT ![t] = x] /\ pc' = [pc EXCEPT ![t] = l]
          /\ pc[t] = IF l = "head" THEN "base" ELSE "linkbase"
    BY <1>10 DEF ReadBase, ReadBaseToLink, SetLocal, Goto
  <2>2. x.ret = loc[t].ret
    BY <1>2 DEF Local_
  <2> HIDE DEF x
  <2>3. CallAt(l, x, arg[t])
    BY <2>1, <2>2, <1>8 DEF InsertPcs
  <2> QED BY <2>1, <2>3
<1>11. CASE ReadHead(t)
  <2> DEFINE x == [loc[t] EXCEPT !.curr = arrays[loc[t].base].elt[loc[t].slot]]
  <2>1. loc' = [loc EXCEPT ![t] = x] /\ pc' = [pc EXCEPT ![t] = "walk"] /\ pc[t] = "head"
    BY <1>11 DEF ReadHead, SetLocal, Goto
  <2>2. x.ret = loc[t].ret
    BY <1>2 DEF Local_
  <2> HIDE DEF x
  <2>3. CallAt("walk", x, arg[t])
    BY <2>1, <2>2, <1>8 DEF InsertPcs
  <2> QED BY <2>1, <2>3
<1>12. CASE Advance(t)
  <2> DEFINE d == IF loc[t].collision < MAX_COLLISION THEN loc[t].collision + 1
                  ELSE loc[t].collision
             x == [loc[t] EXCEPT !.prev = loc[t].curr, !.curr = node[loc[t].curr].next,
                                 !.collision = d]
  <2>1. loc' = [loc EXCEPT ![t] = x] /\ pc' = [pc EXCEPT ![t] = "walk"] /\ pc[t] = "walk"
    BY <1>2, <1>12 DEF Advance, SetLocal
  <2> HIDE DEF d
  <2>2. x.ret = loc[t].ret
    BY <1>2 DEF Local_
  <2> HIDE DEF x
  <2>3. CallAt("walk", x, arg[t])
    BY <2>1, <2>2, <1>8 DEF InsertPcs
  <2> QED BY <2>1, <2>3
<1> QED BY <1>5, <1>6, <1>7, <1>9, <1>10, <1>11, <1>12

(* The node of an insert, and its link.                                    *)
LEMMA InsertValues ==
    ASSUME PointerInv, ExchangeInv, ValuesOK, NEW t \in Threads,
           NewNode(t) \/ LinkAfterPrev(t) \/ LinkHead(t)
    PROVE  ValuesOK'
<1>1. /\ TypeOK /\ loc[t] \in Local_ /\ CallAt(pc[t], loc[t], arg[t])
      /\ arg = [arg EXCEPT ![t] = arg[t]] /\ used \in Nat /\ 1..used \subseteq NodeId
      /\ node \in [NodeId -> Node_]
  BY Before DEF ValuesOK, TypeOK
<1>2. CASE NewNode(t)
  <2> DEFINE b == used + 1
             rec == [key |-> arg[t].key, val |-> arg[t].val, next |-> NULL]
             x == [loc[t] EXCEPT !.n = b]
             l == IF loc[t].prev = NULL THEN "linkbase" ELSE "link"
  <2>1. /\ pc[t] = "walk" /\ arg[t].op = "insert" /\ used' = b /\ node' = [node EXCEPT ![b] = rec]
        /\ loc' = [loc EXCEPT ![t] = x] /\ pc' = [pc EXCEPT ![t] = l] /\ UNCHANGED arg
        /\ used < MaxNodes
    BY <1>2 DEF NewNode, SetLocal, Goto
  <2>2. x.ret = loc[t].ret
    BY <1>1 DEF Local_
  <2>3. l \in {"linkbase", "link"}
    OBVIOUS
  <2>4. b \in NodeId /\ 1..b = 1..used \cup {b} /\ b \notin 1..used
    <3>1. MaxNodes \in Nat
      BY BoundAssumption
    <3> QED BY <3>1, <2>1, <1>1 DEF NodeId
  <2> HIDE DEF b, x, l
  <2>5. CallAt(l, x, arg[t]) /\ arg[t].val = arg[t].key
    BY <1>1, <2>1, <2>2, <2>3 DEF CallAt, InsertPcs, ResizePcs
  <2>6. rec.key = arg[t].key /\ rec.val = arg[t].val
    OBVIOUS
  <2> HIDE DEF rec
  <2>7. node'[b] = rec /\ \A m \in 1..used : node'[m] = node[m]
    BY <1>1, <2>1, <2>4
  <2>8. \A m \in 1..used' : node'[m].val = node'[m].key
    BY <2>1, <2>4, <2>5, <2>6, <2>7 DEF ValuesOK
  <2>9. arg' = [arg EXCEPT ![t] = arg[t]]
    BY <1>1, <2>1
  <2> QED BY <1>1, <2>1, <2>5, <2>8, <2>9, ValueStep
<1>3. CASE LinkAfterPrev(t) \/ LinkHead(t)
  <2> DEFINE x == [loc[t] EXCEPT !.ret = 0]
             l == IF allow_resize /\ loc[t].collision >= MAX_COLLISION THEN "r_new" ELSE "ret"
  <2>1. /\ pc[t] \in {"link", "linkhead"} /\ loc' = [loc EXCEPT ![t] = x]
        /\ pc' = [pc EXCEPT ![t] = l] /\ UNCHANGED <<arg, used>>
    BY <1>3 DEF LinkAfterPrev, LinkHead, AfterLink, SetLocal, Goto
  <2>2. l \in {"r_new", "ret"}
    OBVIOUS
  <2> HIDE DEF x, l
  <2>3. CallAt(l, x, arg[t])
    <3>1. arg[t].op = "insert"
      BY <1>1, <2>1 DEF CallAt
    <3> QED BY <3>1, <2>2 DEF CallAt, InsertPcs
  <2>4. \A m \in NodeId : node'[m].key = node[m].key /\ node'[m].val = node[m].val
    <3>1. CASE LinkAfterPrev(t)
      <4>1. node' = [node EXCEPT ![loc[t].prev].next = loc[t].n]
        BY <3>1 DEF LinkAfterPrev
      <4>2. loc[t].prev \in NodeId /\ loc[t].n \in Ptr
        BY <3>1, Before DEF LinkAfterPrev, PlaceOK, Ptr, Linking
      <4> QED BY <4>1, <4>2, <1>1, NextWritten
    <3>2. CASE LinkHead(t)
      BY <3>2 DEF LinkHead
    <3> QED BY <1>3, <3>1, <3>2
  <2>5. \A m \in 1..used' : node'[m].val = node'[m].key
    BY <1>1, <2>1, <2>4 DEF ValuesOK
  <2>6. arg' = [arg EXCEPT ![t] = arg[t]]
    BY <1>1, <2>1
  <2> QED BY <1>1, <2>1, <2>3, <2>5, <2>6, ValueStep
<1> QED BY <1>2, <1>3
-----------------------------------------------------------------------------
(* A resize moves nodes, and leaves what they hold.                        *)
LEMMA ResizeValues ==
    ASSUME PointerInv, ExchangeInv, ValuesOK, NEW t \in Threads, ResizeStep(t)
    PROVE  ValuesOK'
<1>1. /\ TypeOK /\ CallAt(pc[t], loc[t], arg[t]) /\ used \in Nat /\ 1..used \subseteq NodeId
      /\ arg = [arg EXCEPT ![t] = arg[t]] /\ loc = [loc EXCEPT ![t] = loc[t]]
      /\ node \in [NodeId -> Node_]
  BY Before DEF ValuesOK, TypeOK
<1>2. pc[t] \in ResizePcs /\ UNCHANGED <<arg, loc, used>>
  BY Zenon DEF ResizeStep, NewStore, ForTest, ForBase, ForHead, TakeNode, ChainDone, MoveNode, SetSize,
         ReadOldStore, FreeStore, SetStore, table, ResizePcs
<1>3. PICK l \in ResizePcs \cup {"ret"} : pc' = [pc EXCEPT ![t] = l]
  BY Zenon DEF ResizeStep, NewStore, ForTest, ForBase, ForHead, TakeNode, ChainDone, MoveNode, SetSize,
         ReadOldStore, FreeStore, SetStore, Goto, ResizePcs
<1>4. CallAt(l, loc[t], arg[t])
  <2>1. arg[t].op = "insert"
    BY <1>1, <1>2 DEF CallAt
  <2> QED BY <2>1, <1>3 DEF CallAt, InsertPcs, ResizePcs
<1>5. \A m \in NodeId : node'[m].key = node[m].key /\ node'[m].val = node[m].val
  <2>1. CASE MoveNode(t)
    <3>1. PICK r : r = rsz[t]
      OBVIOUS
    <3>2. r.n \in NodeId
      BY Zenon, <2>1, <3>1, Before DEF MoveNode, PlaceOK
    <3>3. PICK h : node' = [node EXCEPT ![r.n].next = h]
      BY Zenon, <2>1, <3>1 DEF MoveNode
    <3> QED BY <3>2, <3>3, <1>1 DEF Node_
  <2>2. CASE ~MoveNode(t)
    BY <2>2 DEF ResizeStep, NewStore, ForTest, ForBase, ForHead, TakeNode, ChainDone, SetSize,
                ReadOldStore, FreeStore, SetStore, table
  <2> QED BY <2>1, <2>2
<1>6. \A m \in 1..used' : node'[m].val = node'[m].key
  BY <1>1, <1>2, <1>5 DEF ValuesOK
<1>7. arg' = [arg EXCEPT ![t] = arg[t]] /\ loc' = [loc EXCEPT ![t] = loc[t]]
  BY <1>1, <1>2
<1> QED BY Zenon, <1>1, <1>3, <1>4, <1>6, <1>7, ValueStep

LEMMA StillValues ==
    ASSUME ValuesOK, UNCHANGED <<node, used, pc, loc, arg>> PROVE ValuesOK'
BY DEF ValuesOK, CallAt

LEMMA StepValues ==
    ASSUME PointerInv, ExchangeInv, ValuesOK, NEW t \in Threads, Step(t) PROVE ValuesOK'
<1>1. CASE InsertStep(t) \/ Return(t)
  BY <1>1, WalkValues, InsertValues DEF InsertStep
<1>2. CASE Fault(t)
  BY <1>2, StillValues DEF Fault, table, frames
<1> QED BY <1>1, <1>2, ResizeValues DEF Step

(* A call that inserts a key does so with the key as its value.            *)
LEMMA CallValues ==
    ASSUME PointerInv, ExchangeInv, ValuesOK, NEW t \in Threads, NEW op, NEW k, NEW v,
           op = "insert" => v = k, Call(t, op, k, v)
    PROVE  ValuesOK'
<1> DEFINE c == [op |-> op, key |-> k, val |-> v]
<1>1. /\ arg' = [arg EXCEPT ![t] = c] /\ loc' = [loc EXCEPT ![t] = NoLocal]
      /\ pc' = [pc EXCEPT ![t] = "size"] /\ UNCHANGED <<node, used>>
  BY DEF Call, SetLocal, Goto, table
<1>2. c.op = op /\ c.key = k /\ c.val = v
  OBVIOUS
<1> HIDE DEF c
<1>3. CallAt("size", NoLocal, c)
  BY <1>2 DEF CallAt, NoLocal, InsertPcs, ResizePcs
<1>4. TypeOK /\ \A m \in 1..used' : node'[m].val = node'[m].key
  BY <1>1 DEF PointerInv, ValuesOK
<1> QED BY <1>1, <1>3, <1>4, ValueStep

TableInv == PointersAlways /\ ValuesOK

LEMMA InitValues == Init => TableInv
<1> SUFFICES ASSUME Init PROVE TableInv
  OBVIOUS
<1>1. PointersAlways
  BY InitPointer, InitExchange DEF PointersAlways
<1>2. used = 0 /\ \A t \in Threads : pc[t] = "idle"
  BY DEF Init, htable_init
<1>3. \A t \in Threads : CallAt("idle", loc[t], arg[t])
  BY DEF CallAt, InsertPcs, ResizePcs
<1>4. \A t \in Threads : CallAt(pc[t], loc[t], arg[t])
  BY <1>2, <1>3
<1>5. \A m \in 1..used : node[m].val = node[m].key
  BY <1>2
<1> QED BY <1>1, <1>4, <1>5 DEF TableInv, ValuesOK

LEMMA TableStep == ASSUME TableInv, NEW t \in Threads, Step(t) PROVE TableInv'
<1>1. [Next]_vars
  BY DEF Next
<1>2. PointerInv' /\ ExchangeInv'
  BY <1>1, NextPointer, NextExchange DEF TableInv, PointersAlways
<1> QED BY <1>2, StepValues DEF TableInv, PointersAlways

LEMMA TableCall ==
    ASSUME TableInv, NEW t \in Threads, NEW op, NEW k \in Keys, NEW v, Call(t, op, k, v),
           \/ op = "insert" /\ v = k /\ k \in Vals
           \/ op = "lookup" /\ v = NULL
    PROVE  TableInv'
<1>1. [Next]_vars
  BY DEF Next, CallInsert, CallLookup
<1>2. PointerInv' /\ ExchangeInv'
  BY <1>1, NextPointer, NextExchange DEF TableInv, PointersAlways
<1>3. ValuesOK'
  BY CallValues DEF TableInv, PointersAlways
<1> QED BY <1>2, <1>3 DEF TableInv, PointersAlways

LEMMA TableStill == ASSUME TableInv, UNCHANGED vars PROVE TableInv'
<1>1. PointerInv' /\ ExchangeInv'
  BY NextPointer, NextExchange DEF TableInv, PointersAlways
<1>2. ValuesOK'
  BY StillValues DEF TableInv, vars, table, frames
<1> QED BY <1>1, <1>2 DEF TableInv, PointersAlways
-----------------------------------------------------------------------------
(* The shares of the workers lie within the keys of the test.              *)
LEMMA SharesWithin ==
    ASSUME TestAssumption, num_threads \in ThreadCounts
    PROVE  /\ share \in Nat
           /\ \A t \in Workers : end(t) <= TESTSZ
<1>1. num_threads \in Nat \ {0} /\ TESTSZ \in Nat
  BY DEF TestAssumption
<1>2. /\ TESTSZ \div num_threads \in Nat
      /\ num_threads * (TESTSZ \div num_threads) <= TESTSZ
  BY <1>1
<1> DEFINE d == TESTSZ \div num_threads
<1>3. d \in Nat /\ num_threads * d <= TESTSZ /\ share = d
  BY <1>2 DEF share
<1> HIDE DEF d
<1>4. ASSUME NEW t \in 0..(num_threads - 1) PROVE (t + 1) * d <= TESTSZ
  <2>1. (num_threads - (t + 1)) * d >= 0
    BY <1>1, <1>3
  <2>2. (num_threads - (t + 1)) * d = num_threads * d - (t + 1) * d
    BY <1>1, <1>3
  <2>3. (t + 1) * d \in Int /\ num_threads * d \in Int
    BY <1>1, <1>3
  <2> QED BY <2>1, <2>2, <2>3, <1>1, <1>3
<1> QED BY <1>1, <1>3, <1>4 DEF end, Workers

LEMMA OtherIsKey ==
    ASSUME TestAssumption, NEW t \in Nat, NEW m \in Nat PROVE other(t, m) \in Keys
<1>1. t * m \in Nat
  OBVIOUS
<1>2. (t * m) % 256 \in Nat
  BY <1>1
<1> DEFINE b == (t * m) % 256
<1>3. b \in Nat
  BY <1>2
<1> HIDE DEF b
<1>4. BIG_PRIME \in Nat /\ TESTSZ \in Nat \ {0} /\ Keys = 0..(TESTSZ - 1)
  BY DEF TestAssumption
<1>5. b * BIG_PRIME \in Nat
  BY <1>3, <1>4
<1> DEFINE c == b * BIG_PRIME
<1>6. c \in Nat
  BY <1>5
<1> HIDE DEF c
<1>7. c % TESTSZ \in 0..(TESTSZ - 1)
  BY <1>4, <1>6
<1> QED BY <1>4, <1>7 DEF other, b, c

(* Who may be in the table in each phase of the test.                      *)
Busy(t) ==
    \/ phase = "over"
    \/ phase = "threads" /\ t \in Workers
    \/ phase = "validate" /\ t = Main /\ arg[t].op = "lookup" /\ arg[t].key = idx[t]

TestInv ==
    /\ TableInv
    /\ num_threads \in ThreadCounts
    /\ phase \in {"threads", "validate", "destroy", "rwl", "next", "over"}
    /\ idx \in [Threads -> Nat]
    /\ \A t \in Threads : pc[t] # "idle" => Busy(t)
    /\ phase \in {"destroy", "rwl", "next"} => ~fault
    /\ ValuesBelong

LEMMA StartIsTyped ==
    ASSUME TestAssumption, num_threads \in ThreadCounts PROVE StartIdx \in [Threads -> Nat]
<1>1. share \in Nat
  BY SharesWithin
<1>2. \A t \in Threads : t \in Nat
  BY DEF TestAssumption
<1>3. \A t \in Threads : t * share \in Nat
  BY <1>1, <1>2
<1> HIDE DEF share
<1> QED BY <1>3 DEF StartIdx

LEMMA InitTest == TestAssumption => (TInit => TestInv)
<1> SUFFICES ASSUME TestAssumption, TInit PROVE TestInv
  OBVIOUS
<1>1. TableInv
  BY InitValues DEF TInit
<1>2. idx \in [Threads -> Nat]
  BY StartIsTyped DEF TInit
<1>3. fault = FALSE /\ \A t \in Threads : pc[t] = "idle"
  BY DEF TInit, Init
<1>4. phase \in {"threads", "rwl"}
  BY DEF TInit
<1> QED BY <1>1, <1>2, <1>3, <1>4 DEF TestInv, TInit, ValuesBelong

(* The calls of a worker's turn.                                           *)
LEMMA WorkerCall ==
    ASSUME TestAssumption, TestInv, NEW t \in Workers, FirstCall(t) \/ SecondCall(t)
    PROVE  TestInv'
<1>1. /\ t \in Threads /\ t \in Nat /\ Keys = 0..(TESTSZ - 1) /\ Vals = Keys /\ TESTSZ \in Nat
      /\ num_threads \in ThreadCounts /\ idx \in [Threads -> Nat] /\ idx[t] \in Nat
  BY DEF TestAssumption, TestInv, Workers
<1>2. PICK op, k, v : /\ Call(t, op, k, v) /\ k \in Keys
                      /\ \/ op = "insert" /\ v = k
                         \/ op = "lookup" /\ v = NULL
  <2>1. CASE FirstCall(t)
    <3>1. idx[t] < end(t) /\ end(t) <= TESTSZ
      BY <2>1, <1>1, SharesWithin DEF FirstCall
    <3>2. end(t) \in Int
      BY <1>1, SharesWithin DEF end
    <3>3. idx[t] \in Keys
      BY <3>1, <3>2, <1>1
    <3> QED BY <2>1, <3>3 DEF FirstCall
  <2>2. CASE SecondCall(t)
    <3>1. other(t, idx[t]) \in Keys
      BY <1>1, OtherIsKey
    <3> QED BY <2>2, <3>1 DEF SecondCall
  <2> QED BY <2>1, <2>2
<1>3. TableInv'
  BY <1>1, <1>2, TableCall DEF TestInv
<1>4. /\ phase = "threads" /\ UNCHANGED <<options, phase, outcome>>
      /\ idx' \in {idx, [idx EXCEPT ![t] = @ + 1]}
  BY DEF FirstCall, SecondCall
<1>5. pc' = [pc EXCEPT ![t] = "size"]
  BY <1>2 DEF Call, Goto
<1>6. \A u \in Threads : pc'[u] # "idle" => u = t \/ pc[u] # "idle"
  <2>1. pc \in [Threads -> Pcs]
    BY DEF TestInv, TableInv, PointersAlways, PointerInv, TypeOK
  <2> QED BY <1>5, <2>1
<1>7. \A u \in Threads : pc[u] # "idle" => u \in Workers
  BY <1>4 DEF TestInv, Busy
<1>8. \A u \in Threads : pc'[u] # "idle" => u \in Workers'
  BY <1>4, <1>6, <1>7 DEF options, Workers
<1>9. \A u \in Threads : pc'[u] # "idle" => Busy(u)'
  BY <1>4, <1>8 DEF Busy
<1>10. idx' \in [Threads -> Nat]
  BY <1>1, <1>4
<1> QED BY <1>3, <1>4, <1>9, <1>10 DEF TestInv, options, ValuesBelong
-----------------------------------------------------------------------------
(* A step in the table: the thread stays in its call or leaves the table.  *)
LEMMA StepOnlyBusy ==
    ASSUME TestInv, NEW t \in Threads, Step(t)
    PROVE  /\ pc[t] # "idle" /\ arg' = arg
           /\ \A u \in Threads \ {t} : pc'[u] = pc[u]
           /\ pc[t] = "ret" => pc' = [pc EXCEPT ![t] = "idle"] /\ ~fault'
<1>1. pc[t] # "idle" /\ UNCHANGED arg
  BY Zenon DEF Step, InsertStep, ResizeStep, Return, Fault, BadAccess, ReadSize, ReadBase, ReadHead, Found,
         Advance, LookupMiss, NewNode, LinkAfterPrev, ReadBaseToLink, LinkHead, NewStore, ForTest,
         ForBase, ForHead, TakeNode, ChainDone, MoveNode, SetSize, ReadOldStore, FreeStore,
         SetStore, frames
<1>2. pc \in [Threads -> Pcs]
  BY DEF TestInv, TableInv, PointersAlways, PointerInv, TypeOK
<1>3. \E l : pc' = [pc EXCEPT ![t] = l]
  <2>1. CASE InsertStep(t)
    BY <2>1, <1>2 DEF InsertStep, ReadSize, ReadBase, ReadHead, Found, Advance, LookupMiss, NewNode,
       LinkAfterPrev, ReadBaseToLink, LinkHead, AfterLink, Goto
  <2>2. CASE ResizeStep(t)
    BY Zenon, <2>2 DEF ResizeStep, NewStore, ForTest, ForBase, ForHead, TakeNode, ChainDone, MoveNode,
       SetSize, ReadOldStore, FreeStore, SetStore, Goto
  <2>3. CASE Return(t)
    BY <2>3 DEF Return, Goto
  <2>4. CASE Fault(t)
    <3>1. pc' = pc
      BY <2>4 DEF Fault, frames
    <3>2. pc = [pc EXCEPT ![t] = pc[t]]
      BY <1>2
    <3> QED BY <3>1, <3>2
  <2> QED BY <2>1, <2>2, <2>3, <2>4 DEF Step
<1>4. \A u \in Threads \ {t} : pc'[u] = pc[u]
  BY <1>2, <1>3
<1>5. ASSUME pc[t] = "ret" PROVE Return(t) /\ ~fault
  BY <1>5 DEF Step, InsertStep, ResizeStep, Fault, BadAccess, ReadSize, ReadBase, ReadHead, Found,
         Advance, LookupMiss, NewNode, LinkAfterPrev, ReadBaseToLink, LinkHead, NewStore, ForTest,
         ForBase, ForHead, TakeNode, ChainDone, MoveNode, SetSize, ReadOldStore, FreeStore,
         SetStore
<1> QED BY <1>1, <1>4, <1>5 DEF Return, Goto

(* A worker's step: no answer is a mismatch.                               *)
LEMMA WorkerTable ==
    ASSUME TestAssumption, TestInv, NEW t \in Workers, WorkerStep(t) PROVE TestInv'
<1>1. t \in Threads /\ Step(t) /\ phase = "threads"
  BY DEF TestAssumption, TestInv, Workers, WorkerStep
<1>2. TableInv'
  BY <1>1, TableStep DEF TestInv
<1>3. ~Mismatch(t)
  <2>1. CallAt(pc[t], loc[t], arg[t])
    BY <1>1 DEF TestInv, TableInv, ValuesOK
  <2> QED BY <2>1 DEF CallAt, Mismatch
<1>4. UNCHANGED <<options, phase, idx, outcome>>
  BY <1>3 DEF WorkerStep
<1>5. \A u \in Threads : pc'[u] # "idle" => Busy(u)'
  <2>1. \A u \in Threads : pc[u] # "idle" => u \in Workers
    BY <1>1 DEF TestInv, Busy
  <2>2. \A u \in Threads : pc'[u] # "idle" => u \in Workers'
    BY <2>1, <1>1, <1>4, StepOnlyBusy DEF Workers, options
  <2> QED BY <2>2, <1>1, <1>4 DEF Busy
<1> QED BY <1>1, <1>2, <1>4, <1>5 DEF TestInv, options, ValuesBelong

(* pthread_join: all workers have left the table.                          *)
LEMMA JoinTest == ASSUME TestAssumption, TestInv, Join PROVE TestInv'
<1>1. /\ phase = "threads" /\ ~fault /\ UNCHANGED <<vars, options, idx, outcome>>
      /\ phase' \in {"validate", "destroy"}
      /\ \A t \in Workers : pc[t] = "idle"
  BY DEF Join, Joined
<1>2. TableInv'
  BY <1>1, TableStill DEF TestInv
<1>3. \A t \in Threads : pc'[t] = "idle"
  BY <1>1 DEF TestInv, Busy, vars, frames
<1>4. ~fault'
  BY <1>1 DEF vars
<1> QED BY <1>1, <1>2, <1>3, <1>4 DEF TestInv, options, ValuesBelong

(* The steps of main between the tests, which leave the table alone.       *)
LEMMA BetweenTest ==
    ASSUME TestAssumption, TestInv, Pass \/ RwlTests PROVE TestInv'
<1>1. /\ phase \in {"destroy", "rwl"} /\ UNCHANGED <<vars, options, idx>>
      /\ phase' \in {"rwl", "next", "over"} /\ outcome' \in {"PASSED", "rwl failed"}
  BY DEF Pass, RwlTests
<1>2. TableInv'
  BY <1>1, TableStill DEF TestInv
<1>3. \A t \in Threads : pc'[t] = "idle"
  BY <1>1 DEF TestInv, Busy, vars, frames
<1>4. ~fault'
  BY <1>1 DEF TestInv, vars
<1> QED BY <1>1, <1>2, <1>3, <1>4 DEF TestInv, options, ValuesBelong

LEMMA DestroyFaultTest == ASSUME TestAssumption, TestInv, DestroyFault PROVE TestInv'
<1>1. /\ UNCHANGED <<table, frames, calls>> /\ fault' = TRUE /\ phase' = "over"
      /\ UNCHANGED <<options, idx, outcome>>
  BY DEF DestroyFault
<1>2. /\ PointerInv /\ ExchangeInv /\ ValuesOK
      /\ UNCHANGED <<store, arrays, node, used, pc, arg, loc, rsz>> /\ fault' \in BOOLEAN
  BY <1>1 DEF TestInv, TableInv, PointersAlways, table, frames
<1>3. PointerInv' /\ ExchangeInv' /\ ValuesOK'
  BY <1>1, <1>2, StillPointer, SameExchange, StillValues
<1>4. TableInv'
  BY <1>3 DEF TableInv, PointersAlways
<1> QED BY <1>1, <1>4 DEF TestInv, Busy, options, ValuesBelong

LEMMA ValidateCallTest == ASSUME TestAssumption, TestInv, ValidateCall PROVE TestInv'
<1> DEFINE k == idx[Main]
<1>1. /\ Main \in Threads /\ Keys = 0..(TESTSZ - 1) /\ TESTSZ \in Nat /\ k \in Nat
      /\ phase = "validate" /\ k < TESTSZ /\ Call(Main, "lookup", k, NULL) /\ UNCHANGED testVars
  BY DEF TestAssumption, TestInv, ValidateCall, Main
<1>2. k \in Keys
  BY <1>1
<1>3. TableInv'
  BY <1>1, <1>2, TableCall DEF TestInv
<1>4. /\ pc \in [Threads -> Pcs] /\ arg \in [Threads -> Call_]
      /\ \A t \in Threads : pc[t] # "idle" => t = Main
  BY <1>1 DEF TestInv, Busy, TableInv, PointersAlways, PointerInv, TypeOK
<1>5. /\ pc' = [pc EXCEPT ![Main] = "size"]
      /\ arg' = [arg EXCEPT ![Main] = [op |-> "lookup", key |-> k, val |-> NULL]]
  BY <1>1 DEF Call, Goto
<1>6. arg'[Main].op = "lookup" /\ arg'[Main].key = k
  BY <1>1, <1>4, <1>5
<1>7. \A t \in Threads : pc'[t] # "idle" => t = Main
  BY <1>4, <1>5
<1>8. k = idx'[Main] /\ phase' = "validate"
  BY <1>1 DEF testVars
<1> HIDE DEF k
<1>9. \A t \in Threads : pc'[t] # "idle" => Busy(t)'
  BY <1>6, <1>7, <1>8 DEF Busy, Main
<1> QED BY <1>1, <1>3, <1>9 DEF TestInv, testVars, options, ValuesBelong

(* main compares the answer with the value it has stored for the key.      *)
LEMMA ValidateStepTest == ASSUME TestAssumption, TestInv, ValidateStep PROVE TestInv'
<1>1. /\ Main \in Threads /\ phase = "validate" /\ Step(Main) /\ idx \in [Threads -> Nat]
  <2>1. Main \in Threads
    BY DEF TestAssumption, Main
  <2> QED BY <2>1 DEF TestInv, ValidateStep
<1>2. TableInv'
  BY <1>1, TableStep DEF TestInv
<1>3. /\ pc[Main] # "idle" /\ arg' = arg /\ \A t \in Threads \ {Main} : pc'[t] = pc[t]
      /\ pc[Main] = "ret" => pc' = [pc EXCEPT ![Main] = "idle"] /\ ~fault'
  BY <1>1, StepOnlyBusy
<1>4. /\ arg[Main].op = "lookup" /\ arg[Main].key = idx[Main]
      /\ \A t \in Threads \ {Main} : pc'[t] = "idle"
      /\ pc \in [Threads -> Pcs]
  BY <1>1, <1>3 DEF TestInv, Busy, TableInv, PointersAlways, PointerInv, TypeOK
<1>5. num_threads' \in ThreadCounts
  BY DEF ValidateStep, testVars, options, TestInv
<1>6. CASE pc[Main] # "ret"
  <2>1. UNCHANGED testVars
    BY <1>6 DEF ValidateStep
  <2>2. \A t \in Threads : pc'[t] # "idle" => Busy(t)'
    BY <2>1, <1>1, <1>3, <1>4 DEF Busy, testVars, Main
  <2> QED BY <2>1, <2>2, <1>1, <1>2, <1>5 DEF TestInv, testVars, ValuesBelong
<1>7. CASE pc[Main] = "ret" /\ loc[Main].ret = idx[Main]
  <2>1. /\ idx' = [idx EXCEPT ![Main] = @ + 1] /\ outcome' = outcome
        /\ phase' \in {"validate", "destroy"}
    BY <1>1, <1>7 DEF ValidateStep
  <2>2. \A t \in Threads : pc'[t] = "idle"
    BY <1>1, <1>3, <1>4, <1>7
  <2>3. idx' \in [Threads -> Nat]
    BY <1>1, <2>1
  <2> QED BY <2>1, <2>2, <2>3, <1>2, <1>3, <1>5, <1>7 DEF TestInv, ValuesBelong
<1>8. CASE pc[Main] = "ret" /\ loc[Main].ret # idx[Main]
  <2>1. CallAt("ret", loc[Main], arg[Main])
    BY <1>1, <1>8 DEF TestInv, TableInv, ValuesOK
  <2>2. loc[Main].ret = NULL
    BY <2>1, <1>4, <1>8 DEF CallAt
  <2>3. outcome' = "missing key" /\ phase' = "over" /\ idx' = idx
    BY <2>2, <1>8 DEF ValidateStep
  <2>4. \A t \in Threads : pc'[t] # "idle" => Busy(t)'
    BY <2>3 DEF Busy
  <2> QED BY <2>3, <2>4, <1>1, <1>2, <1>5 DEF TestInv, ValuesBelong
<1> QED BY <1>6, <1>7, <1>8

(* htable_destroy and htable_init by main, who is alone.                   *)
LEMMA FreshTest ==
    ASSUME TestAssumption, TestInv, Restart \/ NextTest PROVE TestInv'
<1>1. /\ FreshTable /\ phase \in {"destroy", "next"} /\ outcome' \in {"running", outcome}
      /\ allow_resize' \in {TRUE, allow_resize}
  BY DEF Restart, NextTest
<1>2. \A t \in Threads : pc[t] = "idle"
  BY <1>1 DEF TestInv, Busy
<1>3. pc = [t \in Threads |-> "idle"]
  <2>1. pc \in [Threads -> Pcs]
    BY DEF TestInv, TableInv, PointersAlways, PointerInv, TypeOK
  <2> QED BY <2>1, <1>2
<1>4. allow_resize \in BOOLEAN /\ AllowResize = BOOLEAN
  BY DEF TestAssumption, TestInv, TableInv, PointersAlways, PointerInv, TypeOK
<1>5. fault = FALSE
  <2>1. fault \in BOOLEAN /\ ~fault
    BY <1>1 DEF TestInv, TableInv, PointersAlways, PointerInv, TypeOK
  <2> QED BY <2>1
<1>6. Init'
  BY <1>1, <1>3, <1>4, <1>5 DEF Init, htable_init, FreshTable
<1>7. TableInv'
  BY <1>6, InitValues, PTL
<1>8. num_threads \in ThreadCounts /\ idx' = StartIdx /\ phase' = "threads"
      /\ UNCHANGED <<options, pc>>
  BY <1>1 DEF FreshTable, TestInv
<1>9. idx' \in [Threads -> Nat]
  BY <1>8, StartIsTyped
<1> QED BY <1>1, <1>2, <1>7, <1>8, <1>9 DEF TestInv, options, ValuesBelong

LEMMA NextTestInv == TestAssumption => (TestInv /\ [TNext]_allVars => TestInv')
<1> SUFFICES ASSUME TestAssumption, TestInv, [TNext]_allVars PROVE TestInv'
  OBVIOUS
<1>1. CASE UNCHANGED allVars
  <2>1. TableInv'
    BY <1>1, TableStill DEF TestInv, allVars
  <2>2. UNCHANGED <<pc, arg, fault, num_threads, phase, idx, outcome>>
    BY <1>1 DEF allVars, vars, frames, testVars, options
  <2> QED BY <2>1, <2>2 DEF TestInv, Busy, Workers, ValuesBelong
<1>2. ASSUME NEW t \in Workers, WorkerTurn(t) PROVE TestInv'
  BY <1>2, WorkerCall, WorkerTable DEF WorkerTurn
<1>3. CASE MainTurn
  BY <1>3, JoinTest, ValidateCallTest, ValidateStepTest, DestroyFaultTest, FreshTest,
     BetweenTest DEF MainTurn
<1> QED BY <1>1, <1>2, <1>3 DEF TNext, Over

(* For any shares of keys and threads, and however they race and resize,   *)
(* no lookup of the test gets a value that was stored with another key     *)
(* (testhash.c:50 and 112).                                                *)
THEOREM Values == TestAssumption => (TSpec => []ValuesBelong)
<1> SUFFICES ASSUME TestAssumption PROVE TSpec => []ValuesBelong
  OBVIOUS
<1>1. TInit => TestInv
  BY InitTest
<1>2. TestInv /\ [TNext]_allVars => TestInv'
  BY NextTestInv
<1>3. TestInv => ValuesBelong
  BY DEF TestInv
<1> QED BY <1>1, <1>2, <1>3, PTL DEF TSpec
-----------------------------------------------------------------------------
(* The shares of the test: how many keys each thread inserts.              *)
LEMMA Times ==
    ASSUME NEW a \in Nat, NEW b \in Nat, NEW d \in Nat, a <= b PROVE a * d <= b * d
<1>1. (b - a) * d >= 0 /\ (b - a) * d = b * d - a * d
  OBVIOUS
<1>2. a * d \in Int /\ b * d \in Int
  OBVIOUS
<1> QED BY <1>1, <1>2

LEMMA ShareSize ==
    ASSUME TestAssumption, num_threads \in ThreadCounts
    PROVE  /\ num_threads \in Nat \ {0} /\ TESTSZ \in Nat \ {0} /\ share \in Nat
           /\ num_threads * share <= TESTSZ
           /\ Workers = 0..(num_threads - 1) /\ Workers \subseteq Threads /\ Main \notin Workers
           /\ \A t \in Workers : end(t) \in Nat /\ t * share \in Nat /\ t * share <= end(t)
<1>1. /\ num_threads \in Nat \ {0} /\ TESTSZ \in Nat \ {0} /\ num_threads <= MaxThreads
      /\ MaxThreads \in Nat /\ Threads = 0..MaxThreads
  BY DEF TestAssumption
<1>2. TESTSZ \div num_threads \in Nat /\ num_threads * (TESTSZ \div num_threads) <= TESTSZ
  BY <1>1
<1>3. share \in Nat /\ num_threads * share <= TESTSZ
  BY <1>2 DEF share
<1>4. ASSUME NEW t \in 0..(num_threads - 1)
      PROVE  end(t) \in Nat /\ t * share \in Nat /\ t * share <= end(t)
  <2>1. t \in Nat /\ t + 1 \in Nat /\ t <= t + 1 /\ t <= num_threads
    BY <1>1
  <2>2. t * share <= (t + 1) * share /\ t * share <= num_threads * share
    BY <1>1, <1>3, <2>1, Times
  <2>3. t * share \in Nat /\ (t + 1) * share \in Nat /\ num_threads * share \in Nat
    BY <1>1, <1>3, <2>1
  <2> QED BY <1>1, <1>3, <2>2, <2>3 DEF end
<1> QED BY <1>1, <1>3, <1>4 DEF Workers, Main

LEMMA OneShare ==
    ASSUME TestAssumption, num_threads \in ThreadCounts, NEW k \in Keys
    PROVE  \E t \in Workers : {u \in Workers : u * share <= k /\ k < end(u)} = {t}
<1> DEFINE last == num_threads - 1
<1>1. /\ num_threads \in Nat \ {0} /\ share \in Nat /\ Workers = 0..last /\ TESTSZ \in Nat
      /\ k \in 0..(TESTSZ - 1) /\ last \in Nat
  BY ShareSize DEF TestAssumption
<1>2. \A u \in 0..last : end(u) = IF u = last THEN TESTSZ ELSE (u + 1) * share
  BY DEF end
<1> HIDE DEF last
<1>3. CASE last * share <= k
  <2>1. last \in Workers /\ k < end(last)
    BY <1>1, <1>2
  <2>2. ASSUME NEW u \in Workers, u # last PROVE ~(k < end(u))
    <3>1. u + 1 \in Nat /\ u + 1 <= last
      BY <1>1, <2>2
    <3>2. (u + 1) * share <= last * share
      BY <1>1, <3>1, Times
    <3>3. (u + 1) * share \in Nat /\ last * share \in Nat /\ end(u) = (u + 1) * share
      BY <1>1, <1>2, <2>2, <3>1
    <3> QED BY <1>1, <1>3, <3>2, <3>3
  <2> QED BY <1>3, <2>1, <2>2
<1>4. CASE ~(last * share <= k)
  <2> DEFINE t == k \div share
  <2>1. share # 0
    BY <1>1, <1>4
  <2>2. t \in Nat /\ t * share <= k /\ k < (t + 1) * share
    BY <1>1, <2>1
  <2> HIDE DEF t
  <2>3. t < last
    <3> SUFFICES ASSUME last <= t PROVE FALSE
      BY <1>1, <2>2
    <3>1. last * share <= t * share
      BY <1>1, <2>2, Times
    <3>2. last * share \in Nat /\ t * share \in Nat
      BY <1>1, <2>2
    <3> QED BY <1>1, <1>4, <2>2, <3>1, <3>2
  <2>4. t \in Workers /\ end(t) = (t + 1) * share
    BY <1>1, <1>2, <2>2, <2>3
  <2>5. ASSUME NEW u \in Workers, u # t, u * share <= k, k < end(u) PROVE FALSE
    <3>0. u \in Nat /\ u + 1 \in Nat /\ t + 1 \in Nat
      BY <1>1, <2>2
    <3>1. CASE t < u
      <4>1. (t + 1) * share <= u * share
        BY <1>1, <3>0, <3>1, <2>2, Times
      <4>2. (t + 1) * share \in Nat /\ u * share \in Nat
        BY <1>1, <3>0
      <4> QED BY <1>1, <2>2, <2>5, <4>1, <4>2
    <3>2. CASE u < t
      <4>1. (u + 1) * share <= t * share /\ end(u) = (u + 1) * share
        BY <1>1, <1>2, <2>2, <2>3, <3>0, <3>2, Times
      <4>2. (u + 1) * share \in Nat /\ t * share \in Nat
        BY <1>1, <2>2, <3>0
      <4> QED BY <1>1, <2>2, <2>5, <4>1, <4>2
    <3> QED BY <2>2, <2>5, <3>0, <3>1, <3>2
  <2> QED BY <2>2, <2>4, <2>5
<1> QED BY <1>3, <1>4

(* Where the loops of the workers are.                                     *)
ShareInv ==
    /\ num_threads \in ThreadCounts
    /\ idx \in [Threads -> Nat] /\ second \in [Threads -> BOOLEAN]
    /\ \A t \in Workers : /\ t * share <= idx[t] /\ idx[t] <= end(t)
                          /\ second[t] => idx[t] < end(t)
    /\ phase \notin {"threads", "over"} => \A t \in Workers : ~second[t]
    /\ phase \in {"validate", "destroy"} => \A t \in Workers : idx[t] = end(t)

LEMMA StartShares ==
    ASSUME TestAssumption, num_threads \in ThreadCounts
    PROVE  /\ StartIdx \in [Threads -> Nat]
           /\ \A t \in Workers : t * share <= StartIdx[t] /\ StartIdx[t] <= end(t)
<1>1. \A t \in Workers : StartIdx[t] = t * share
  BY ShareSize DEF StartIdx
<1> QED BY <1>1, ShareSize, StartIsTyped

LEMMA SameShares ==
    ASSUME TestAssumption, ShareInv, UNCHANGED <<num_threads, idx, second>>,
           phase' \notin {"threads", "over"} => \A t \in Workers : ~second[t],
           phase' \in {"validate", "destroy"} => \A t \in Workers : idx[t] = end(t)
    PROVE  ShareInv'
BY DEF ShareInv, Workers, share, end

LEMMA NextShares == TestAssumption => (ShareInv /\ [TNext]_allVars => ShareInv')
<1> SUFFICES ASSUME TestAssumption, ShareInv, [TNext]_allVars PROVE ShareInv'
  OBVIOUS
<1>0. /\ num_threads \in ThreadCounts /\ idx \in [Threads -> Nat] /\ second \in [Threads -> BOOLEAN]
      /\ Workers \subseteq Threads /\ Main \in Threads /\ Main \notin Workers
      /\ \A t \in Workers : end(t) \in Nat
  BY ShareSize DEF ShareInv, TestAssumption, Main
<1>1. CASE UNCHANGED allVars
  BY <1>1, SameShares DEF allVars, testVars, options, ShareInv
<1>2. ASSUME NEW t \in Workers, FirstCall(t) PROVE ShareInv'
  <2>1. /\ phase = "threads" /\ idx[t] < end(t) /\ second' = [second EXCEPT ![t] = TRUE]
        /\ UNCHANGED <<num_threads, phase, idx>>
    BY <1>2 DEF FirstCall, options
  <2>2. Workers' = Workers /\ share' = share /\ \A u : end(u)' = end(u)
    BY <2>1 DEF Workers, share, end
  <2>3. \A u \in Workers : second'[u] => idx[u] < end(u)
    BY <1>0, <2>1 DEF ShareInv
  <2>4. second' \in [Threads -> BOOLEAN]
    BY <1>0, <2>1
  <2> QED BY <2>1, <2>2, <2>3, <2>4 DEF ShareInv
<1>3. ASSUME NEW t \in Workers, SecondCall(t) PROVE ShareInv'
  <2>1. /\ phase = "threads" /\ second[t] /\ second' = [second EXCEPT ![t] = FALSE]
        /\ idx' = [idx EXCEPT ![t] = @ + 1] /\ UNCHANGED <<num_threads, phase>>
    BY <1>3 DEF SecondCall, options
  <2>2. Workers' = Workers /\ share' = share /\ \A u : end(u)' = end(u)
    BY <2>1 DEF Workers, share, end
  <2>3. second' \in [Threads -> BOOLEAN] /\ idx' \in [Threads -> Nat]
    BY <1>0, <2>1
  <2>4. ASSUME NEW u \in Workers
        PROVE  /\ u * share <= idx'[u] /\ idx'[u] <= end(u)
               /\ second'[u] => idx'[u] < end(u)
    <3>1. /\ u * share <= idx[u] /\ idx[u] <= end(u) /\ (second[u] => idx[u] < end(u))
          /\ idx[u] \in Nat /\ end(u) \in Nat /\ u * share \in Nat
      BY <1>0, ShareSize DEF ShareInv
    <3>2. CASE u = t
      <4>1. idx'[u] = idx[u] + 1 /\ ~second'[u]
        BY <1>0, <2>1, <3>2
      <4> QED BY <2>1, <3>1, <3>2, <4>1
    <3>3. CASE u # t
      <4>1. idx'[u] = idx[u] /\ second'[u] = second[u]
        BY <1>0, <2>1, <3>3
      <4> QED BY <3>1, <4>1
    <3> QED BY <3>2, <3>3
  <2> QED BY <2>1, <2>2, <2>3, <2>4, <1>0 DEF ShareInv
<1>4. ASSUME NEW t \in Workers, WorkerStep(t) PROVE ShareInv'
  <2>1. /\ phase = "threads" /\ UNCHANGED <<num_threads, idx, second>>
        /\ phase' \in {"over", "threads"}
    BY <1>4 DEF WorkerStep, options
  <2> QED BY <2>1, SameShares
<1>5. CASE Join
  <2>1. /\ UNCHANGED <<num_threads, idx, second>>
        /\ \A t \in Workers : ~second[t] /\ idx[t] >= end(t)
    BY <1>5 DEF Join, Joined, options
  <2>2. \A t \in Workers : idx[t] = end(t)
    BY <1>0, <2>1 DEF ShareInv
  <2> QED BY <2>1, <2>2, SameShares
<1>6. CASE ValidateCall
  BY <1>6, SameShares DEF ValidateCall, testVars, options, ShareInv
<1>7. CASE ValidateStep
  <2>0. phase = "validate"
    BY <1>7 DEF ValidateStep
  <2>1. CASE UNCHANGED testVars
    BY <2>1, SameShares DEF testVars, options, ShareInv
  <2>2. CASE ~UNCHANGED testVars
    <3>1. /\ UNCHANGED <<num_threads, second>> /\ phase' \in {"validate", "destroy", "over"}
          /\ idx' \in {idx, [idx EXCEPT ![Main] = @ + 1]}
      BY <1>7, <2>0, <2>2 DEF ValidateStep, options
    <3>2. idx' \in [Threads -> Nat] /\ \A t \in Workers : idx'[t] = idx[t]
      BY <1>0, <3>1
    <3> QED BY <2>0, <3>1, <3>2 DEF ShareInv, Workers, share, end
  <2> QED BY <2>1, <2>2
<1>8. CASE DestroyFault \/ Pass \/ RwlTests
  <2>1. /\ phase \in {"destroy", "rwl"} /\ phase' \in {"over", "rwl", "next"}
        /\ UNCHANGED <<num_threads, idx, second>>
    BY <1>8 DEF DestroyFault, Pass, RwlTests, options
  <2> QED BY <2>1, SameShares DEF ShareInv
<1>9. CASE Restart \/ NextTest
  <2>1. /\ phase \in {"destroy", "next"} /\ idx' = StartIdx /\ phase' = "threads"
        /\ UNCHANGED <<num_threads, second>>
    BY <1>9 DEF Restart, NextTest, FreshTable, options
  <2>2. Workers' = Workers /\ share' = share /\ \A u : end(u)' = end(u)
    BY <2>1 DEF Workers, share, end
  <2>3. /\ idx' \in [Threads -> Nat]
        /\ \A t \in Workers : t * share <= idx'[t] /\ idx'[t] <= end(t) /\ ~second'[t]
    BY <1>0, <2>1, StartShares DEF ShareInv
  <2> QED BY <1>0, <2>1, <2>2, <2>3 DEF ShareInv
<1> QED BY <1>1, <1>2, <1>3, <1>4, <1>5, <1>6, <1>7, <1>8, <1>9
        DEF TNext, WorkerTurn, MainTurn, Over

(* For any number of keys and of threads, when the threads are joined each *)
(* key is in the finished share of exactly one of them (testhash.c:51-56): *)
(* the loops skip no key and no two threads are given the same.            *)
THEOREM Shares == TestAssumption => (TSpec => []SharesCoverKeys)
<1> SUFFICES ASSUME TestAssumption PROVE TSpec => []SharesCoverKeys
  OBVIOUS
<1>1. TInit => ShareInv
  <2> SUFFICES ASSUME TInit PROVE ShareInv
    OBVIOUS
  <2>1. /\ num_threads \in ThreadCounts /\ idx = StartIdx /\ phase \in {"threads", "rwl"}
        /\ second = [t \in Threads |-> FALSE]
    BY DEF TInit
  <2>2. \A t \in Workers : ~second[t]
    BY <2>1, ShareSize
  <2> QED BY <2>1, <2>2, StartShares DEF ShareInv
<1>2. ShareInv /\ [TNext]_allVars => ShareInv'
  BY NextShares
<1>3. ShareInv => SharesCoverKeys
  <2> SUFFICES ASSUME ShareInv, phase \in {"validate", "destroy"}, NEW k \in Keys
               PROVE  \E t \in Workers :
                         {u \in Workers : u * share <= k /\ k < idx[u]} = {t}
    BY DEF SharesCoverKeys
  <2>1. \A u \in Workers : idx[u] = end(u)
    BY DEF ShareInv
  <2>2. PICK t \in Workers : {u \in Workers : u * share <= k /\ k < end(u)} = {t}
    BY OneShare DEF ShareInv
  <2> QED BY <2>1, <2>2
<1> QED BY <1>1, <1>2, <1>3, PTL DEF TSpec
-----------------------------------------------------------------------------
(***************************************************************************)
(* One thread and any resizing (Threads = {t}).                            *)
(***************************************************************************)

(* What the lists lead to is the least set that has their heads and is     *)
(* closed under the links.                                                 *)
LEMMA ReachedIn ==
    ASSUME NEW f, NEW P, NEW S \in SUBSET NodeId, P \ {NULL} \subseteq S, ClosedIn(f, S)
    PROVE  Reached(f, P) \subseteq S
BY DEF Reached

LEMMA ReachedHas ==
    ASSUME NEW f, Links(f), NEW P \in SUBSET Ptr
    PROVE  /\ Reached(f, P) \subseteq NodeId /\ P \ {NULL} \subseteq Reached(f, P)
           /\ ClosedIn(f, Reached(f, P))
<1>1. Reached(f, P) \subseteq NodeId
  BY DEF Reached
<1>2. P \ {NULL} \subseteq Reached(f, P)
  BY DEF Reached, Ptr
<1>3. ASSUME NEW m \in Reached(f, P), f[m].next # NULL PROVE f[m].next \in Reached(f, P)
  <2>1. f[m].next \in NodeId
    BY <1>1, <1>3 DEF Links, Ptr
  <2>2. ASSUME NEW S \in SUBSET NodeId, P \ {NULL} \subseteq S, ClosedIn(f, S)
        PROVE  f[m].next \in S
    BY <1>3, <2>2 DEF Reached, ClosedIn
  <2> QED BY <2>1, <2>2 DEF Reached
<1> QED BY <1>1, <1>2, <1>3 DEF ClosedIn

LEMMA ReachedNull == ASSUME NEW f PROVE Reached(f, {NULL}) = {}
<1>1. {} \in SUBSET NodeId /\ {NULL} \ {NULL} \subseteq {} /\ ClosedIn(f, {})
  BY DEF ClosedIn
<1> QED BY <1>1, ReachedIn

LEMMA ReachedOne ==
    ASSUME NEW f, Links(f), NEW c \in NodeId
    PROVE  Reached(f, {c}) \subseteq {c} \cup Reached(f, {f[c].next})
<1> DEFINE R == Reached(f, {f[c].next})
<1>1. {f[c].next} \in SUBSET Ptr
  BY DEF Links
<1>2. R \subseteq NodeId /\ {f[c].next} \ {NULL} \subseteq R /\ ClosedIn(f, R)
  BY <1>1, ReachedHas
<1> HIDE DEF R
<1>3. {c} \cup R \in SUBSET NodeId /\ {c} \ {NULL} \subseteq {c} \cup R
  BY <1>2
<1>4. ClosedIn(f, {c} \cup R)
  BY <1>2 DEF ClosedIn
<1> QED BY <1>3, <1>4, ReachedIn DEF R

(* What two sets of heads lead to, and heads that are NULL.                *)
LEMMA ReachedUnion ==
    ASSUME NEW f, Links(f), NEW P \in SUBSET Ptr, NEW Q \in SUBSET Ptr
    PROVE  Reached(f, P \cup Q) = Reached(f, P) \cup Reached(f, Q)
<1>1. /\ Reached(f, P) \subseteq NodeId /\ P \ {NULL} \subseteq Reached(f, P)
      /\ ClosedIn(f, Reached(f, P))
  BY ReachedHas
<1>2. /\ Reached(f, Q) \subseteq NodeId /\ Q \ {NULL} \subseteq Reached(f, Q)
      /\ ClosedIn(f, Reached(f, Q))
  BY ReachedHas
<1>3. P \cup Q \in SUBSET Ptr
  OBVIOUS
<1>4. /\ Reached(f, P \cup Q) \subseteq NodeId /\ (P \cup Q) \ {NULL} \subseteq Reached(f, P \cup Q)
      /\ ClosedIn(f, Reached(f, P \cup Q))
  BY <1>3, ReachedHas
<1> DEFINE A == Reached(f, P)
           B == Reached(f, Q)
           C == Reached(f, P \cup Q)
<1>5. C \subseteq A \cup B
  <2>1. A \cup B \in SUBSET NodeId /\ (P \cup Q) \ {NULL} \subseteq A \cup B
    BY <1>1, <1>2
  <2>2. ClosedIn(f, A \cup B)
    BY <1>1, <1>2 DEF ClosedIn
  <2> HIDE DEF A, B
  <2> QED BY <2>1, <2>2, ReachedIn
<1>6. A \subseteq C
  BY <1>4, ReachedIn
<1>7. B \subseteq C
  BY <1>4, ReachedIn
<1> HIDE DEF A, B, C
<1>8. C = A \cup B
  BY <1>5, <1>6, <1>7
<1> QED BY <1>8 DEF A, B, C

LEMMA ReachedNonNull ==
    ASSUME NEW f, NEW P, NEW Q, P \ {NULL} = Q \ {NULL}
    PROVE  Reached(f, P) = Reached(f, Q)
BY DEF Reached

(* Links that differ elsewhere lead to the same nodes.                     *)
LEMMA ReachedSame ==
    ASSUME NEW f, Links(f), NEW g, Links(g), NEW P \in SUBSET Ptr,
           \A m \in Reached(f, P) : g[m].next = f[m].next
    PROVE  Reached(g, P) = Reached(f, P)
<1>1. /\ Reached(f, P) \subseteq NodeId /\ P \ {NULL} \subseteq Reached(f, P)
      /\ ClosedIn(f, Reached(f, P))
  BY ReachedHas
<1>2. /\ Reached(g, P) \subseteq NodeId /\ P \ {NULL} \subseteq Reached(g, P)
      /\ ClosedIn(g, Reached(g, P))
  BY ReachedHas
<1>3. ClosedIn(g, Reached(f, P))
  BY <1>1 DEF ClosedIn
<1>4. Reached(g, P) \subseteq Reached(f, P)
  BY <1>1, <1>3, ReachedIn
<1>5. ClosedIn(f, Reached(g, P))
  BY <1>2, <1>4 DEF ClosedIn
<1>6. Reached(f, P) \subseteq Reached(g, P)
  BY <1>2, <1>5, ReachedIn
<1> QED BY <1>4, <1>6

(* Without a ring, no node is among those it leads to.                     *)
LEMMA NoWayBack ==
    ASSUME NEW f, Links(f), NoRing(f), NEW c \in NodeId
    PROVE  c \notin Reached(f, {f[c].next})
<1> SUFFICES ASSUME c \in Reached(f, {f[c].next}) PROVE FALSE
  OBVIOUS
<1> DEFINE S == {m \in NodeId : c \in Reached(f, {m})}
<1>1. f[c].next # NULL
  BY ReachedNull
<1>2. c \in S
  <2>1. {c} \in SUBSET Ptr /\ c # NULL
    BY NullNotNode DEF Ptr
  <2>2. {c} \ {NULL} \subseteq Reached(f, {c})
    BY <2>1, ReachedHas
  <2> QED BY <2>1, <2>2
<1>3. ASSUME NEW m \in S PROVE f[m].next \in S
  <2>1. f[m].next \in Ptr /\ m \in NodeId /\ c \in Reached(f, {m})
    BY DEF Links
  <2>2. c \in Reached(f, {f[m].next})
    <3>1. CASE m = c
      BY <3>1
    <3>2. CASE m # c
      BY <3>2, <2>1, ReachedOne
    <3> QED BY <3>1, <3>2
  <2>3. f[m].next # NULL
    BY <2>2, ReachedNull
  <2> QED BY <2>1, <2>2, <2>3 DEF Ptr
<1>4. S \in SUBSET NodeId /\ S # {}
  BY <1>2
<1> HIDE DEF S
<1> QED BY <1>3, <1>4 DEF NoRing

(* A new link from c into a closed set without c ties no ring.             *)
LEMMA NoRingLink ==
    ASSUME NEW f, NoRing(f), NEW c \in NodeId, NEW g,
           \A m \in NodeId \ {c} : g[m].next = f[m].next,
           NEW R \in SUBSET NodeId, ClosedIn(f, R), c \notin R,
           g[c].next \in R \cup {NULL}
    PROVE  NoRing(g)
<1> SUFFICES ASSUME NEW S \in SUBSET NodeId, S # {}, \A m \in S : g[m].next \in S
             PROVE  FALSE
  BY DEF NoRing
<1>1. NULL \notin S
  BY NullNotNode
<1>2. CASE c \notin S
  BY <1>2 DEF NoRing
<1>3. CASE c \in S
  <2>1. g[c].next \in S \cap R
    BY <1>1, <1>3
  <2>2. ASSUME NEW m \in S \cap R PROVE f[m].next \in S \cap R
    <3>1. f[m].next = g[m].next /\ f[m].next \in R \cup {NULL}
      BY DEF ClosedIn
    <3> QED BY <3>1, <1>1
  <2>3. S \cap R \in SUBSET NodeId /\ S \cap R # {}
    BY <2>1
  <2> QED BY <2>2, <2>3 DEF NoRing
<1> QED BY <1>2, <1>3
-----------------------------------------------------------------------------
(* The heads of a table, and what can be done to it.                       *)
HeadsOf(elt, n) == {elt[s] : s \in Slots(n)}

LEMMA TableParts ==
    ASSUME NEW f, NEW e, NEW n, NEW L, TableOf(f, e, n, L), Links(f)
    PROVE  /\ n \in Nat \ {0} /\ e \in [Slots(n) -> Ptr] /\ HeadsOf(e, n) \in SUBSET Ptr
           /\ L \in SUBSET NodeId /\ HeadsOf(e, n) \ {NULL} \subseteq L /\ ClosedIn(f, L)
           /\ \A m \in L : SlotIn(f, n, m) \in Slots(n)
<1>1. HeadsOf(e, n) \in SUBSET Ptr
  BY DEF TableOf, HeadsOf
<1>2. L = Reached(f, HeadsOf(e, n))
  BY DEF TableOf, HeadsOf
<1>3. ASSUME NEW m \in L PROVE SlotIn(f, n, m) \in Slots(n)
  <2>1. n \in Nat \ {0} /\ f[m].key \in Keys
    BY DEF TableOf
  <2>2. hashcode[f[m].key] \in Nat
    BY <2>1, HashAssumption
  <2> QED BY <2>1, <2>2, SlotInRange DEF SlotIn
<1> QED BY <1>1, <1>2, <1>3, ReachedHas DEF TableOf

(* Nothing is chained in the slot of another.                              *)
LEMMA InSlot ==
    ASSUME NEW f, NEW e, NEW n, NEW L, TableOf(f, e, n, L), Links(f), NEW s \in Slots(n)
    PROVE  \A m \in Reached(f, {e[s]}) : m \in L /\ SlotIn(f, n, m) = s
<1> DEFINE S == {m \in L : SlotIn(f, n, m) = s}
<1>1. /\ e \in [Slots(n) -> Ptr] /\ L \in SUBSET NodeId
      /\ HeadsOf(e, n) \ {NULL} \subseteq L /\ ClosedIn(f, L)
  BY TableParts
<1>2. {e[s]} \ {NULL} \subseteq S
  BY <1>1 DEF HeadsOf, TableOf
<1>3. ClosedIn(f, S)
  BY <1>1 DEF ClosedIn, TableOf
<1>4. S \in SUBSET NodeId
  BY <1>1
<1> HIDE DEF S
<1>5. Reached(f, {e[s]}) \subseteq S
  BY <1>2, <1>3, <1>4, ReachedIn
<1> QED BY <1>5 DEF S

(* A node is found in the slot of its key.                                 *)
LEMMA FromSlot ==
    ASSUME NEW f, NEW e, NEW n, NEW L, TableOf(f, e, n, L), Links(f), NEW m \in L
    PROVE  m \in Reached(f, {e[SlotIn(f, n, m)]})
<1> DEFINE S == {x \in L : x \in Reached(f, {e[SlotIn(f, n, x)]})}
<1>1. /\ e \in [Slots(n) -> Ptr] /\ L \in SUBSET NodeId
      /\ HeadsOf(e, n) \ {NULL} \subseteq L /\ ClosedIn(f, L)
      /\ \A x \in L : SlotIn(f, n, x) \in Slots(n)
  BY TableParts
<1>2. ASSUME NEW s \in Slots(n)
      PROVE  {e[s]} \ {NULL} \subseteq Reached(f, {e[s]}) /\ ClosedIn(f, Reached(f, {e[s]}))
  <2>1. {e[s]} \in SUBSET Ptr
    BY <1>1
  <2> QED BY <2>1, ReachedHas
<1>3. HeadsOf(e, n) \ {NULL} \subseteq S
  <2> SUFFICES ASSUME NEW s \in Slots(n), e[s] # NULL PROVE e[s] \in S
    BY DEF HeadsOf
  <2>1. e[s] \in L /\ SlotIn(f, n, e[s]) = s
    BY <1>1 DEF TableOf, HeadsOf
  <2>2. e[s] \in Reached(f, {e[s]})
    BY <1>2
  <2> QED BY <2>1, <2>2
<1>4. ClosedIn(f, S)
  <2> SUFFICES ASSUME NEW x \in S, f[x].next # NULL PROVE f[x].next \in S
    BY DEF ClosedIn
  <2> DEFINE s == SlotIn(f, n, x)
             y == f[x].next
  <2>1. x \in L /\ x \in Reached(f, {e[s]}) /\ s \in Slots(n)
    BY <1>1
  <2>2. y \in L /\ SlotIn(f, n, y) = s
    BY <2>1, <1>1 DEF ClosedIn, TableOf
  <2>3. y \in Reached(f, {e[s]})
    <3> HIDE DEF s
    <3> QED BY <2>1, <1>2 DEF ClosedIn
  <2> QED BY <2>2, <2>3
<1>5. S \in SUBSET NodeId
  BY <1>1
<1>6. Reached(f, HeadsOf(e, n)) = L
  BY DEF TableOf, HeadsOf
<1> HIDE DEF S
<1>7. Reached(f, HeadsOf(e, n)) \subseteq S
  BY <1>3, <1>4, <1>5, ReachedIn
<1>8. m \in S
  BY <1>6, <1>7
<1> QED BY <1>8 DEF S

(* A table is made of its least set.                                       *)
LEMMA MakeTable ==
    ASSUME NEW f, Links(f), NEW n \in Nat \ {0}, NEW e \in [Slots(n) -> Ptr],
           NEW L \in SUBSET NodeId, Reached(f, HeadsOf(e, n)) = L,
           \A m \in L : /\ f[m].key \in Keys
                        /\ f[m].next # NULL => SlotIn(f, n, f[m].next) = SlotIn(f, n, m),
           \A s \in Slots(n) : e[s] # NULL => SlotIn(f, n, e[s]) = s
    PROVE  TableOf(f, e, n, L)
BY DEF TableOf, HeadsOf

(* Nodes of other tables are written.                                      *)
LEMMA TableFrame ==
    ASSUME NEW f, NEW e, NEW n, NEW L, TableOf(f, e, n, L), Links(f),
           NEW g, Links(g),
           \A m \in L : g[m].next = f[m].next /\ g[m].key = f[m].key
    PROVE  TableOf(g, e, n, L)
<1> DEFINE H == HeadsOf(e, n)
<1>1. /\ n \in Nat \ {0} /\ e \in [Slots(n) -> Ptr] /\ H \in SUBSET Ptr
      /\ L \in SUBSET NodeId /\ H \ {NULL} \subseteq L /\ ClosedIn(f, L)
  BY TableParts
<1>2. Reached(f, H) = L
  BY DEF TableOf, HeadsOf
<1>3. Reached(g, H) = L
  <2> HIDE DEF H
  <2> QED BY <1>1, <1>2, ReachedSame
<1>4. \A m \in L : SlotIn(g, n, m) = SlotIn(f, n, m)
  BY DEF SlotIn
<1>5. ASSUME NEW m \in L, g[m].next # NULL
      PROVE  SlotIn(g, n, g[m].next) = SlotIn(g, n, m)
  <2>1. f[m].next \in L /\ g[m].next = f[m].next
    BY <1>1, <1>5 DEF ClosedIn
  <2> QED BY <2>1, <1>4, <1>5 DEF TableOf
<1>6. ASSUME NEW s \in Slots(n), e[s] # NULL PROVE SlotIn(g, n, e[s]) = s
  <2>1. e[s] \in L
    BY <1>1, <1>6 DEF HeadsOf
  <2> QED BY <2>1, <1>4, <1>6 DEF TableOf
<1>7. \A m \in L : g[m].key \in Keys
  BY DEF TableOf
<1> QED BY <1>1, <1>3, <1>5, <1>6, <1>7, MakeTable

(* A table of empty slots.                                                 *)
LEMMA EmptyTable ==
    ASSUME NEW f, Links(f), NEW n \in Nat \ {0}, NEW e \in [Slots(n) -> Ptr],
           \A s \in Slots(n) : e[s] = NULL
    PROVE  TableOf(f, e, n, {}) /\ \A L : TableOf(f, e, n, L) => L = {}
<1>1. HeadsOf(e, n) \ {NULL} \subseteq {} /\ ClosedIn(f, {}) /\ {} \in SUBSET NodeId
  BY DEF HeadsOf, ClosedIn
<1>2. Reached(f, HeadsOf(e, n)) = {}
  BY <1>1, ReachedIn
<1>3. TableOf(f, e, n, {})
  BY <1>1, <1>2, MakeTable
<1>4. \A L : TableOf(f, e, n, L) => L = {}
  BY <1>2 DEF TableOf, HeadsOf
<1> QED BY <1>3, <1>4

(* The head of a slot is taken off its chain.                              *)
LEMMA TakeHead ==
    ASSUME NEW f, NEW e, NEW n, NEW L, TableOf(f, e, n, L), Links(f), NoRing(f),
           NEW s \in Slots(n), e[s] # NULL,
           NEW d, d = [e EXCEPT ![s] = f[e[s]].next]
    PROVE  e[s] \in L /\ TableOf(f, d, n, L \ {e[s]})
<1> DEFINE c == e[s]
           y == f[c].next
           H == HeadsOf(e, n)
           D == HeadsOf(d, n)
           K == L \ {c}
<1>1. /\ n \in Nat \ {0} /\ e \in [Slots(n) -> Ptr] /\ H \in SUBSET Ptr
      /\ L \in SUBSET NodeId /\ H \ {NULL} \subseteq L /\ ClosedIn(f, L)
  BY TableParts
<1>2. c \in L /\ c \in NodeId /\ y \in Ptr /\ y \in L \cup {NULL}
  BY <1>1 DEF HeadsOf, Links, ClosedIn
<1>3. d \in [Slots(n) -> Ptr] /\ d[s] = y /\ \A x \in Slots(n) \ {s} : d[x] = e[x]
  BY <1>1, <1>2
<1>4. SlotIn(f, n, c) = s /\ (y # NULL => SlotIn(f, n, y) = s)
  BY <1>2 DEF TableOf
<1>5. D \in SUBSET Ptr /\ D \ {NULL} \subseteq L
  BY <1>1, <1>2, <1>3 DEF HeadsOf
<1> DEFINE R == Reached(f, D)
           Y == Reached(f, {y})
<1>6. R \subseteq NodeId /\ D \ {NULL} \subseteq R /\ ClosedIn(f, R)
  <2> HIDE DEF D
  <2> QED BY <1>5, ReachedHas
<1>7. Y \subseteq NodeId /\ {y} \ {NULL} \subseteq Y /\ ClosedIn(f, Y)
  <2>1. {y} \in SUBSET Ptr
    BY <1>2
  <2> HIDE DEF y
  <2> QED BY <2>1, ReachedHas
<1>8. c \notin Y
  BY <1>2, NoWayBack
<1>9. R \subseteq L
  <2> HIDE DEF D
  <2> QED BY <1>1, <1>5, ReachedIn
<1>10. c \notin R
  <2> DEFINE S == Y \cup {m \in L : SlotIn(f, n, m) # s}
  <2>1. S \in SUBSET NodeId
    BY <1>1, <1>7
  <2>2. D \ {NULL} \subseteq S
    <3> SUFFICES ASSUME NEW x \in Slots(n), d[x] # NULL PROVE d[x] \in S
      BY DEF HeadsOf
    <3>1. CASE x = s
      BY <3>1, <1>3, <1>7
    <3>2. CASE x # s
      <4>1. d[x] = e[x] /\ e[x] \in L /\ SlotIn(f, n, e[x]) = x
        BY <3>2, <1>1, <1>3 DEF HeadsOf, TableOf
      <4> QED BY <4>1, <3>2
    <3> QED BY <3>1, <3>2
  <2>3. ClosedIn(f, S)
    <3> SUFFICES ASSUME NEW m \in S, f[m].next # NULL PROVE f[m].next \in S
      BY DEF ClosedIn
    <3>1. CASE m \in Y
      BY <3>1, <1>7 DEF ClosedIn
    <3>2. CASE m \in L /\ SlotIn(f, n, m) # s
      <4>1. f[m].next \in L /\ SlotIn(f, n, f[m].next) = SlotIn(f, n, m)
        BY <3>2, <1>1 DEF ClosedIn, TableOf
      <4> QED BY <4>1, <3>2
    <3> QED BY <3>1, <3>2
  <2>4. c \notin S
    BY <1>4, <1>8
  <2> HIDE DEF S, D
  <2>5. R \subseteq S
    BY <2>1, <2>2, <2>3, ReachedIn
  <2> QED BY <2>4, <2>5
<1>11. y \in R \cup {NULL}
  BY <1>3, <1>6 DEF HeadsOf
<1>12. L \subseteq R \cup {c}
  <2>1. H \ {NULL} \subseteq R \cup {c}
    BY <1>3, <1>6 DEF HeadsOf
  <2>2. ClosedIn(f, R \cup {c})
    BY <1>6, <1>11 DEF ClosedIn
  <2>3. R \cup {c} \in SUBSET NodeId
    BY <1>2, <1>6
  <2>4. Reached(f, H) = L
    BY DEF TableOf, HeadsOf
  <2> HIDE DEF R, H, c
  <2> QED BY <2>1, <2>2, <2>3, <2>4, ReachedIn
<1>13. R = K /\ K \in SUBSET NodeId
  BY <1>1, <1>9, <1>10, <1>12
<1>14. \A m \in K : /\ f[m].key \in Keys
                    /\ f[m].next # NULL => SlotIn(f, n, f[m].next) = SlotIn(f, n, m)
  BY DEF TableOf
<1>15. \A x \in Slots(n) : d[x] # NULL => SlotIn(f, n, d[x]) = x
  BY <1>3, <1>4 DEF TableOf
<1> HIDE DEF K
<1>16. TableOf(f, d, n, K)
  BY <1>1, <1>3, <1>13, <1>14, <1>15, MakeTable
<1> QED BY <1>2, <1>16 DEF K

(* A node is put before the others of its slot.                            *)
LEMMA PutHead ==
    ASSUME NEW f, NEW e, NEW n, NEW L, TableOf(f, e, n, L), Links(f),
           NEW c \in NodeId, c \notin L, NEW g, Links(g),
           \A m \in NodeId \ {c} : g[m].next = f[m].next /\ g[m].key = f[m].key,
           g[c].key \in Keys, NEW s, s = SlotIn(g, n, c), g[c].next = e[s],
           NEW d, d = [e EXCEPT ![s] = c]
    PROVE  TableOf(g, d, n, L \cup {c})
<1> DEFINE H == HeadsOf(e, n)
           D == HeadsOf(d, n)
           K == L \cup {c}
           R == Reached(g, D)
<1>1. /\ n \in Nat \ {0} /\ e \in [Slots(n) -> Ptr] /\ H \in SUBSET Ptr
      /\ L \in SUBSET NodeId /\ H \ {NULL} \subseteq L /\ ClosedIn(f, L)
  BY TableParts
<1>2. s \in Slots(n)
  <2>1. hashcode[g[c].key] \in Nat
    BY HashAssumption
  <2> QED BY <2>1, <1>1, SlotInRange DEF SlotIn
<1>3. d \in [Slots(n) -> Ptr] /\ d[s] = c /\ \A x \in Slots(n) \ {s} : d[x] = e[x]
  BY <1>1, <1>2 DEF Ptr
<1>4. \A m \in L : g[m].next = f[m].next /\ g[m].key = f[m].key /\ SlotIn(g, n, m) = SlotIn(f, n, m)
  BY <1>1 DEF SlotIn
<1>5. e[s] \in L \cup {NULL} /\ (e[s] # NULL => SlotIn(f, n, e[s]) = s)
  BY <1>1, <1>2 DEF HeadsOf, TableOf
<1>6. K \in SUBSET NodeId /\ D \in SUBSET Ptr /\ D \ {NULL} \subseteq K /\ ClosedIn(g, K)
  <2>1. D \in SUBSET Ptr /\ D \ {NULL} \subseteq K
    BY <1>1, <1>3 DEF HeadsOf
  <2>2. ClosedIn(g, K)
    BY <1>1, <1>4, <1>5 DEF ClosedIn
  <2> QED BY <1>1, <2>1, <2>2
<1>7. R \subseteq NodeId /\ D \ {NULL} \subseteq R /\ ClosedIn(g, R)
  <2> HIDE DEF D
  <2> QED BY <1>6, ReachedHas
<1>8. R \subseteq K
  <2> HIDE DEF D, K
  <2> QED BY <1>6, ReachedIn
<1>9. c \in R
  BY <1>2, <1>3, <1>7, NullNotNode DEF HeadsOf
<1>10. L \subseteq R
  <2>1. e[s] \in R \cup {NULL}
    BY <1>7, <1>9 DEF ClosedIn
  <2>2. H \ {NULL} \subseteq R \cap L
    BY <1>1, <1>3, <1>7, <2>1 DEF HeadsOf
  <2>3. ClosedIn(f, R \cap L)
    BY <1>1, <1>4, <1>7 DEF ClosedIn
  <2>4. R \cap L \in SUBSET NodeId /\ Reached(f, H) = L
    BY <1>1 DEF TableOf, HeadsOf
  <2> HIDE DEF R, H
  <2>5. L \subseteq R \cap L
    BY <2>2, <2>3, <2>4, ReachedIn
  <2> QED BY <2>5
<1>11. R = K
  BY <1>8, <1>9, <1>10
<1>12. ASSUME NEW m \in K
       PROVE  /\ g[m].key \in Keys
              /\ g[m].next # NULL => SlotIn(g, n, g[m].next) = SlotIn(g, n, m)
  <2>1. CASE m = c
    BY <2>1, <1>4, <1>5
  <2>2. CASE m \in L
    <3>1. g[m].next \in L \cup {NULL}
      BY <2>2, <1>1, <1>4 DEF ClosedIn
    <3> QED BY <2>2, <3>1, <1>4 DEF TableOf
  <2> QED BY <2>1, <2>2
<1>13. \A x \in Slots(n) : d[x] # NULL => SlotIn(g, n, d[x]) = x
  <2> SUFFICES ASSUME NEW x \in Slots(n), d[x] # NULL PROVE SlotIn(g, n, d[x]) = x
    OBVIOUS
  <2>1. CASE x = s
    BY <2>1, <1>3
  <2>2. CASE x # s
    <3>1. d[x] = e[x] /\ e[x] \in L
      BY <2>2, <1>1, <1>3 DEF HeadsOf
    <3> QED BY <3>1, <1>4 DEF TableOf
  <2> QED BY <2>1, <2>2
<1> HIDE DEF K
<1>14. TableOf(g, d, n, K)
  BY <1>1, <1>3, <1>6, <1>11, <1>12, <1>13, MakeTable
<1> QED BY <1>14 DEF K

(* A node is linked behind the last one of its slot.                       *)
LEMMA LinkLast ==
    ASSUME NEW f, NEW e, NEW n, NEW L, TableOf(f, e, n, L), Links(f),
           NEW c \in NodeId, c \notin L, NEW p \in L, f[p].next = NULL,
           NEW g, Links(g), g[p].next = c, g[c].next = NULL,
           \A m \in NodeId \ {p} : g[m].next = f[m].next,
           \A m \in NodeId : g[m].key = f[m].key,
           g[c].key \in Keys, SlotIn(f, n, c) = SlotIn(f, n, p)
    PROVE  TableOf(g, e, n, L \cup {c})
<1> DEFINE H == HeadsOf(e, n)
           K == L \cup {c}
           R == Reached(g, H)
<1>1. /\ n \in Nat \ {0} /\ e \in [Slots(n) -> Ptr] /\ H \in SUBSET Ptr
      /\ L \in SUBSET NodeId /\ H \ {NULL} \subseteq L /\ ClosedIn(f, L)
  BY TableParts
<1>2. \A m \in NodeId : SlotIn(g, n, m) = SlotIn(f, n, m)
  BY DEF SlotIn
<1>3. K \in SUBSET NodeId /\ ClosedIn(g, K) /\ H \ {NULL} \subseteq K
  BY <1>1 DEF ClosedIn
<1>4. R \subseteq NodeId /\ H \ {NULL} \subseteq R /\ ClosedIn(g, R)
  <2> HIDE DEF H
  <2> QED BY <1>1, ReachedHas
<1>5. R \subseteq K
  <2> HIDE DEF H, K
  <2> QED BY <1>3, ReachedIn
<1>6. L \subseteq R
  <2>1. ClosedIn(f, R \cap L)
    <3> SUFFICES ASSUME NEW m \in R \cap L, f[m].next # NULL PROVE f[m].next \in R \cap L
      BY DEF ClosedIn
    <3>1. m # p /\ m \in NodeId
      BY <1>1
    <3> QED BY <3>1, <1>1, <1>4 DEF ClosedIn
  <2>2. R \cap L \in SUBSET NodeId /\ Reached(f, H) = L /\ H \ {NULL} \subseteq R \cap L
    BY <1>1, <1>4 DEF TableOf, HeadsOf
  <2> HIDE DEF R, H
  <2>3. L \subseteq R \cap L
    BY <2>1, <2>2, ReachedIn
  <2> QED BY <2>3
<1>7. c \in R
  BY <1>4, <1>6, NullNotNode DEF ClosedIn
<1>8. R = K
  BY <1>5, <1>6, <1>7
<1>9. ASSUME NEW m \in K
      PROVE  /\ g[m].key \in Keys
             /\ g[m].next # NULL => SlotIn(g, n, g[m].next) = SlotIn(g, n, m)
  <2>1. CASE m = c
    BY <2>1
  <2>2. CASE m = p
    BY <2>2, <1>1, <1>2 DEF TableOf
  <2>3. CASE m \in L \ {p}
    <3>1. g[m].next = f[m].next /\ g[m].key = f[m].key /\ m \in NodeId
      BY <2>3, <1>1
    <3>2. f[m].next \in L \cup {NULL}
      BY <2>3, <1>1 DEF ClosedIn
    <3> QED BY <2>3, <3>1, <3>2, <1>1, <1>2 DEF TableOf
  <2> QED BY <2>1, <2>2, <2>3
<1>10. \A x \in Slots(n) : e[x] # NULL => SlotIn(g, n, e[x]) = x
  BY <1>1, <1>2 DEF HeadsOf, TableOf
<1> HIDE DEF K, H
<1>11. Reached(g, HeadsOf(e, n)) = K
  BY <1>8 DEF H
<1>12. TableOf(g, e, n, K)
  BY <1>1, <1>3, <1>9, <1>10, <1>11, MakeTable
<1> QED BY <1>12 DEF K
-----------------------------------------------------------------------------
LinkPcs == {"link", "linkbase", "linkhead"}

LEMMA WalkedSame ==
    ASSUME UNCHANGED <<size, store, arrays, node, used>>, NEW l, NEW x, NEW c, WalkedAt(l, x, c)
    PROVE  WalkedAt(l, x, c)'
BY DEF WalkedAt

(* Outside the insert nothing is asked of its locals.                      *)
LEMMA WalkedFree ==
    ASSUME NEW l, l \notin InsertPcs, NEW x, NEW c
    PROVE  WalkedAt(l, x, c)'
BY DEF WalkedAt, InsertPcs

(* A step of a call that changes only its own locals.                      *)
LEMMA QuietSeq ==
    ASSUME NEW t \in Threads, SeqInv(t),
           pc[t] \in {"idle", "ret"} \cup InsertPcs,
           UNCHANGED <<table, rsz, fault>>, calls' \in [Threads -> 0..MaxCalls],
           NEW l \in {"idle", "ret"} \cup InsertPcs, NEW x, NEW c,
           x \in Local_, c \in Call_,
           pc' = [pc EXCEPT ![t] = l], loc' = [loc EXCEPT ![t] = x],
           arg' = [arg EXCEPT ![t] = c],
           l \in LinkPcs <=> pc[t] \in LinkPcs, WalkedAt(l, x, c)
    PROVE  SeqInv(t)'
<1>1. /\ UNCHANGED <<size, allow_resize, store, arrays, node, used>> /\ UNCHANGED rsz
      /\ UNCHANGED fault
  BY DEF table
<1>2. TypeOK /\ rsz[t] \in Resize_ /\ rsz = [rsz EXCEPT ![t] = rsz[t]] /\ ArraysTyped(arrays)
  BY TypeFacts DEF SeqInv
<1>3. l \in Pcs
  BY DEF Pcs, InsertPcs
<1>4. Goes(t, l, x, rsz[t], c)
  BY <1>1, <1>2, <1>3 DEF Goes
<1>5. TypeOK' /\ pc'[t] = l /\ loc'[t] = x /\ rsz'[t] = rsz[t] /\ arg'[t] = c
  BY <1>1, <1>2, <1>4, TypeStep DEF TypeOK
<1>6. Linking(t)' <=> Linking(t)
  BY <1>5 DEF Linking, LinkPcs
<1>7. Linked(t)' = Linked(t)
  BY <1>1, <1>6 DEF Linked
<1>8. ~Resizing(t) /\ ~Resizing(t)'
  BY <1>5 DEF Resizing, Moving, Swapping, InsertPcs
<1>9. NodesOK(t)'
  BY <1>1, <1>7 DEF SeqInv, NodesOK
<1>10. CalmOK(t)'
  BY <1>1, <1>7, <1>8 DEF SeqInv, CalmOK
<1>11. ResizeOK(t)'
  BY <1>8 DEF ResizeOK, Resizing
<1>12. WalkedAt(l, x, c)'
  BY <1>1, WalkedSame
<1>13. WalkedAt(pc[t], loc[t], arg[t])'
  BY <1>5, <1>12
<1> QED BY <1>1, <1>5, <1>9, <1>10, <1>11, <1>13 DEF SeqInv
-----------------------------------------------------------------------------
(* The steps of a call that only read.                                     *)
LEMMA CalmTable ==
    ASSUME NEW t, SeqInv(t), pc[t] \in InsertPcs
    PROVE  /\ TableOf(node, arrays[store].elt, size, Linked(t))
           /\ pc[t] \notin LinkPcs => Linked(t) = 1..used
           /\ pc[t] \in LinkPcs => Linked(t) = 1..(used - 1)
BY DEF SeqInv, CalmOK, Resizing, Moving, Swapping, InsertPcs, Linked, Linking, LinkPcs

LEMMA CallSeq ==
    ASSUME NEW t \in Threads, SeqInv(t), NEW op \in {"insert", "lookup"}, NEW k \in Keys,
           NEW v \in Vals \cup {NULL}, op = "insert" => v \in Vals, Call(t, op, k, v)
    PROVE  SeqInv(t)'
<1> DEFINE c == [op |-> op, key |-> k, val |-> v]
<1>1. /\ pc[t] = "idle" /\ arg' = [arg EXCEPT ![t] = c] /\ loc' = [loc EXCEPT ![t] = NoLocal]
      /\ calls' = [calls EXCEPT ![t] = @ + 1] /\ calls[t] < MaxCalls
      /\ pc' = [pc EXCEPT ![t] = "size"] /\ UNCHANGED <<table, rsz, fault>>
  BY DEF Call, SetLocal, Goto
<1>2. calls' \in [Threads -> 0..MaxCalls]
  BY <1>1, BoundAssumption DEF SeqInv, TypeOK
<1>3. c \in Call_ /\ c.op = op /\ c.key = k /\ c.val = v
  BY DEF Call_
<1>4. /\ NoLocal \in Local_ /\ NoLocal.prev = NULL /\ NoLocal.ret = NULL
  BY DEF NoLocal, Local_, Ptr
<1> HIDE DEF c
<1>5. WalkedAt("size", NoLocal, c)
  BY <1>3, <1>4 DEF WalkedAt
<1> QED BY <1>1, <1>2, <1>3, <1>4, <1>5, QuietSeq DEF InsertPcs, LinkPcs

LEMMA ReadSizeSeq ==
    ASSUME NEW t \in Threads, SeqInv(t), ReadSize(t)
    PROVE  SeqInv(t)'
<1> DEFINE l == loc[t]
           c == arg[t]
           s == hashcode[c.key] % size
           x == [l EXCEPT !.slot = s]
<1>1. /\ pc[t] = "size" /\ loc' = [loc EXCEPT ![t] = x]
      /\ pc' = [pc EXCEPT ![t] = "base"] /\ UNCHANGED <<table, arg, rsz, calls, fault>>
  BY DEF ReadSize, SetLocal, Goto
<1>2. l \in Local_ /\ c \in Call_ /\ arg = [arg EXCEPT ![t] = c] /\ size \in Nat \ {0}
  BY TypeFacts DEF SeqInv
<1>3. WalkedAt("size", l, c)
  BY <1>1 DEF SeqInv
<1>4. s \in Nat
  BY <1>2, <1>3, HashAssumption DEF WalkedAt, InsertPcs
<1>5. calls' \in [Threads -> 0..MaxCalls]
  BY <1>1 DEF SeqInv, TypeOK
<1> HIDE DEF s
<1>6. x \in Local_ /\ x.slot = s /\ x.prev = l.prev /\ x.ret = l.ret
  BY <1>2, <1>4 DEF Local_
<1> HIDE DEF l, c, x
<1>7. WalkedAt("base", x, c)
  BY <1>3, <1>6 DEF WalkedAt, InsertPcs, s
<1> QED BY <1>1, <1>2, <1>5, <1>6, <1>7, QuietSeq DEF InsertPcs, LinkPcs

LEMMA ReadBaseSeq ==
    ASSUME NEW t \in Threads, SeqInv(t), ExchangeInv, ReadBase(t)
    PROVE  SeqInv(t)'
<1> DEFINE l == loc[t]
           c == arg[t]
           x == [l EXCEPT !.base = store]
<1>1. /\ pc[t] = "base" /\ loc' = [loc EXCEPT ![t] = x]
      /\ pc' = [pc EXCEPT ![t] = "head"] /\ UNCHANGED <<table, arg, rsz, calls, fault>>
  BY DEF ReadBase, SetLocal, Goto
<1>2. l \in Local_ /\ c \in Call_ /\ arg = [arg EXCEPT ![t] = c]
  BY TypeFacts DEF SeqInv
<1>3. WalkedAt("base", l, c)
  BY <1>1 DEF SeqInv
<1>4. calls' \in [Threads -> 0..MaxCalls]
  BY <1>1 DEF SeqInv, TypeOK
<1>5. x \in Local_ /\ x.base = store /\ x.prev = l.prev /\ x.ret = l.ret /\ x.slot = l.slot
  BY <1>2, ArrayNumbers DEF Local_
<1> HIDE DEF l, c, x
<1>6. WalkedAt("head", x, c)
  BY <1>3, <1>5 DEF WalkedAt, InsertPcs
<1> QED BY <1>1, <1>2, <1>4, <1>5, <1>6, QuietSeq DEF InsertPcs, LinkPcs

LEMMA ReadBaseToLinkSeq ==
    ASSUME NEW t \in Threads, SeqInv(t), ExchangeInv, ReadBaseToLink(t)
    PROVE  SeqInv(t)'
<1> DEFINE l == loc[t]
           c == arg[t]
           x == [l EXCEPT !.base = store]
<1>1. /\ pc[t] = "linkbase" /\ loc' = [loc EXCEPT ![t] = x]
      /\ pc' = [pc EXCEPT ![t] = "linkhead"] /\ UNCHANGED <<table, arg, rsz, calls, fault>>
  BY DEF ReadBaseToLink, SetLocal, Goto
<1>2. l \in Local_ /\ c \in Call_ /\ arg = [arg EXCEPT ![t] = c]
  BY TypeFacts DEF SeqInv
<1>3. WalkedAt("linkbase", l, c)
  BY <1>1 DEF SeqInv
<1>4. calls' \in [Threads -> 0..MaxCalls]
  BY <1>1 DEF SeqInv, TypeOK
<1>5. /\ x \in Local_ /\ x.base = store /\ x.prev = l.prev /\ x.ret = l.ret
      /\ x.slot = l.slot /\ x.n = l.n
  BY <1>2, ArrayNumbers DEF Local_
<1> HIDE DEF l, c, x
<1>6. WalkedAt("linkhead", x, c)
  BY <1>3, <1>5 DEF WalkedAt, InsertPcs
<1> QED BY <1>1, <1>2, <1>4, <1>5, <1>6, QuietSeq DEF InsertPcs, LinkPcs

(* The slot's chain has every node of the key.                             *)
LEMMA ReadHeadSeq ==
    ASSUME NEW t \in Threads, SeqInv(t), ReadHead(t)
    PROVE  SeqInv(t)'
<1> DEFINE l == loc[t]
           c == arg[t]
           e == arrays[store].elt
           h == arrays[l.base].elt[l.slot]
           x == [l EXCEPT !.curr = h]
<1>1. /\ pc[t] = "head" /\ loc' = [loc EXCEPT ![t] = x]
      /\ pc' = [pc EXCEPT ![t] = "walk"] /\ UNCHANGED <<table, arg, rsz, calls, fault>>
  BY DEF ReadHead, SetLocal, Goto
<1>2. l \in Local_ /\ c \in Call_ /\ arg = [arg EXCEPT ![t] = c] /\ Links(node)
  BY TypeFacts DEF SeqInv
<1>3. WalkedAt("head", l, c)
  BY <1>1 DEF SeqInv
<1>4. calls' \in [Threads -> 0..MaxCalls]
  BY <1>1 DEF SeqInv, TypeOK
<1>5. TableOf(node, e, size, 1..used)
  BY <1>1, CalmTable DEF InsertPcs, LinkPcs
<1>6. /\ c.key \in Keys /\ l.slot = hashcode[c.key] % size /\ l.prev = NULL
      /\ h = e[l.slot]
  BY <1>3 DEF WalkedAt, InsertPcs
<1>7. h \in Ptr
  <2>1. l.slot \in Slots(size)
    BY <1>5, <1>6, SlotInRange, HashAssumption DEF TableOf
  <2> QED BY <1>5, <1>6, <2>1 DEF TableOf
<1>8. ASSUME NEW m \in 1..used, node[m].key = c.key PROVE m \in Reached(node, {h})
  <2>1. SlotIn(node, size, m) = l.slot
    BY <1>6, <1>8 DEF SlotIn
  <2> HIDE DEF e, h
  <2>2. m \in Reached(node, {e[SlotIn(node, size, m)]})
    BY <1>2, <1>5, FromSlot
  <2> QED BY <1>6, <2>1, <2>2
<1> HIDE DEF h
<1>9. /\ x \in Local_ /\ x.curr = h /\ x.prev = l.prev /\ x.ret = l.ret /\ x.slot = l.slot
  BY <1>2, <1>7 DEF Local_
<1> HIDE DEF l, c, x
<1>10. WalkedAt("walk", x, c)
  BY <1>3, <1>6, <1>8, <1>9 DEF WalkedAt, InsertPcs, e
<1> QED BY <1>1, <1>2, <1>4, <1>9, <1>10, QuietSeq DEF InsertPcs, LinkPcs

(* A walk is at a node of the table, in the slot of its key.               *)
LEMMA WalkIn ==
    ASSUME NEW t \in Threads, SeqInv(t), pc[t] = "walk", loc[t].curr # NULL
    PROVE  /\ loc[t].curr \in 1..used
           /\ SlotIn(node, size, loc[t].curr) = loc[t].slot
<1> DEFINE l == loc[t]
           c == arg[t]
           e == arrays[store].elt
<1>1. Links(node)
  BY TypeFacts DEF SeqInv
<1>2. TableOf(node, e, size, 1..used)
  BY CalmTable DEF InsertPcs, LinkPcs
<1>3. WalkedAt("walk", l, c)
  BY DEF SeqInv
<1>4. HeadsOf(e, size) \ {NULL} \subseteq 1..used /\ ClosedIn(node, 1..used)
  <2> HIDE DEF e
  <2> QED BY <1>1, <1>2, TableParts
<1>5. CASE l.prev = NULL
  <2>1. l.curr = e[l.slot] /\ l.slot \in Slots(size)
    BY <1>2, <1>3, <1>5, SlotInRange, HashAssumption DEF WalkedAt, InsertPcs, TableOf
  <2>2. l.curr \in HeadsOf(e, size) /\ SlotIn(node, size, l.curr) = l.slot
    BY <1>2, <2>1 DEF HeadsOf, TableOf
  <2> QED BY <1>4, <2>2
<1>6. CASE l.prev # NULL
  <2>1. /\ l.prev \in 1..used /\ node[l.prev].next = l.curr
        /\ SlotIn(node, size, l.prev) = l.slot
    BY <1>3, <1>6 DEF WalkedAt, InsertPcs
  <2> QED BY <2>1, <1>2, <1>4 DEF ClosedIn, TableOf
<1> QED BY <1>5, <1>6

LEMMA FoundSeq ==
    ASSUME NEW t \in Threads, SeqInv(t), Found(t)
    PROVE  SeqInv(t)'
<1> DEFINE l == loc[t]
           c == arg[t]
           v == IF c.op = "insert" THEN 1 ELSE node[l.curr].val
           x == [l EXCEPT !.ret = v]
<1>1. /\ pc[t] = "walk" /\ loc' = [loc EXCEPT ![t] = x] /\ l.curr # NULL
      /\ pc' = [pc EXCEPT ![t] = "ret"] /\ UNCHANGED <<table, arg, rsz, calls, fault>>
  BY DEF Found, SetLocal, Goto
<1>2. l \in Local_ /\ c \in Call_ /\ arg = [arg EXCEPT ![t] = c]
  BY TypeFacts DEF SeqInv
<1>3. l.curr \in 1..used
  BY <1>1, WalkIn
<1>4. calls' \in [Threads -> 0..MaxCalls]
  BY <1>1 DEF SeqInv, TypeOK
<1>5. v \in {1} \cup Vals
  BY <1>3 DEF SeqInv, NodesOK
<1> HIDE DEF v
<1>6. x \in Local_
  BY <1>2, <1>5 DEF Local_
<1> HIDE DEF l, c, x
<1>7. WalkedAt("ret", x, c)
  BY DEF WalkedAt, InsertPcs
<1> QED BY <1>1, <1>2, <1>4, <1>6, <1>7, QuietSeq DEF InsertPcs, LinkPcs

(* On to the next node: the key is not behind.                             *)
LEMMA AdvanceSeq ==
    ASSUME NEW t \in Threads, SeqInv(t), Advance(t)
    PROVE  SeqInv(t)'
<1> DEFINE l == loc[t]
           c == arg[t]
           y == node[l.curr].next
           d == IF l.collision < MAX_COLLISION THEN l.collision + 1 ELSE l.collision
           x == [l EXCEPT !.prev = l.curr, !.curr = y, !.collision = d]
<1>1. /\ pc[t] = "walk" /\ l.curr # NULL /\ node[l.curr].key # c.key
      /\ UNCHANGED <<table, pc, arg, rsz, calls, fault>>
  BY DEF Advance
<1>2. loc' = [loc EXCEPT ![t] = x]
  BY DEF Advance, SetLocal
<1>3. /\ l \in Local_ /\ c \in Call_ /\ arg = [arg EXCEPT ![t] = c] /\ Links(node)
      /\ pc = [pc EXCEPT ![t] = pc[t]] /\ 1..used \subseteq NodeId /\ NULL \notin NodeId
  BY TypeFacts DEF SeqInv
<1>4. l.curr \in 1..used /\ SlotIn(node, size, l.curr) = l.slot
  BY <1>1, WalkIn
<1>5. WalkedAt("walk", l, c)
  BY <1>1 DEF SeqInv
<1>6. calls' \in [Threads -> 0..MaxCalls] /\ MAX_COLLISION \in Nat
  BY <1>1, BoundAssumption DEF SeqInv, TypeOK
<1>7. d \in Nat /\ y \in Ptr /\ l.curr \in Ptr
  BY <1>3, <1>4, <1>6 DEF Local_, Links
<1>8. ASSUME NEW m \in 1..used, node[m].key = c.key PROVE m \in Reached(node, {y})
  <2>1. m \in Reached(node, {l.curr}) /\ m # l.curr
    BY <1>1, <1>5, <1>8 DEF WalkedAt
  <2>2. Reached(node, {l.curr}) \subseteq {l.curr} \cup Reached(node, {y})
    BY <1>3, <1>4, ReachedOne
  <2> QED BY <2>1, <2>2
<1> DEFINE z == [l EXCEPT !.prev = l.curr, !.curr = y]
<1>9. /\ z \in Local_ /\ z.curr = y /\ z.prev = l.curr /\ z.ret = l.ret /\ z.slot = l.slot
  <2> HIDE DEF y
  <2> QED BY <1>3, <1>7 DEF Local_
<1>10. x = [z EXCEPT !.collision = d]
  <2> HIDE DEF y, d
  <2> QED BY <1>3 DEF Local_
<1> HIDE DEF z, d
<1>11. /\ x \in Local_ /\ x.curr = y /\ x.prev = l.curr /\ x.ret = l.ret /\ x.slot = l.slot
  <2> DEFINE w == [z EXCEPT !.collision = d]
  <2>1. /\ w \in Local_ /\ w.curr = z.curr /\ w.prev = z.prev /\ w.ret = z.ret /\ w.slot = z.slot
    BY <1>7, <1>9 DEF Local_
  <2>2. x = w
    BY <1>10
  <2> HIDE DEF x, w
  <2> QED BY <2>1, <2>2, <1>9
<1>12. WalkedAt("walk", x, c)
  <2>1. l.curr # NULL /\ node[l.curr].next = y
    BY <1>1
  <2> HIDE DEF l, c, x, y
  <2> QED BY <2>1, <1>4, <1>5, <1>8, <1>11 DEF WalkedAt, InsertPcs
<1>13. pc' = [pc EXCEPT ![t] = "walk"] /\ arg' = [arg EXCEPT ![t] = c]
  BY <1>1, <1>3
<1> HIDE DEF l, c, x
<1> QED BY <1>1, <1>2, <1>3, <1>6, <1>11, <1>12, <1>13, QuietSeq DEF InsertPcs, LinkPcs

LEMMA EndSeq ==
    ASSUME NEW t \in Threads, SeqInv(t), LookupMiss(t) \/ Return(t)
    PROVE  SeqInv(t)'
<1> DEFINE l == loc[t]
           c == arg[t]
<1>1. /\ pc[t] \in {"walk", "ret"} /\ UNCHANGED <<table, arg, loc, rsz, calls, fault>>
      /\ pc' = [pc EXCEPT ![t] = "ret"] \/ pc' = [pc EXCEPT ![t] = "idle"]
  BY DEF LookupMiss, Return, Goto
<1>2. /\ l \in Local_ /\ c \in Call_ /\ arg = [arg EXCEPT ![t] = c]
      /\ loc = [loc EXCEPT ![t] = l]
  BY TypeFacts DEF SeqInv
<1>3. calls' \in [Threads -> 0..MaxCalls]
  BY <1>1 DEF SeqInv, TypeOK
<1> HIDE DEF l, c
<1>4. WalkedAt("ret", l, c) /\ WalkedAt("idle", l, c)
  BY DEF WalkedAt, InsertPcs
<1> QED BY <1>1, <1>2, <1>3, <1>4, QuietSeq DEF InsertPcs, LinkPcs
-----------------------------------------------------------------------------
(* The steps of htable_insert that make a node and link it.                *)
LEMMA NewNodeSeq ==
    ASSUME NEW t \in Threads, SeqInv(t), NewNode(t)
    PROVE  SeqInv(t)'
<1> DEFINE l == loc[t]
           c == arg[t]
           e == arrays[store].elt
           b == used + 1
           rec == [key |-> c.key, val |-> c.val, next |-> NULL]
           x == [l EXCEPT !.n = b]
           label == IF l.prev = NULL THEN "linkbase" ELSE "link"
<1>1. /\ pc[t] = "walk" /\ loc' = [loc EXCEPT ![t] = x] /\ pc' = [pc EXCEPT ![t] = label]
      /\ l.curr = NULL /\ c.op = "insert" /\ used < MaxNodes /\ used' = b
      /\ node' = [node EXCEPT ![b] = rec]
      /\ UNCHANGED <<size, allow_resize, store, arrays, arg, rsz, calls, fault>>
  BY DEF NewNode, SetLocal, Goto
<1>2. /\ l \in Local_ /\ c \in Call_ /\ arg = [arg EXCEPT ![t] = c] /\ Links(node)
      /\ rsz[t] \in Resize_ /\ rsz = [rsz EXCEPT ![t] = rsz[t]]
      /\ used \in Nat /\ 1..used \subseteq NodeId /\ NULL \notin NodeId /\ ArraysTyped(arrays)
      /\ size \in Nat \ {0}
  BY TypeFacts DEF SeqInv
<1>3. WalkedAt("walk", l, c)
  BY <1>1 DEF SeqInv
<1>4. TableOf(node, e, size, 1..used) /\ Linked(t) = 1..used
  BY <1>1, CalmTable DEF InsertPcs, LinkPcs
<1>5. b \in NodeId /\ b \in 0..MaxNodes /\ b \notin 1..used /\ 1..b = 1..used \cup {b}
      /\ b - 1 = used /\ b > 0
  BY <1>1, <1>2, BoundAssumption DEF NodeId
<1>6. c.key \in Keys /\ c.val \in Vals /\ l.ret = NULL /\ l.slot = hashcode[c.key] % size
  BY <1>1, <1>3 DEF WalkedAt, InsertPcs
<1>7. \A m \in 1..used : node[m].key # c.key
  BY <1>1, <1>3, ReachedNull DEF WalkedAt
<1> HIDE DEF b
<1>8. rec \in Node_ /\ rec.key = c.key /\ rec.val = c.val /\ rec.next = NULL
  BY <1>6 DEF Node_, Ptr
<1> HIDE DEF rec
<1>9. node \in [NodeId -> Node_]
  BY DEF SeqInv, TypeOK
<1>10. node' \in [NodeId -> Node_] /\ node'[b] = rec /\ \A m \in NodeId \ {b} : node'[m] = node[m]
  BY <1>1, <1>5, <1>8, <1>9
<1>11. /\ x \in Local_ /\ x.n = b /\ x.prev = l.prev /\ x.ret = l.ret /\ x.slot = l.slot
  BY <1>2, <1>5 DEF Local_, Ptr
<1>12. label \in {"link", "linkbase"} /\ label \in Pcs
       /\ (label = "link" => l.prev # NULL) /\ (label = "linkbase" => l.prev = NULL)
  BY DEF Pcs, InsertPcs
<1> HIDE DEF x, label
<1>13. Goes(t, label, x, rsz[t], c)
  BY <1>1, <1>2, <1>11, <1>12 DEF Goes
<1>14. TypeOK' /\ pc'[t] = label /\ loc'[t] = x /\ arg'[t] = c
  <2>1. /\ TypeOK /\ calls' \in [Threads -> 0..MaxCalls] /\ store' \in DOMAIN arrays'
        /\ ArraysTyped(arrays') /\ size' \in Nat \ {0} /\ fault' \in BOOLEAN
    BY <1>1, <1>2 DEF SeqInv, TypeOK
  <2>2. used' \in 0..MaxNodes /\ allow_resize' = allow_resize
    BY <1>1, <1>5
  <2> QED BY <2>1, <2>2, <1>10, <1>13, TypeStep
<1>15. Links(node')
  <2>1. TypeOK'
    BY <1>14
  <2> QED BY <1>10 DEF Links, Node_
<1>16. Linked(t)' = 1..used /\ ~Resizing(t)'
  BY <1>1, <1>5, <1>12, <1>14 DEF Linked, Linking, Resizing, Moving, Swapping
<1>17. \A m \in 1..used : m # b /\ node'[m] = node[m]
  BY <1>2, <1>5, <1>10
<1>18. NodesOK(t)'
  <2>1. \A m \in 1..used' : node'[m].key \in Keys /\ node'[m].val \in Vals
    BY <1>1, <1>5, <1>6, <1>8, <1>10, <1>17 DEF SeqInv, NodesOK
  <2>2. \A m, n \in Linked(t)' : node'[m].key = node'[n].key => m = n
    BY <1>4, <1>16, <1>17 DEF SeqInv, NodesOK
  <2>3. NoRing(node')
    <3>1. NoRing(node) /\ ClosedIn(node, {}) /\ {} \in SUBSET NodeId
      BY DEF SeqInv, NodesOK, ClosedIn
    <3>2. node'[b].next \in {} \cup {NULL} /\ \A m \in NodeId \ {b} : node'[m].next = node[m].next
      BY <1>8, <1>10
    <3> QED BY <3>1, <3>2, <1>5, NoRingLink
  <2> QED BY <2>1, <2>2, <2>3 DEF NodesOK
<1>19. CalmOK(t)'
  <2>1. TableOf(node', e, size, 1..used)
    BY <1>2, <1>4, <1>15, <1>17, TableFrame
  <2> QED BY <2>1, <1>1, <1>16 DEF CalmOK
<1>20. ResizeOK(t)'
  BY <1>16 DEF ResizeOK, Resizing
<1>21. WalkedAt(pc[t], loc[t], arg[t])'
  <2>1. label = "link" => /\ l.prev \in 1..used /\ node[l.prev].next = NULL
                          /\ SlotIn(node, size, l.prev) = l.slot
    BY <1>1, <1>3, <1>12 DEF WalkedAt
  <2>2. label = "link" => /\ x.prev \in 1..(used' - 1) /\ node'[x.prev].next = NULL
                          /\ SlotIn(node', size', x.prev) = x.slot
    BY <2>1, <1>1, <1>5, <1>11, <1>17 DEF SlotIn
  <2>3. label = "linkbase" => arrays'[store'].elt[x.slot] = NULL
    BY <1>1, <1>3, <1>11, <1>12 DEF WalkedAt
  <2>4. /\ used' > 0 /\ x.n = used' /\ \A m \in 1..(used' - 1) : node'[m].key # c.key
    BY <1>1, <1>5, <1>7, <1>11, <1>17
  <2>5. node'[used'] = [key |-> c.key, val |-> c.val, next |-> NULL]
    BY <1>1, <1>10 DEF rec
  <2>6. x.slot = hashcode[c.key] % size' /\ x.ret = NULL
    BY <1>1, <1>6, <1>11
  <2> HIDE DEF c
  <2>7. pc'[t] = label /\ loc'[t] = x /\ arg'[t] = c
    BY <1>14
  <2> QED BY <2>2, <2>3, <2>4, <2>5, <2>6, <2>7, <1>1, <1>6, <1>12 DEF WalkedAt
<1> QED BY <1>1, <1>14, <1>18, <1>19, <1>20, <1>21 DEF SeqInv

(* The link makes the node one of the table.                               *)
JoinedAt(t, x, label) ==
    /\ x \in Local_ /\ label \in {"ret", "r_new"}
    /\ loc' = [loc EXCEPT ![t] = x] /\ pc' = [pc EXCEPT ![t] = label]
    /\ x.ret = 0

LEMMA AfterLinkIs ==
    ASSUME TypeOK, NEW t \in Threads, AfterLink(t)
    PROVE  \E x, label : JoinedAt(t, x, label)
<1> DEFINE x == [loc[t] EXCEPT !.ret = 0]
           label == IF allow_resize /\ loc[t].collision >= MAX_COLLISION THEN "r_new" ELSE "ret"
<1>1. x \in Local_ /\ x.ret = 0
  <2>1. loc[t] \in Local_
    BY TypeFacts
  <2> QED BY <2>1 DEF Local_
<1>2. loc' = [loc EXCEPT ![t] = x] /\ pc' = [pc EXCEPT ![t] = label] /\ label \in {"ret", "r_new"}
  BY DEF AfterLink, SetLocal, Goto
<1> HIDE DEF x, label
<1> QED BY <1>1, <1>2 DEF JoinedAt

LEMMA JoinSeq ==
    ASSUME NEW t \in Threads, SeqInv(t), pc[t] \in LinkPcs, NEW x, NEW label, JoinedAt(t, x, label),
           UNCHANGED <<size, allow_resize, store, used, arg, rsz, calls, fault>>,
           node' \in [NodeId -> Node_],
           \A m \in NodeId : node'[m].key = node[m].key /\ node'[m].val = node[m].val,
           NoRing(node'), ArraysTyped(arrays'), store \in DOMAIN arrays',
           TableOf(node', arrays'[store].elt, size, 1..(used - 1) \cup {used})
    PROVE  SeqInv(t)'
<1> DEFINE c == arg[t]
<1>1. /\ c \in Call_ /\ arg = [arg EXCEPT ![t] = c]
      /\ rsz[t] \in Resize_ /\ rsz = [rsz EXCEPT ![t] = rsz[t]]
      /\ used \in Nat /\ 1..used \subseteq NodeId /\ size \in Nat \ {0}
  BY TypeFacts DEF SeqInv
<1>2. Goes(t, label, x, rsz[t], c)
  BY <1>1 DEF Goes, JoinedAt, Pcs, ResizePcs
<1>3. TypeOK' /\ pc'[t] = label /\ loc'[t] = x /\ arg'[t] = c
  <2>1. /\ TypeOK /\ calls' \in [Threads -> 0..MaxCalls] /\ store' \in DOMAIN arrays'
        /\ size' \in Nat \ {0} /\ fault' \in BOOLEAN /\ used' \in 0..MaxNodes
        /\ allow_resize' = allow_resize
    BY <1>1 DEF SeqInv, TypeOK
  <2> QED BY <2>1, <1>2, TypeStep
<1>4. label \in {"ret", "r_new"}
  BY DEF JoinedAt
<1>5. WalkedAt(pc[t], loc[t], c) /\ Linked(t) = 1..(used - 1)
  BY CalmTable DEF SeqInv, LinkPcs, InsertPcs
<1>6. /\ used > 0 /\ node[used].key = c.key
      /\ \A m \in 1..(used - 1) : node[m].key # c.key
  BY <1>5 DEF WalkedAt, LinkPcs
<1>7. 1..used = 1..(used - 1) \cup {used}
  BY <1>1, <1>6
<1>8. Linked(t)' = 1..used /\ ~Resizing(t)'
  BY <1>3, <1>4 DEF Linked, Linking, Resizing, Moving, Swapping
<1>9. NodesOK(t)'
  <2>1. \A m \in 1..used' : node'[m].key \in Keys /\ node'[m].val \in Vals
    BY <1>1 DEF SeqInv, NodesOK
  <2>2. \A m \in 1..used : node'[m].key = node[m].key
    BY <1>1
  <2>3. \A m, n \in 1..(used - 1) : node[m].key = node[n].key => m = n
    BY <1>5 DEF SeqInv, NodesOK
  <2>4. ASSUME NEW m \in 1..used, NEW n \in 1..used, node[m].key = node[n].key PROVE m = n
    BY <2>3, <2>4, <1>6, <1>7
  <2> QED BY <2>1, <2>2, <2>4, <1>8 DEF SeqInv, NodesOK
<1>10. CalmOK(t)'
  BY <1>7, <1>8 DEF CalmOK
<1>11. ResizeOK(t)'
  BY <1>8 DEF ResizeOK, Resizing
<1>12. WalkedAt(label, x, c)'
  BY <1>4, WalkedFree DEF InsertPcs
<1>13. WalkedAt(pc[t], loc[t], arg[t])'
  BY <1>3, <1>12
<1> QED BY <1>3, <1>9, <1>10, <1>11, <1>13 DEF SeqInv

LEMMA LinkAfterPrevSeq ==
    ASSUME NEW t \in Threads, SeqInv(t), LinkAfterPrev(t)
    PROVE  SeqInv(t)'
<1> DEFINE l == loc[t]
           c == arg[t]
           e == arrays[store].elt
           p == l.prev
           L == 1..(used - 1)
<1>1. /\ pc[t] = "link" /\ node' = [node EXCEPT ![p].next = l.n] /\ AfterLink(t)
      /\ UNCHANGED <<size, allow_resize, store, arrays, used, arg, rsz, calls, fault>>
  BY DEF LinkAfterPrev
<1>2. /\ Links(node) /\ used \in Nat /\ 1..used \subseteq NodeId /\ NULL \notin NodeId
      /\ ArraysTyped(arrays) /\ TypeOK
  BY TypeFacts DEF SeqInv
<1>3. WalkedAt("link", l, c)
  BY <1>1 DEF SeqInv
<1>4. TableOf(node, e, size, L)
  BY <1>1, CalmTable DEF InsertPcs, LinkPcs
<1>5. /\ c.key \in Keys /\ l.slot = hashcode[c.key] % size /\ l.n = used /\ used > 0
      /\ node[used] = [key |-> c.key, val |-> c.val, next |-> NULL]
      /\ p \in L /\ node[p].next = NULL /\ SlotIn(node, size, p) = l.slot
  BY <1>3 DEF WalkedAt, InsertPcs
<1>6. used \in NodeId /\ used \notin L /\ p \in NodeId /\ p # used
  BY <1>2, <1>5
<1>7. node[used].key = c.key /\ node[used].next = NULL
  BY <1>5
<1>8. node \in [NodeId -> Node_]
  BY <1>2 DEF TypeOK
<1>9. /\ node' \in [NodeId -> Node_] /\ node'[p].next = used
      /\ \A m \in NodeId \ {p} : node'[m] = node[m]
      /\ \A m \in NodeId : node'[m].key = node[m].key /\ node'[m].val = node[m].val
  <2> DEFINE r == [node[p] EXCEPT !.next = used]
  <2>1. r \in Node_ /\ r.next = used /\ r.key = node[p].key /\ r.val = node[p].val
    BY <1>6, <1>8 DEF Node_, Ptr
  <2>2. node' = [node EXCEPT ![p] = r]
    BY <1>1, <1>5
  <2> HIDE DEF r
  <2> QED BY <2>1, <2>2, <1>6, <1>8
<1>10. Links(node')
  BY <1>9 DEF Links, Node_
<1>11. NoRing(node')
  <2>1. NoRing(node) /\ ClosedIn(node, {used}) /\ {used} \in SUBSET NodeId
    BY <1>6, <1>7 DEF SeqInv, NodesOK, ClosedIn
  <2>2. \A m \in NodeId \ {p} : node'[m].next = node[m].next
    BY <1>9
  <2>3. p \notin {used} /\ node'[p].next \in {used} \cup {NULL}
    BY <1>6, <1>9
  <2> HIDE DEF p
  <2> QED BY <2>1, <2>2, <2>3, <1>6, NoRingLink
<1>12. TableOf(node', e, size, L \cup {used})
  <2>1. SlotIn(node, size, used) = SlotIn(node, size, p)
    BY <1>5, <1>7 DEF SlotIn
  <2>2. node'[used].next = NULL /\ node'[used].key \in Keys
    BY <1>5, <1>6, <1>7, <1>9
  <2>3. /\ \A m \in NodeId \ {p} : node'[m].next = node[m].next
        /\ \A m \in NodeId : node'[m].key = node[m].key
    BY <1>9
  <2> HIDE DEF e, L, p
  <2> QED BY <2>1, <2>2, <2>3, <1>2, <1>4, <1>5, <1>6, <1>9, <1>10, LinkLast
<1>13. store \in DOMAIN arrays
  BY <1>2 DEF TypeOK
<1>14. PICK x, label : JoinedAt(t, x, label)
  BY <1>1, <1>2, AfterLinkIs
<1>15. pc[t] \in LinkPcs
  BY <1>1 DEF LinkPcs
<1> HIDE DEF l, c, p
<1> QED BY <1>1, <1>2, <1>9, <1>11, <1>12, <1>13, <1>14, <1>15, JoinSeq

LEMMA LinkHeadSeq ==
    ASSUME NEW t \in Threads, SeqInv(t), ExchangeInv, LinkHead(t)
    PROVE  SeqInv(t)'
<1> DEFINE l == loc[t]
           c == arg[t]
           e == arrays[store].elt
           s == l.slot
           L == 1..(used - 1)
<1>1. /\ pc[t] = "linkhead" /\ arrays' = Put(arrays, l.base, s, l.n) /\ AfterLink(t)
      /\ UNCHANGED <<size, allow_resize, store, node, used, arg, rsz, calls, fault>>
  BY DEF LinkHead, Put
<1>2. /\ Links(node) /\ used \in Nat /\ 1..used \subseteq NodeId
      /\ ArraysTyped(arrays) /\ TypeOK
  BY TypeFacts DEF SeqInv
<1>3. WalkedAt("linkhead", l, c)
  BY <1>1 DEF SeqInv
<1>4. TableOf(node, e, size, L)
  BY <1>1, CalmTable DEF InsertPcs, LinkPcs
<1>5. /\ c.key \in Keys /\ s = hashcode[c.key] % size /\ l.n = used /\ used > 0
      /\ node[used] = [key |-> c.key, val |-> c.val, next |-> NULL]
      /\ e[s] = NULL /\ l.base = store
  BY <1>3 DEF WalkedAt, InsertPcs
<1>6. used \in NodeId /\ used \notin L /\ used \in Ptr
  BY <1>2, <1>5 DEF Ptr
<1>7. node[used].key = c.key /\ node[used].next = NULL
  BY <1>5
<1>8. store \in DOMAIN arrays /\ Shapes
  BY <1>2 DEF TypeOK, ExchangeInv, ArraysOwned
<1> DEFINE d == PutIn(e, s, used)
<1>9. /\ ArraysTyped(arrays') /\ DOMAIN arrays' = DOMAIN arrays
      /\ arrays'[store].elt = d
  <2>1. arrays' = Put(arrays, store, s, used)
    BY <1>1, <1>5
  <2>2. Shapes /\ ArraysTyped(arrays) /\ store \in DOMAIN arrays /\ used \in Ptr
    BY <1>2, <1>6, <1>8
  <2> QED BY <2>1, <2>2, SlotTyped
<1>10. TableOf(node, arrays'[store].elt, size, L \cup {used})
  <2>1. s = SlotIn(node, size, used) /\ node[used].next = e[s] /\ node[used].key \in Keys
    BY <1>5, <1>7 DEF SlotIn
  <2>2. d = [e EXCEPT ![s] = used]
    BY DEF PutIn
  <2> HIDE DEF e, L, s, d
  <2>3. TableOf(node, d, size, L \cup {used})
    BY <2>1, <2>2, <1>2, <1>4, <1>6, PutHead
  <2> QED BY <2>3, <1>9
<1>11. node' = node /\ node \in [NodeId -> Node_] /\ NoRing(node)
  BY <1>1, <1>2 DEF TypeOK, SeqInv, NodesOK
<1>12. PICK x, label : JoinedAt(t, x, label)
  BY <1>1, <1>2, AfterLinkIs
<1>13. pc[t] \in LinkPcs
  BY <1>1 DEF LinkPcs
<1> HIDE DEF l, c, s
<1> QED BY <1>1, <1>8, <1>9, <1>10, <1>11, <1>12, <1>13, JoinSeq
-----------------------------------------------------------------------------
(* The steps of htable_resize.                                             *)
MovePcs == {"r_for", "r_base", "r_head", "r_walk", "r_move"}
SwapPcs == {"r_size", "r_old", "r_free", "r_store"}

LEMMA ResizeSeq ==
    ASSUME NEW t \in Threads, SeqInv(t), pc[t] \in ResizePcs,
           NEW l \in MovePcs \cup SwapPcs \cup {"ret"}, NEW r \in Resize_,
           pc' = [pc EXCEPT ![t] = l], rsz' = [rsz EXCEPT ![t] = r],
           UNCHANGED <<allow_resize, used, arg, loc, calls, fault>>,
           size' \in Nat \ {0}, store' \in DOMAIN arrays', ArraysTyped(arrays'),
           node' \in [NodeId -> Node_],
           \A m \in NodeId : node'[m].key = node[m].key /\ node'[m].val = node[m].val,
           NoRing(node'),
           l \in MovePcs => MovingAt(l, r)',
           l \in SwapPcs => SwappingAt(l, r)',
           l = "ret" => TableOf(node', arrays'[store'].elt, size', 1..used)
    PROVE  SeqInv(t)'
<1> DEFINE c == arg[t]
           x == loc[t]
<1>1. /\ c \in Call_ /\ arg = [arg EXCEPT ![t] = c] /\ x \in Local_ /\ loc = [loc EXCEPT ![t] = x]
      /\ used \in Nat /\ 1..used \subseteq NodeId
  BY TypeFacts DEF SeqInv
<1>2. Goes(t, l, x, r, c)
  BY <1>1 DEF Goes, MovePcs, SwapPcs, Pcs, ResizePcs
<1>3. TypeOK' /\ pc'[t] = l /\ rsz'[t] = r
  <2>1. /\ TypeOK /\ calls' \in [Threads -> 0..MaxCalls] /\ fault' \in BOOLEAN
        /\ used' \in 0..MaxNodes /\ allow_resize' = allow_resize
    BY DEF SeqInv, TypeOK
  <2> QED BY <2>1, <1>2, TypeStep
<1>4. Linked(t) = 1..used /\ Linked(t)' = 1..used
  BY <1>3 DEF Linked, Linking, ResizePcs, MovePcs, SwapPcs
<1>5. NodesOK(t)'
  <2>1. \A m \in 1..used : node'[m].key = node[m].key /\ node'[m].val = node[m].val
    BY <1>1
  <2> QED BY <2>1, <1>4 DEF SeqInv, NodesOK
<1>6. CalmOK(t)'
  BY <1>3, <1>4 DEF CalmOK, Resizing, Moving, Swapping, MovePcs, SwapPcs
<1>7. ResizeOK(t)'
  BY <1>3 DEF ResizeOK, Moving, Swapping, MovePcs, SwapPcs
<1>8. WalkedAt(pc[t], loc[t], arg[t])'
  BY <1>3 DEF WalkedAt, InsertPcs, MovePcs, SwapPcs
<1> QED BY <1>3, <1>5, <1>6, <1>7, <1>8 DEF SeqInv

(* The loop as it is found, and the array it fills.                        *)
LEMMA ResizeFacts ==
    ASSUME NEW t \in Threads, SeqInv(t), ExchangeInv
    PROVE  /\ pc[t] \in MovePcs => MovingAt(pc[t], rsz[t])
           /\ pc[t] \in SwapPcs => SwappingAt(pc[t], rsz[t])
           /\ pc[t] \in MovePcs \cup SwapPcs =>
                 rsz[t].new_store \in DOMAIN arrays \ {store}
           /\ MovePcs \cup SwapPcs \subseteq ResizePcs /\ MovePcs \cap SwapPcs = {}
           /\ node \in [NodeId -> Node_] /\ NoRing(node)
<1>1. pc[t] \in MovePcs <=> Moving(t)
  BY DEF Moving, MovePcs
<1>2. pc[t] \in SwapPcs <=> Swapping(t)
  BY DEF Swapping, SwapPcs
<1>3. MovePcs \cup SwapPcs \subseteq ResizePcs /\ MovePcs \cap SwapPcs = {}
  BY DEF MovePcs, SwapPcs, ResizePcs
<1>4. Resizing(t) => rsz[t].new_store \in DOMAIN arrays \ {store}
  BY DEF ExchangeInv, ArraysOwned, FillsItsOwn
<1>5. node \in [NodeId -> Node_] /\ NoRing(node)
  BY DEF SeqInv, TypeOK, NodesOK
<1> QED BY <1>1, <1>2, <1>3, <1>4, <1>5 DEF SeqInv, ResizeOK, Resizing

(* Those that change no node and no array.                                 *)
LEMMA QuietResize ==
    ASSUME NEW t \in Threads, SeqInv(t), ExchangeInv, pc[t] \in ResizePcs,
           NEW l \in MovePcs \cup SwapPcs, NEW r \in Resize_,
           pc' = [pc EXCEPT ![t] = l], rsz' = [rsz EXCEPT ![t] = r],
           UNCHANGED <<table, arg, loc, calls, fault>>,
           l \in MovePcs => MovingAt(l, r), l \in SwapPcs => SwappingAt(l, r)
    PROVE  SeqInv(t)'
<1>1. UNCHANGED <<size, allow_resize, store, arrays, node, used>>
  BY DEF table
<1>2. /\ size \in Nat \ {0} /\ store \in DOMAIN arrays /\ ArraysTyped(arrays)
      /\ node \in [NodeId -> Node_] /\ NoRing(node)
  BY TypeFacts DEF SeqInv, TypeOK, NodesOK
<1>3. l \in MovePcs => MovingAt(l, r)'
  BY <1>1 DEF MovingAt, RestOf, HandOf
<1>4. l \in SwapPcs => SwappingAt(l, r)'
  BY <1>1 DEF SwappingAt
<1>5. l # "ret"
  BY DEF MovePcs, SwapPcs
<1> QED BY <1>1, <1>2, <1>3, <1>4, <1>5, ResizeSeq

LEMMA ForTestSeq ==
    ASSUME NEW t \in Threads, SeqInv(t), ExchangeInv, ForTest(t)
    PROVE  SeqInv(t)'
<1>1. PICK r : r = rsz[t]
  OBVIOUS
<1>2. /\ pc[t] = "r_for" /\ UNCHANGED <<table, arg, loc, rsz, calls, fault>>
      /\ pc' = [pc EXCEPT ![t] = IF r.i < size THEN "r_base" ELSE "r_size"]
  BY <1>1 DEF ForTest, Goto
<1>3. r \in Resize_ /\ rsz = [rsz EXCEPT ![t] = r] /\ Links(node) /\ size \in Nat \ {0}
  BY <1>1, TypeFacts DEF SeqInv
<1>4. MovingAt("r_for", r) /\ pc[t] \in ResizePcs
  BY <1>1, <1>2, ResizeFacts DEF MovePcs, ResizePcs
<1>5. CASE r.i < size
  <2>1. RestOf("r_base", r) = RestOf("r_for", r) /\ HandOf("r_base", r) = HandOf("r_for", r)
    BY DEF RestOf, HandOf
  <2>2. MovingAt("r_base", r)
    BY <2>1, <1>4, <1>5 DEF MovingAt
  <2>3. "r_base" \in MovePcs /\ "r_base" \notin SwapPcs /\ pc' = [pc EXCEPT ![t] = "r_base"]
    BY <1>2, <1>5 DEF MovePcs, SwapPcs
  <2> QED BY <2>2, <2>3, <1>2, <1>3, <1>4, QuietResize
<1>6. CASE ~(r.i < size)
  <2>1. PICK moved \in SUBSET NodeId, left \in SUBSET NodeId :
           /\ TableOf(node, arrays[r.new_store].elt, r.new_size, moved)
           /\ TableOf(node, RestOf("r_for", r), size, left)
           /\ moved \cup left \cup HandOf("r_for", r) = 1..used
    BY <1>4 DEF MovingAt
  <2>2. /\ RestOf("r_for", r) \in [Slots(size) -> Ptr]
        /\ \A s \in Slots(size) : RestOf("r_for", r)[s] = NULL
    BY <2>1, <1>3, <1>6 DEF RestOf, Slots, Resize_, TableOf
  <2> DEFINE e == RestOf("r_for", r)
  <2>3. left = {}
    <3>1. TableOf(node, e, size, left) /\ e \in [Slots(size) -> Ptr] /\ \A s \in Slots(size) : e[s] = NULL
      BY <2>1, <2>2
    <3> HIDE DEF e
    <3> QED BY <3>1, <1>3, EmptyTable
  <2>4. SwappingAt("r_size", r)
    BY <2>1, <2>3 DEF SwappingAt, HandOf
  <2>5. "r_size" \notin MovePcs /\ "r_size" \in SwapPcs /\ pc' = [pc EXCEPT ![t] = "r_size"]
    BY <1>2, <1>6 DEF MovePcs, SwapPcs
  <2> QED BY <2>4, <2>5, <1>2, <1>3, <1>4, QuietResize
<1> QED BY <1>5, <1>6

(* A step within the loop that leaves the nodes where they are.            *)
LEMMA LoopSeq ==
    ASSUME NEW t \in Threads, SeqInv(t), ExchangeInv, pc[t] \in MovePcs \ {"r_move"},
           NEW l \in MovePcs \ {"r_move"}, NEW r \in Resize_,
           pc' = [pc EXCEPT ![t] = l], rsz' = [rsz EXCEPT ![t] = r],
           UNCHANGED <<table, arg, loc, calls, fault>>,
           RestOf(l, r) = RestOf(pc[t], rsz[t]),
           r.new_store = rsz[t].new_store, r.new_size = rsz[t].new_size,
           l \in {"r_for", "r_base", "r_head"} => r.curr = NULL,
           l # "r_for" => r.i < size,
           l = "r_head" => r.base = store
    PROVE  SeqInv(t)'
<1>1. /\ MovingAt(pc[t], rsz[t]) /\ pc[t] \in ResizePcs /\ l \in MovePcs \cup SwapPcs
      /\ l \notin SwapPcs
  BY ResizeFacts
<1>2. HandOf(l, r) = {} /\ HandOf(pc[t], rsz[t]) = {}
  BY DEF HandOf
<1>3. MovingAt(l, r)
  BY <1>1, <1>2 DEF MovingAt
<1> QED BY <1>1, <1>3, QuietResize

LEMMA ForBaseSeq ==
    ASSUME NEW t \in Threads, SeqInv(t), ExchangeInv, ForBase(t)
    PROVE  SeqInv(t)'
<1>1. PICK r : r = [rsz[t] EXCEPT !.base = store]
  OBVIOUS
<1>2. /\ pc[t] = "r_base" /\ UNCHANGED <<table, arg, loc, calls, fault>>
      /\ pc' = [pc EXCEPT ![t] = "r_head"] /\ rsz' = [rsz EXCEPT ![t] = r]
  BY <1>1 DEF ForBase, Goto, SetResize
<1>3. rsz[t] \in Resize_ /\ store \in Nat
  BY TypeFacts, ArrayNumbers DEF SeqInv
<1>4. /\ r \in Resize_ /\ r.base = store /\ r.i = rsz[t].i /\ r.curr = rsz[t].curr
      /\ r.new_store = rsz[t].new_store /\ r.new_size = rsz[t].new_size
  BY <1>1, <1>3 DEF Resize_
<1>5. MovingAt("r_base", rsz[t])
  BY <1>2, ResizeFacts DEF MovePcs
<1>6. RestOf("r_head", r) = RestOf("r_base", rsz[t])
  BY <1>4 DEF RestOf
<1> QED BY <1>2, <1>4, <1>5, <1>6, LoopSeq DEF MovingAt, MovePcs

LEMMA ForHeadSeq ==
    ASSUME NEW t \in Threads, SeqInv(t), ExchangeInv, ForHead(t)
    PROVE  SeqInv(t)'
<1> DEFINE h == arrays[rsz[t].base].elt[rsz[t].i]
<1>1. PICK r : r = [rsz[t] EXCEPT !.curr = h]
  OBVIOUS
<1>2. /\ pc[t] = "r_head" /\ UNCHANGED <<table, arg, loc, calls, fault>>
      /\ pc' = [pc EXCEPT ![t] = "r_walk"] /\ rsz' = [rsz EXCEPT ![t] = r]
  BY <1>1 DEF ForHead, Goto, SetResize
<1>3. rsz[t] \in Resize_ /\ size \in Nat \ {0}
  BY TypeFacts DEF SeqInv
<1>4. MovingAt("r_head", rsz[t])
  BY <1>2, ResizeFacts DEF MovePcs
<1>5. rsz[t].i \in Slots(size) /\ rsz[t].i < size /\ rsz[t].base = store
  BY <1>3, <1>4 DEF MovingAt, Slots, Resize_
<1>6. h = arrays[store].elt[rsz[t].i] /\ h \in Ptr
  BY <1>4, <1>5 DEF MovingAt
<1> HIDE DEF h
<1>7. /\ r \in Resize_ /\ r.curr = h /\ r.i = rsz[t].i
      /\ r.new_store = rsz[t].new_store /\ r.new_size = rsz[t].new_size
  BY <1>1, <1>3, <1>6 DEF Resize_
<1>8. RestOf("r_walk", r) = RestOf("r_head", rsz[t])
  <2>1. \A s \in Slots(size) :
           (IF s > r.i THEN arrays[store].elt[s] ELSE IF s = r.i THEN r.curr ELSE NULL)
           = (IF s > rsz[t].i \/ s = rsz[t].i THEN arrays[store].elt[s]
              ELSE IF s = rsz[t].i THEN rsz[t].curr ELSE NULL)
    BY <1>3, <1>6, <1>7 DEF Slots, Resize_
  <2> QED BY <2>1 DEF RestOf
<1> QED BY <1>2, <1>5, <1>7, <1>8, LoopSeq DEF MovePcs

LEMMA ChainDoneSeq ==
    ASSUME NEW t \in Threads, SeqInv(t), ExchangeInv, ChainDone(t)
    PROVE  SeqInv(t)'
<1>1. PICK r : r = [rsz[t] EXCEPT !.i = @ + 1]
  OBVIOUS
<1>2. /\ pc[t] = "r_walk" /\ UNCHANGED <<table, arg, loc, calls, fault>> /\ rsz[t].curr = NULL
      /\ pc' = [pc EXCEPT ![t] = "r_for"] /\ rsz' = [rsz EXCEPT ![t] = r]
  BY <1>1 DEF ChainDone, Goto, SetResize
<1>3. rsz[t] \in Resize_ /\ size \in Nat \ {0}
  BY TypeFacts DEF SeqInv
<1>4. /\ r \in Resize_ /\ r.i = rsz[t].i + 1 /\ r.curr = rsz[t].curr
      /\ r.new_store = rsz[t].new_store /\ r.new_size = rsz[t].new_size
  BY <1>1, <1>3 DEF Resize_
<1>5. RestOf("r_for", r) = RestOf("r_walk", rsz[t])
  <2>1. \A s \in Slots(size) :
           (IF s > r.i \/ s = r.i THEN arrays[store].elt[s] ELSE IF s = r.i THEN r.curr ELSE NULL)
           = (IF s > rsz[t].i THEN arrays[store].elt[s]
              ELSE IF s = rsz[t].i THEN rsz[t].curr ELSE NULL)
    BY <1>2, <1>3, <1>4 DEF Slots, Resize_
  <2> QED BY <2>1 DEF RestOf
<1> QED BY <1>2, <1>4, <1>5, LoopSeq DEF MovePcs

LEMMA TakeNodeSeq ==
    ASSUME NEW t \in Threads, SeqInv(t), ExchangeInv, TakeNode(t)
    PROVE  SeqInv(t)'
<1>1. PICK q : q = rsz[t]
  OBVIOUS
<1> DEFINE y == node[q.curr].next
           d == [q EXCEPT !.n = q.curr, !.curr = y]
<1>2. PICK r : r = d
  OBVIOUS
<1>3. /\ pc[t] = "r_walk" /\ q.curr # NULL /\ UNCHANGED <<table, arg, loc, calls, fault>>
      /\ pc' = [pc EXCEPT ![t] = "r_move"] /\ rsz' = [rsz EXCEPT ![t] = r]
  BY <1>1, <1>2 DEF TakeNode, Goto, SetResize
<1>4. q \in Resize_ /\ size \in Nat \ {0} /\ Links(node)
  BY <1>1, TypeFacts DEF SeqInv
<1>5. MovingAt("r_walk", q) /\ pc[t] \in ResizePcs /\ NoRing(node)
  BY <1>1, <1>3, ResizeFacts DEF MovePcs, ResizePcs
<1>6. PICK moved \in SUBSET NodeId, left \in SUBSET NodeId :
         /\ TableOf(node, arrays[q.new_store].elt, q.new_size, moved)
         /\ TableOf(node, RestOf("r_walk", q), size, left)
         /\ moved \cap left = {} /\ moved \cup left = 1..used
  BY <1>5 DEF MovingAt, HandOf
<1>7. q.i \in Slots(size) /\ q.i < size
  BY <1>4, <1>5 DEF MovingAt, Slots, Resize_
<1>8. q.curr \in NodeId /\ y \in Ptr
  BY <1>3, <1>4 DEF Resize_, Ptr, Links
<1>9. /\ r \in Resize_ /\ r.n = q.curr /\ r.curr = y /\ r.i = q.i
      /\ r.new_store = q.new_store /\ r.new_size = q.new_size
  <2> HIDE DEF y
  <2> QED BY <1>2, <1>4, <1>8 DEF Resize_, Ptr
<1> DEFINE e == RestOf("r_walk", q)
           g == RestOf("r_move", r)
<1>10. e[q.i] = q.curr /\ e \in [Slots(size) -> Ptr]
  <2>1. e[q.i] = q.curr
    BY <1>4, <1>7 DEF RestOf, Resize_
  <2> QED BY <2>1, <1>6 DEF TableOf
<1>11. g = [e EXCEPT ![q.i] = y]
  <2>1. ASSUME NEW s \in Slots(size)
        PROVE  g[s] = IF s = q.i THEN y ELSE e[s]
    <3> HIDE DEF y
    <3>1. /\ g[s] = IF s > q.i THEN arrays[store].elt[s] ELSE IF s = q.i THEN y ELSE NULL
          /\ e[s] = IF s > q.i THEN arrays[store].elt[s] ELSE IF s = q.i THEN q.curr ELSE NULL
      BY <1>9 DEF RestOf
    <3>2. s \in Int /\ q.i \in Int
      BY <1>7 DEF Slots
    <3> HIDE DEF e, g
    <3> QED BY <3>1, <3>2
  <2>2. g = [s \in Slots(size) |-> g[s]]
    BY DEF RestOf
  <2> HIDE DEF e, g, y
  <2> QED BY <2>1, <2>2, <1>10
<1>12. q.curr \in left /\ TableOf(node, g, size, left \ {q.curr})
  <2>1. g = [e EXCEPT ![q.i] = node[e[q.i]].next] /\ e[q.i] # NULL
    BY <1>3, <1>10, <1>11
  <2> HIDE DEF e, g, y
  <2>2. e[q.i] \in left /\ TableOf(node, g, size, left \ {e[q.i]})
    BY <2>1, <1>4, <1>5, <1>6, <1>7, TakeHead DEF e
  <2> QED BY <2>2, <1>10
<1>13. MovingAt("r_move", r)
  <2> DEFINE rest == left \ {q.curr}
  <2>1. /\ TableOf(node, arrays[r.new_store].elt, r.new_size, moved)
        /\ TableOf(node, RestOf("r_move", r), size, rest)
        /\ moved \cap rest = {} /\ HandOf("r_move", r) \cap (moved \cup rest) = {}
        /\ moved \cup rest \cup HandOf("r_move", r) = 1..used
        /\ rest \in SUBSET NodeId
    BY <1>6, <1>9, <1>12 DEF HandOf
  <2> HIDE DEF rest
  <2> QED BY <2>1, <1>5, <1>7, <1>9 DEF MovingAt
<1>14. "r_move" \in MovePcs /\ "r_move" \notin SwapPcs
  BY DEF MovePcs, SwapPcs
<1> QED BY <1>3, <1>5, <1>9, <1>13, <1>14, QuietResize

(* The node in hand goes before the moved ones of its slot.                *)
LEMMA MoveNodeSeq ==
    ASSUME NEW t \in Threads, SeqInv(t), ExchangeInv, MoveNode(t)
    PROVE  SeqInv(t)'
<1>1. PICK r : r = rsz[t]
  OBVIOUS
<1> DEFINE s == hashcode[node[r.n].key] % r.new_size
           e == arrays[r.new_store].elt
           h == e[s]
<1>2. /\ pc[t] = "r_move" /\ node' = [node EXCEPT ![r.n].next = h]
      /\ arrays' = Put(arrays, r.new_store, s, r.n) /\ pc' = [pc EXCEPT ![t] = "r_walk"]
      /\ UNCHANGED <<size, allow_resize, store, used, arg, loc, rsz, calls, fault>>
  BY Zenon, <1>1 DEF MoveNode, Goto, Put
<1>3. /\ r \in Resize_ /\ rsz = [rsz EXCEPT ![t] = r] /\ Links(node) /\ size \in Nat \ {0}
      /\ ArraysTyped(arrays) /\ 1..used \subseteq NodeId /\ NULL \notin NodeId
  BY <1>1, TypeFacts DEF SeqInv
<1>4. /\ MovingAt("r_move", r) /\ pc[t] \in ResizePcs /\ NoRing(node)
      /\ node \in [NodeId -> Node_] /\ r.new_store \in DOMAIN arrays \ {store}
  BY Zenon, <1>1, <1>2, ResizeFacts DEF MovePcs, ResizePcs
<1>5. PICK moved \in SUBSET NodeId, left \in SUBSET NodeId :
         /\ TableOf(node, e, r.new_size, moved)
         /\ TableOf(node, RestOf("r_move", r), size, left)
         /\ moved \cap left = {} /\ r.n \notin moved \cup left
         /\ moved \cup left \cup {r.n} = 1..used
  BY <1>4 DEF MovingAt, HandOf
<1>6. r.n \in NodeId /\ r.n \in Ptr /\ node[r.n].key \in Keys
  <2>1. r.n \in 1..used
    BY <1>5
  <2> QED BY <2>1, <1>3 DEF SeqInv, NodesOK, Ptr
<1>7. s \in Slots(r.new_size) /\ h \in Ptr /\ h \in moved \cup {NULL}
  <2>1. s \in Slots(r.new_size)
    BY <1>5, <1>6, SlotInRange, HashAssumption DEF TableOf
  <2>2. HeadsOf(e, r.new_size) \ {NULL} \subseteq moved /\ e \in [Slots(r.new_size) -> Ptr]
    <3> HIDE DEF e
    <3> QED BY <1>3, <1>5, TableParts
  <2> QED BY <2>1, <2>2 DEF HeadsOf
<1>8. /\ node' \in [NodeId -> Node_] /\ node'[r.n].next = h
      /\ \A m \in NodeId \ {r.n} : node'[m] = node[m]
      /\ \A m \in NodeId : node'[m].key = node[m].key /\ node'[m].val = node[m].val
  <2> DEFINE b == [node[r.n] EXCEPT !.next = h]
  <2>1. b \in Node_ /\ b.next = h /\ b.key = node[r.n].key /\ b.val = node[r.n].val
    <3> HIDE DEF h
    <3> QED BY <1>4, <1>6, <1>7 DEF Node_
  <2>2. node' = [node EXCEPT ![r.n] = b]
    BY <1>2
  <2> HIDE DEF b, h
  <2> QED BY <2>1, <2>2, <1>4, <1>6
<1>9. Links(node')
  BY <1>8 DEF Links, Node_
<1> DEFINE d == PutIn(e, s, r.n)
<1>10. /\ ArraysTyped(arrays') /\ DOMAIN arrays' = DOMAIN arrays
       /\ arrays'[r.new_store].elt = d /\ arrays'[store] = arrays[store]
  <2>1. /\ Shapes /\ arrays' = Put(arrays, r.new_store, s, r.n) /\ r.new_store \in DOMAIN arrays
        /\ store \in DOMAIN arrays
    BY <1>2, <1>4 DEF ExchangeInv, ArraysOwned, Shapes
  <2> DEFINE a == r.new_store
             c == r.n
  <2>2. a \in DOMAIN arrays /\ c \in Ptr /\ arrays' = Put(arrays, a, s, c)
    BY <2>1, <1>6
  <2> HIDE DEF a, c, s
  <2>3. /\ ArraysTyped(arrays') /\ DOMAIN arrays' = DOMAIN arrays
        /\ arrays'[a].elt = PutIn(arrays[a].elt, s, c)
        /\ \A b \in DOMAIN arrays \ {a} : arrays'[b] = arrays[b]
    BY <2>1, <2>2, <1>3, SlotTyped
  <2> QED BY <2>1, <2>3, <1>4 DEF a, c
<1>11. TableOf(node', d, r.new_size, moved \cup {r.n})
  <2> DEFINE n == r.new_size
             c == r.n
  <2>1. /\ s = SlotIn(node', n, c) /\ node'[c].next = e[s] /\ node'[c].key \in Keys
        /\ d = [e EXCEPT ![s] = c]
    BY <1>6, <1>8 DEF SlotIn, PutIn
  <2>2. \A m \in NodeId \ {c} : node'[m].next = node[m].next /\ node'[m].key = node[m].key
    BY <1>8
  <2>3. c \in NodeId /\ c \notin moved /\ TableOf(node, e, n, moved)
    BY <1>5, <1>6
  <2> HIDE DEF e, s, d, n, c
  <2>4. TableOf(node', d, n, moved \cup {c})
    BY <2>1, <2>2, <2>3, <1>3, <1>9, PutHead
  <2> QED BY <2>4 DEF n, c
<1>12. TableOf(node', RestOf("r_move", r), size, left)
  <2> DEFINE f == RestOf("r_move", r)
  <2>1. \A m \in left : node'[m].next = node[m].next /\ node'[m].key = node[m].key
    BY <1>5, <1>8
  <2>2. TableOf(node, f, size, left)
    BY <1>5
  <2> HIDE DEF f
  <2>3. TableOf(node', f, size, left)
    BY <2>1, <2>2, <1>3, <1>9, TableFrame
  <2> QED BY <2>3 DEF f
<1>13. NoRing(node')
  <2>1. ClosedIn(node, moved)
    <3> HIDE DEF e
    <3> QED BY <1>3, <1>5, TableParts
  <2>2. node'[r.n].next \in moved \cup {NULL} /\ r.n \notin moved
        /\ \A m \in NodeId \ {r.n} : node'[m].next = node[m].next
    BY Zenon, <1>5, <1>7, <1>8
  <2> QED BY <2>1, <2>2, <1>4, <1>6, NoRingLink
<1>14. RestOf("r_walk", r)' = RestOf("r_move", r)
  BY Zenon, <1>2, <1>10 DEF RestOf
<1>15. MovingAt("r_walk", r)'
  <2> DEFINE all == moved \cup {r.n}
  <2>1. /\ TableOf(node', arrays'[r.new_store].elt, r.new_size, all)
        /\ TableOf(node', RestOf("r_walk", r)', size', left)
        /\ all \cap left = {} /\ all \cup left = 1..used' /\ all \in SUBSET NodeId
    BY Zenon, <1>2, <1>5, <1>6, <1>10, <1>11, <1>12, <1>14
  <2>2. HandOf("r_walk", r)' = {}
    BY DEF HandOf
  <2>3. arrays'[store'].elt \in [Slots(size') -> Ptr] /\ r.i < size'
    BY Zenon, <1>2, <1>4, <1>10 DEF MovingAt
  <2> HIDE DEF all
  <2> QED BY <2>1, <2>2, <2>3 DEF MovingAt
<1>16. "r_walk" \in MovePcs /\ "r_walk" \notin SwapPcs
  BY DEF MovePcs, SwapPcs
<1>17. store' \in DOMAIN arrays' /\ size' \in Nat \ {0} /\ rsz' = [rsz EXCEPT ![t] = r]
  BY Zenon, <1>2, <1>3, <1>10 DEF ExchangeInv, ArraysOwned, Shapes
<1> QED BY Zenon, <1>2, <1>3, <1>4, <1>8, <1>10, <1>13, <1>15, <1>16, <1>17, ResizeSeq

(* ht->size, the old array and ht->store are exchanged in order.           *)
LEMMA SetSizeSeq ==
    ASSUME NEW t \in Threads, SeqInv(t), ExchangeInv, SetSize(t)
    PROVE  SeqInv(t)'
<1>1. PICK r : r = rsz[t]
  OBVIOUS
<1>2. /\ pc[t] = "r_size" /\ size' = r.new_size /\ pc' = [pc EXCEPT ![t] = "r_old"]
      /\ UNCHANGED <<allow_resize, store, arrays, node, used, arg, loc, rsz, calls, fault>>
  BY <1>1 DEF SetSize, Goto
<1>3. r \in Resize_ /\ rsz' = [rsz EXCEPT ![t] = r] /\ ArraysTyped(arrays)
  BY <1>1, <1>2, TypeFacts DEF SeqInv
<1>4. /\ SwappingAt("r_size", r) /\ pc[t] \in ResizePcs /\ NoRing(node)
      /\ node \in [NodeId -> Node_]
  BY <1>1, <1>2, ResizeFacts DEF SwapPcs, ResizePcs
<1>5. size' \in Nat \ {0} /\ SwappingAt("r_old", r)'
  BY <1>2, <1>4 DEF SwappingAt, TableOf
<1>6. "r_old" \notin MovePcs /\ "r_old" \in SwapPcs
  BY DEF MovePcs, SwapPcs
<1>7. store' \in DOMAIN arrays' /\ ArraysTyped(arrays')
  BY <1>2, <1>3 DEF ExchangeInv, ArraysOwned, Shapes
<1> QED BY <1>2, <1>3, <1>4, <1>5, <1>6, <1>7, ResizeSeq

LEMMA ReadOldStoreSeq ==
    ASSUME NEW t \in Threads, SeqInv(t), ExchangeInv, ReadOldStore(t)
    PROVE  SeqInv(t)'
<1>1. PICK r : r = [rsz[t] EXCEPT !.base = store]
  OBVIOUS
<1>2. /\ pc[t] = "r_old" /\ UNCHANGED <<table, arg, loc, calls, fault>>
      /\ pc' = [pc EXCEPT ![t] = "r_free"] /\ rsz' = [rsz EXCEPT ![t] = r]
  BY <1>1 DEF ReadOldStore, Goto, SetResize
<1>3. rsz[t] \in Resize_ /\ store \in Nat
  BY TypeFacts, ArrayNumbers DEF SeqInv
<1>4. /\ r \in Resize_ /\ r.base = store
      /\ r.new_store = rsz[t].new_store /\ r.new_size = rsz[t].new_size
  BY <1>1, <1>3 DEF Resize_
<1>5. SwappingAt("r_old", rsz[t]) /\ pc[t] \in ResizePcs
  BY <1>2, ResizeFacts DEF SwapPcs, ResizePcs
<1>6. SwappingAt("r_free", r) /\ "r_free" \notin MovePcs /\ "r_free" \in SwapPcs
  BY <1>4, <1>5 DEF SwappingAt, MovePcs, SwapPcs
<1> QED BY <1>2, <1>4, <1>5, <1>6, QuietResize

LEMMA FreeStoreSeq ==
    ASSUME NEW t \in Threads, SeqInv(t), ExchangeInv, FreeStore(t)
    PROVE  SeqInv(t)'
<1>1. PICK r : r = rsz[t]
  OBVIOUS
<1> DEFINE y == [arrays[r.base] EXCEPT !.live = FALSE]
<1>2. /\ pc[t] = "r_free" /\ arrays' = [arrays EXCEPT ![r.base] = y]
      /\ pc' = [pc EXCEPT ![t] = "r_store"]
      /\ UNCHANGED <<size, allow_resize, store, node, used, arg, loc, rsz, calls, fault>>
  BY <1>1 DEF FreeStore, Goto
<1>3. /\ r \in Resize_ /\ rsz = [rsz EXCEPT ![t] = r] /\ ArraysTyped(arrays)
      /\ size \in Nat \ {0}
  BY <1>1, TypeFacts DEF SeqInv
<1>4. /\ SwappingAt("r_free", r) /\ pc[t] \in ResizePcs /\ NoRing(node)
      /\ node \in [NodeId -> Node_] /\ r.new_store \in DOMAIN arrays \ {store}
  BY <1>1, <1>2, ResizeFacts DEF SwapPcs, ResizePcs
<1>5. r.base = store /\ store \in DOMAIN arrays
  BY <1>4 DEF SwappingAt, ExchangeInv, ArraysOwned, Shapes
<1>6. y.live = FALSE /\ y.elt = arrays[r.base].elt
  <2>1. arrays[r.base] = [live |-> arrays[r.base].live, elt |-> arrays[r.base].elt]
    BY <1>5 DEF ExchangeInv, ArraysOwned, Shapes
  <2> QED BY <2>1
<1> HIDE DEF y
<1>7. /\ DOMAIN arrays' = DOMAIN arrays /\ arrays'[r.base] = y
      /\ \A a \in DOMAIN arrays \ {r.base} : arrays'[a] = arrays[a]
  BY <1>2, <1>5
<1>8. ArraysTyped(arrays')
  BY <1>3, <1>5, <1>6, <1>7 DEF ArraysTyped
<1>9. SwappingAt("r_store", r)'
  <2>1. arrays'[r.new_store].elt = arrays[r.new_store].elt
    BY <1>4, <1>5, <1>7
  <2> QED BY <2>1, <1>2, <1>4 DEF SwappingAt
<1>10. "r_store" \notin MovePcs /\ "r_store" \in SwapPcs
  BY DEF MovePcs, SwapPcs
<1>11. store' \in DOMAIN arrays' /\ size' \in Nat \ {0} /\ rsz' = [rsz EXCEPT ![t] = r]
  BY <1>2, <1>3, <1>5, <1>7
<1> QED BY <1>2, <1>3, <1>4, <1>8, <1>9, <1>10, <1>11, ResizeSeq

LEMMA SetStoreSeq ==
    ASSUME NEW t \in Threads, SeqInv(t), ExchangeInv, SetStore(t)
    PROVE  SeqInv(t)'
<1>1. PICK r : r = rsz[t]
  OBVIOUS
<1>2. /\ pc[t] = "r_store" /\ store' = r.new_store /\ pc' = [pc EXCEPT ![t] = "ret"]
      /\ UNCHANGED <<size, allow_resize, arrays, node, used, arg, loc, rsz, calls, fault>>
  BY <1>1 DEF SetStore, Goto
<1>3. /\ r \in Resize_ /\ rsz' = [rsz EXCEPT ![t] = r] /\ ArraysTyped(arrays')
      /\ size' \in Nat \ {0}
  BY <1>1, <1>2, TypeFacts DEF SeqInv
<1>4. /\ SwappingAt("r_store", r) /\ pc[t] \in ResizePcs /\ NoRing(node)
      /\ node \in [NodeId -> Node_] /\ r.new_store \in DOMAIN arrays
  BY <1>1, <1>2, ResizeFacts DEF SwapPcs, ResizePcs
<1>5. TableOf(node', arrays'[store'].elt, size', 1..used)
  BY <1>2, <1>4 DEF SwappingAt
<1>6. "ret" \notin MovePcs /\ "ret" \notin SwapPcs
  BY DEF MovePcs, SwapPcs
<1>7. store' \in DOMAIN arrays'
  BY <1>2, <1>4
<1> QED BY <1>2, <1>3, <1>4, <1>5, <1>6, <1>7, ResizeSeq
-----------------------------------------------------------------------------
(* A new array of empty slots, and the loop before its first turn.         *)
LEMMA NewStoreSeq ==
    ASSUME NEW t \in Threads, SeqInv(t), ExchangeInv, NewStore(t)
    PROVE  SeqInv(t)'
<1> DEFINE n == get_prime(2 * size)
           z == ZeroArray(n)
           k == Len(arrays) + 1
<1>1. PICK r : r = [NoResize EXCEPT !.new_size = n, !.new_store = k]
  OBVIOUS
<1>2. /\ pc[t] = "r_new" /\ arrays' = Append(arrays, z)
      /\ pc' = [pc EXCEPT ![t] = "r_for"] /\ rsz' = [rsz EXCEPT ![t] = r]
      /\ UNCHANGED <<size, allow_resize, store, node, used, arg, loc, calls, fault>>
  BY <1>1 DEF NewStore, Goto, SetResize
<1>3. /\ Links(node) /\ size \in Nat \ {0} /\ ArraysTyped(arrays)
      /\ node \in [NodeId -> Node_] /\ NoRing(node)
  BY TypeFacts DEF SeqInv, TypeOK, NodesOK
<1>4. n \in Nat \ {0}
  <2>1. 2 * size \in Nat \ {0}
    BY <1>3
  <2> QED BY <2>1, NewSize
<1>5. z.live = TRUE /\ z.elt \in [Slots(n) -> Ptr] /\ \A s \in Slots(n) : z.elt[s] = NULL
  BY DEF ZeroArray, Ptr
<1>6. OneMore(arrays, z, arrays')
  <2>1. IsSeq(arrays)
    BY DEF ExchangeInv, ArraysOwned, Shapes
  <2> HIDE DEF z
  <2> QED BY <2>1, <1>2, Appended
<1> HIDE DEF n, z
<1>7. /\ k \in Nat /\ DOMAIN arrays' = DOMAIN arrays \cup {k} /\ k \notin DOMAIN arrays
      /\ arrays'[k] = z /\ \A a \in DOMAIN arrays : arrays'[a] = arrays[a]
  BY <1>6 DEF OneMore
<1> HIDE DEF k
<1>8. /\ r \in Resize_ /\ r.new_size = n /\ r.new_store = k /\ r.i = 0 /\ r.curr = NULL
  BY <1>1, <1>4, <1>7 DEF NoResize, Resize_, Ptr
<1>9. ArraysTyped(arrays')
  <2>1. z.live \in BOOLEAN /\ \A s \in DOMAIN z.elt : z.elt[s] \in Ptr
    BY <1>5
  <2> QED BY <2>1, <1>3, <1>7 DEF ArraysTyped
<1>10. store' \in DOMAIN arrays' /\ arrays'[store'] = arrays[store]
  BY <1>2, <1>7 DEF ExchangeInv, ArraysOwned, Shapes
<1>11. TableOf(node, arrays[store].elt, size, 1..used)
  BY <1>2 DEF SeqInv, CalmOK, Resizing, Moving, Swapping, Linked, Linking
<1>12. TableOf(node, z.elt, n, {})
  <2> DEFINE e == z.elt
  <2>1. e \in [Slots(n) -> Ptr] /\ \A s \in Slots(n) : e[s] = NULL
    BY <1>5
  <2> HIDE DEF e
  <2>2. TableOf(node, e, n, {})
    BY <2>1, <1>3, <1>4, EmptyTable
  <2> QED BY <2>2 DEF e
<1>13. arrays[store].elt \in [Slots(size) -> Ptr] /\ 1..used \in SUBSET NodeId
  <2>1. 1..used \subseteq NodeId
    BY TypeFacts DEF SeqInv
  <2> QED BY <2>1, <1>11 DEF TableOf
<1>14. RestOf("r_for", r)' = arrays[store].elt
  <2>1. \A s \in Slots(size) : s > 0 \/ s = 0
    BY <1>3 DEF Slots
  <2>2. RestOf("r_for", r)' = [s \in Slots(size) |-> arrays[store].elt[s]]
    BY <2>1, <1>2, <1>8, <1>10 DEF RestOf
  <2> QED BY <2>2, <1>13
<1>15. MovingAt("r_for", r)'
  <2> DEFINE moved == {}
             left == 1..used
  <2>1. /\ TableOf(node', arrays'[r.new_store].elt, r.new_size, moved)
        /\ TableOf(node', RestOf("r_for", r)', size', left)
        /\ moved \cap left = {} /\ HandOf("r_for", r)' = {}
        /\ moved \cup left = 1..used' /\ moved \in SUBSET NodeId /\ left \in SUBSET NodeId
    BY <1>2, <1>7, <1>8, <1>11, <1>12, <1>13, <1>14 DEF HandOf
  <2>2. arrays'[store'].elt \in [Slots(size') -> Ptr]
    BY <1>2, <1>10, <1>13
  <2> HIDE DEF moved, left
  <2> QED BY <2>1, <2>2, <1>8 DEF MovingAt
<1>16. "r_for" \in MovePcs /\ "r_for" \notin SwapPcs /\ pc[t] \in ResizePcs
  BY <1>2 DEF MovePcs, SwapPcs, ResizePcs
<1> QED BY <1>2, <1>3, <1>8, <1>9, <1>10, <1>15, <1>16, ResizeSeq

(* No access of one thread alone is to a freed array or out of its bounds. *)
LEMMA NoBadAccessSeq ==
    ASSUME NEW t \in Threads, Threads = {t}, SeqInv(t), ExchangeInv
    PROVE  ~BadAccess(t)
<1>1. pc[t] # "r_store" => arrays[store].live
  BY DEF ExchangeInv, ArraysOwned, FreedOnlyInExchange
<1>2. /\ loc[t] \in Local_ /\ rsz[t] \in Resize_ /\ size \in Nat \ {0} /\ arg[t] \in Call_
      /\ Links(node)
  BY TypeFacts DEF SeqInv
<1>3. ASSUME pc[t] \in {"head", "linkhead"} PROVE ~BadIndex(loc[t].base, loc[t].slot)
  <2>1. /\ pc[t] \in InsertPcs /\ loc[t].base = store
        /\ loc[t].slot = hashcode[arg[t].key] % size /\ arg[t].key \in Keys
    BY <1>3 DEF SeqInv, WalkedAt, InsertPcs
  <2>2. loc[t].slot \in Slots(size)
    BY <2>1, <1>2, SlotInRange, HashAssumption
  <2>3. DOMAIN arrays[store].elt = Slots(size)
    BY <2>1, CalmTable DEF TableOf
  <2> QED BY <2>1, <2>2, <2>3, <1>1, <1>3 DEF BadIndex
<1>4. ASSUME pc[t] = "r_head" PROVE ~BadIndex(rsz[t].base, rsz[t].i)
  <2>1. MovingAt("r_head", rsz[t])
    BY <1>4, ResizeFacts DEF MovePcs
  <2>2. rsz[t].i \in Slots(size) /\ rsz[t].base = store
    BY <2>1, <1>2 DEF MovingAt, Slots, Resize_
  <2>3. DOMAIN arrays[store].elt = Slots(size)
    BY <2>1 DEF MovingAt
  <2> QED BY <2>2, <2>3, <1>1, <1>4 DEF BadIndex
<1>5. ASSUME pc[t] = "r_free" PROVE arrays[rsz[t].base].live
  <2>1. SwappingAt("r_free", rsz[t])
    BY <1>5, ResizeFacts DEF SwapPcs
  <2> QED BY <2>1, <1>1, <1>5 DEF SwappingAt
<1> QED BY <1>3, <1>4, <1>5 DEF BadAccess
-----------------------------------------------------------------------------
LEMMA InitSeq == ASSUME NEW t \in Threads, Init PROVE SeqInv(t)
<1>1. InitTable /\ TypeOK
  BY InitIs, InitType
<1>2. /\ pc[t] = "idle" /\ used = 0 /\ ~fault /\ size \in Nat \ {0} /\ store = 1
      /\ arrays[store].elt = ZeroElt
      /\ \A m \in NodeId : node[m].next = NULL
  BY <1>1 DEF InitTable
<1>3. Linked(t) = {} /\ 1..used = {}
  BY <1>2 DEF Linked, Linking
<1>4. NodesOK(t)
  <2>1. NoRing(node)
    <3> SUFFICES ASSUME NEW S \in SUBSET NodeId, S # {}
                 PROVE  \E m \in S : node[m].next \notin S
      BY DEF NoRing
    <3>1. PICK m \in S : TRUE
      OBVIOUS
    <3>2. node[m].next = NULL /\ NULL \notin S
      BY <1>2, NullNotNode
    <3> QED BY <3>2
  <2> QED BY <2>1, <1>3 DEF NodesOK
<1>5. CalmOK(t)
  <2>1. Links(node)
    BY <1>1, TypeFacts
  <2>2. ZeroElt \in [Slots(size) -> Ptr] /\ \A s \in Slots(size) : ZeroElt[s] = NULL
    BY DEF ZeroElt, Ptr
  <2>3. TableOf(node, ZeroElt, size, {})
    BY <1>2, <2>1, <2>2, EmptyTable
  <2> QED BY <2>3, <1>2, <1>3 DEF CalmOK
<1>6. ResizeOK(t)
  BY <1>2 DEF ResizeOK, Moving, Swapping
<1>7. WalkedAt(pc[t], loc[t], arg[t])
  BY <1>2 DEF WalkedAt, InsertPcs
<1> QED BY <1>1, <1>2, <1>4, <1>5, <1>6, <1>7 DEF SeqInv

LEMMA StutterSeq ==
    ASSUME NEW t \in Threads, SeqInv(t), UNCHANGED vars
    PROVE  SeqInv(t)'
<1>1. UNCHANGED <<size, allow_resize, store, arrays, node, used, pc, arg, loc, rsz, calls, fault>>
  BY DEF vars, table, frames
<1>2. TypeOK' /\ ~fault'
  BY <1>1 DEF SeqInv, TypeOK
<1>3. NodesOK(t)' /\ CalmOK(t)'
  BY <1>1 DEF SeqInv, NodesOK, CalmOK, Linked, Linking, Resizing, Moving, Swapping
<1>4. ResizeOK(t)'
  <2>1. PICK label : label = pc[t]
    OBVIOUS
  <2>2. PICK r : r = rsz[t]
    OBVIOUS
  <2>3. pc'[t] = label /\ rsz'[t] = r
    BY <1>1, <2>1, <2>2
  <2>4. MovingAt(label, r) => MovingAt(label, r)'
    BY <1>1 DEF MovingAt, RestOf, HandOf
  <2>5. SwappingAt(label, r) => SwappingAt(label, r)'
    BY <1>1 DEF SwappingAt
  <2>6. (Moving(t)' <=> Moving(t)) /\ (Swapping(t)' <=> Swapping(t))
    BY <1>1 DEF Moving, Swapping
  <2> QED BY <2>1, <2>2, <2>3, <2>4, <2>5, <2>6 DEF SeqInv, ResizeOK
<1>5. WalkedAt(pc[t], loc[t], arg[t])'
  BY <1>1, WalkedSame DEF SeqInv
<1> QED BY <1>2, <1>3, <1>4, <1>5 DEF SeqInv

LEMMA NextSeq ==
    ASSUME NEW t \in Threads, Threads = {t}, SeqInv(t), ExchangeInv, [Next]_vars
    PROVE  SeqInv(t)'
<1>1. CASE UNCHANGED vars
  BY <1>1, StutterSeq
<1>2. ASSUME CallInsert(t) PROVE SeqInv(t)'
  BY <1>2, CallSeq DEF CallInsert
<1>3. ASSUME CallLookup(t) PROVE SeqInv(t)'
  <2>1. PICK k \in Keys : Call(t, "lookup", k, NULL)
    BY <1>3 DEF CallLookup
  <2> QED BY <2>1, CallSeq
<1>4. CASE InsertStep(t) \/ Return(t)
  BY <1>4, ReadSizeSeq, ReadBaseSeq, ReadHeadSeq, FoundSeq, AdvanceSeq, EndSeq, NewNodeSeq,
     LinkAfterPrevSeq, ReadBaseToLinkSeq, LinkHeadSeq DEF InsertStep
<1>5. CASE ResizeStep(t)
  BY <1>5, NewStoreSeq, ForTestSeq, ForBaseSeq, ForHeadSeq, TakeNodeSeq, ChainDoneSeq,
     MoveNodeSeq, SetSizeSeq, ReadOldStoreSeq, FreeStoreSeq, SetStoreSeq DEF ResizeStep
<1>6. ~Fault(t)
  BY NoBadAccessSeq DEF Fault
<1> QED BY <1>1, <1>2, <1>3, <1>4, <1>5, <1>6 DEF Next, Step

(* A thread that has the table to itself keeps SeqInv, whether the table   *)
(* is resized or not.                                                      *)
Alone(t) == SeqInv(t) /\ ExchangeInv
THEOREM SeqInvariance == ASSUME NEW t \in Threads, Threads = {t} PROVE Spec => []Alone(t)
<1>1. Init => Alone(t)
  BY InitSeq, InitExchange DEF Alone
<1>2. Alone(t) /\ [Next]_vars => Alone(t)'
  BY NextSeq, NextExchange DEF Alone
<1> QED BY <1>1, <1>2, PTL DEF Spec

(* It touches no freed array and none outside its bounds.                  *)
THEOREM SeqSafety ==
    ASSUME NEW t \in Threads, Threads = {t} PROVE Spec => []NoInvalidAccess
<1>1. Alone(t) => NoInvalidAccess
  BY DEF Alone, SeqInv, NoInvalidAccess
<1> QED BY <1>1, SeqInvariance, PTL
-----------------------------------------------------------------------------
(* What the table holds, also mid-resize: the nodes that are linked.       *)
LEMMA ReachIs == Reach({NULL}) = {} /\ \A P : Reach(P) = Reached(node, P)
<1>1. \A P : Reach(P) = Reached(node, P)
  BY DEF Reach, Reached, Closed, ClosedIn
<1> QED BY <1>1, ReachedNull

LEMMA EntriesMoving ==
    ASSUME NEW t \in Threads, SeqInv(t), ExchangeInv, Moving(t)
    PROVE  ResizeEntries(t) = 1..used
<1>1. PICK label : label = pc[t]
  OBVIOUS
<1>2. PICK r : r = rsz[t]
  OBVIOUS
<1>3. label \in MovePcs /\ MovingAt(label, r)
  BY <1>1, <1>2, ResizeFacts DEF Moving, MovePcs
<1>4. Links(node) /\ r \in Resize_ /\ size \in Nat \ {0}
  BY <1>2, TypeFacts DEF SeqInv
<1> DEFINE e == arrays[r.new_store].elt
           g == RestOf(label, r)
           early == label \in {"r_for", "r_base", "r_head"}
           left == {s \in DOMAIN arrays[store].elt : s > r.i \/ (s = r.i /\ early)}
           A == HeadsOf(e, r.new_size)
           B == HeadsOf(g, size)
           C == {r.curr} \cup {arrays[store].elt[s] : s \in left}
<1>5. PICK m1 \in SUBSET NodeId, m2 \in SUBSET NodeId :
         /\ TableOf(node, e, r.new_size, m1) /\ TableOf(node, g, size, m2)
         /\ m1 \cup m2 \cup HandOf(label, r) = 1..used
  BY <1>3 DEF MovingAt
<1>6. A \in SUBSET Ptr /\ B \in SUBSET Ptr /\ Reached(node, A) = m1 /\ Reached(node, B) = m2
  <2> HIDE DEF e, g
  <2> QED BY <1>5 DEF TableOf, HeadsOf
<1>7. arrays[store].elt \in [Slots(size) -> Ptr]
  BY <1>3 DEF MovingAt
<1>8. B \ {NULL} = C \ {NULL} /\ C \in SUBSET Ptr
  <2>1. early => r.curr = NULL
    BY <1>3 DEF MovingAt
  <2>2. ~early => r.i \in Slots(size)
    BY <1>3, <1>4 DEF MovingAt, MovePcs, Slots, Resize_
  <2>3. \A s \in Slots(size) :
           g[s] = IF s > r.i \/ (s = r.i /\ early) THEN arrays[store].elt[s]
                  ELSE IF s = r.i THEN r.curr ELSE NULL
    BY DEF RestOf
  <2>4. r.curr \in Ptr
    BY <1>4 DEF Resize_
  <2>5. \A s \in Slots(size) : s \in Int
    BY DEF Slots
  <2>6. r.i \in Int
    BY <1>4 DEF Resize_
  <2> HIDE DEF g, early
  <2>7. ASSUME NEW m \in B \ {NULL} PROVE m \in C
    <3>1. PICK s \in Slots(size) : m = g[s]
      BY DEF HeadsOf
    <3> QED BY <3>1, <2>3, <1>7
  <2>8. ASSUME NEW m \in C \ {NULL} PROVE m \in B
    <3>1. CASE m = r.curr
      <4>1. ~early /\ r.i \in Slots(size)
        BY <3>1, <2>1, <2>2
      <4>2. g[r.i] = r.curr
        BY <4>1, <2>3, <2>6
      <4> QED BY <3>1, <4>1, <4>2 DEF HeadsOf
    <3>2. CASE m # r.curr
      <4>1. PICK s \in left : m = arrays[store].elt[s]
        BY <3>2
      <4>2. s \in Slots(size) /\ g[s] = m
        BY <4>1, <2>3, <1>7
      <4> QED BY <4>2 DEF HeadsOf
    <3> QED BY <3>1, <3>2
  <2>9. C \in SUBSET Ptr
    BY <2>4, <1>7
  <2> HIDE DEF B, C
  <2> QED BY <2>7, <2>8, <2>9
<1>9. Heads(r.new_store) = A
  <2>1. e \in [Slots(r.new_size) -> Ptr]
    BY <1>5 DEF TableOf
  <2> QED BY <2>1 DEF Heads, HeadsOf
<1>10. Reached(node, A \cup C) = m1 \cup m2
  <2> HIDE DEF A, B, C
  <2>1. Reached(node, A \cup C) = Reached(node, A) \cup Reached(node, C)
    BY <1>4, <1>6, <1>8, ReachedUnion
  <2>2. Reached(node, C) = Reached(node, B)
    BY <1>8, ReachedNonNull
  <2> QED BY <2>1, <2>2, <1>6
<1>11. ResizeEntries(t) = Reach(A \cup C) \cup HandOf(label, r)
  <2>1. ResizeEntries(t) = Reach(Heads(r.new_store) \cup {r.curr}
                              \cup {arrays[store].elt[s] : s \in left})
                           \cup HandOf(label, r)
    BY <1>1, <1>2 DEF ResizeEntries, HandOf
  <2>2. Heads(r.new_store) \cup {r.curr} \cup {arrays[store].elt[s] : s \in left} = A \cup C
    BY <1>9
  <2> QED BY <2>1, <2>2
<1> QED BY <1>5, <1>10, <1>11, ReachIs

LEMMA EntriesSeq ==
    ASSUME NEW t \in Threads, Threads = {t}, SeqInv(t), ExchangeInv
    PROVE  Entries = Linked(t)
<1>1. CASE Moving(t)
  <2>1. Entries = ResizeEntries(t)
    BY <1>1 DEF Entries
  <2>2. Linked(t) = 1..used
    BY <1>1 DEF Moving, Linked, Linking
  <2> QED BY <2>1, <2>2, <1>1, EntriesMoving
<1>2. CASE Swapping(t)
  <2> DEFINE r == rsz[t]
             e == arrays[r.new_store].elt
  <2>1. ~Moving(t) /\ Linked(t) = 1..used
    BY <1>2 DEF Moving, Swapping, Linked, Linking
  <2>2. Entries = Reach(Heads(r.new_store))
    BY <1>2, <2>1 DEF Entries
  <2>3. TableOf(node, e, r.new_size, 1..used)
    BY <1>2 DEF SeqInv, ResizeOK, SwappingAt
  <2>4. Heads(r.new_store) = {e[s] : s \in Slots(r.new_size)}
    <3>1. e \in [Slots(r.new_size) -> Ptr]
      BY <2>3 DEF TableOf
    <3> QED BY <3>1 DEF Heads
  <2>5. Reached(node, {e[s] : s \in Slots(r.new_size)}) = 1..used
    <3> HIDE DEF e
    <3> QED BY <2>3 DEF TableOf
  <2> QED BY <2>1, <2>2, <2>4, <2>5, ReachIs
<1>3. CASE ~Moving(t) /\ ~Swapping(t)
  <2> DEFINE e == arrays[store].elt
  <2>1. Entries = Reach(Heads(store))
    BY <1>3 DEF Entries
  <2>2. TableOf(node, e, size, Linked(t))
    BY <1>3 DEF SeqInv, CalmOK, Resizing
  <2>3. Heads(store) = {e[s] : s \in Slots(size)}
    <3>1. e \in [Slots(size) -> Ptr]
      BY <2>2 DEF TableOf
    <3> QED BY <3>1 DEF Heads
  <2>4. Reached(node, {e[s] : s \in Slots(size)}) = Linked(t)
    <3> HIDE DEF e
    <3> QED BY <2>2 DEF TableOf
  <2> QED BY <2>1, <2>3, <2>4, ReachIs
<1> QED BY <1>1, <1>2, <1>3

(* Nothing is lost, kept twice or chained where it is not looked for, and  *)
(* every list ends, whether the table is being resized or not.             *)
THEOREM SeqPlacement ==
    ASSUME NEW t \in Threads, Threads = {t} PROVE Spec => []WellPlaced
<1>1. ASSUME Alone(t) PROVE WellPlaced
  <2> DEFINE e == arrays[store].elt
  <2> SUFFICES ASSUME Settled, NEW s \in DOMAIN e, e[s] # NULL, NEW m \in Reach({e[s]})
               PROVE  hashcode[node[m].key] % size = s
    BY DEF WellPlaced
  <2>1. TableOf(node, e, size, Linked(t)) /\ Links(node)
    BY <1>1, TypeFacts DEF Settled, Alone, SeqInv, CalmOK, Resizing
  <2> HIDE DEF e
  <2>2. s \in Slots(size)
    BY <2>1 DEF TableOf
  <2>3. SlotIn(node, size, m) = s
    BY <2>1, <2>2, InSlot, ReachIs
  <2> QED BY <2>3 DEF SlotIn
<1> QED BY <1>1, SeqInvariance, PTL

THEOREM SeqNoDuplicates ==
    ASSUME NEW t \in Threads, Threads = {t} PROVE Spec => []NoDuplicateKeys
<1>1. ASSUME Alone(t) PROVE NoDuplicateKeys
  <2>1. Entries = Linked(t)
    BY <1>1, EntriesSeq DEF Alone
  <2> QED BY <1>1, <2>1 DEF NoDuplicateKeys, Alone, SeqInv, NodesOK
<1> QED BY <1>1, SeqInvariance, PTL

THEOREM SeqNoCycle ==
    ASSUME NEW t \in Threads, Threads = {t} PROVE Spec => []Acyclic
<1>1. ASSUME Alone(t) PROVE Acyclic
  <2>1. Entries = Linked(t)
    BY <1>1, EntriesSeq DEF Alone
  <2>2. Linked(t) \subseteq NodeId
    BY <1>1, TypeFacts DEF Linked, Alone, SeqInv
  <2>3. NoRing(node)
    BY <1>1 DEF Alone, SeqInv, NodesOK
  <2> QED BY <2>1, <2>2, <2>3 DEF Acyclic, NoRing
<1> QED BY <1>1, SeqInvariance, PTL
-----------------------------------------------------------------------------
(* The map a set of nodes stands for.                                      *)
StoredIn(f, L) ==
    [k \in Keys |-> IF \E m \in L : f[m].key = k
                    THEN f[CHOOSE m \in L : f[m].key = k].val ELSE NULL]
OneEach(f, L) == \A m, n \in L : f[m].key = f[n].key => m = n

LEMMA StoredAt ==
    ASSUME NEW f, NEW L, OneEach(f, L), NEW k \in Keys
    PROVE  /\ \A m \in L : f[m].key = k => StoredIn(f, L)[k] = f[m].val
           /\ (\A m \in L : f[m].key # k) => StoredIn(f, L)[k] = NULL
<1>1. ASSUME NEW m \in L, f[m].key = k PROVE StoredIn(f, L)[k] = f[m].val
  <2> DEFINE c == CHOOSE x \in L : f[x].key = k
  <2>1. c \in L /\ f[c].key = k
    BY <1>1
  <2>2. c = m
    BY <1>1, <2>1 DEF OneEach
  <2> QED BY <1>1, <2>2 DEF StoredIn
<1>2. ASSUME \A m \in L : f[m].key # k PROVE StoredIn(f, L)[k] = NULL
  BY <1>2 DEF StoredIn
<1> QED BY <1>1, <1>2

LEMMA StoredSame ==
    ASSUME NEW f, NEW g, NEW L, OneEach(f, L),
           \A m \in L : g[m].key = f[m].key /\ g[m].val = f[m].val
    PROVE  StoredIn(g, L) = StoredIn(f, L) /\ OneEach(g, L)
<1>1. OneEach(g, L)
  BY DEF OneEach
<1>2. ASSUME NEW k \in Keys PROVE StoredIn(g, L)[k] = StoredIn(f, L)[k]
  <2>1. CASE \E m \in L : f[m].key = k
    BY <2>1, <1>1, StoredAt
  <2>2. CASE \A m \in L : f[m].key # k
    BY <2>2, <1>1, StoredAt
  <2> QED BY <2>1, <2>2
<1> QED BY <1>1, <1>2 DEF StoredIn

LEMMA StoredMore ==
    ASSUME NEW f, NEW g, NEW L, OneEach(f, L),
           \A m \in L : g[m].key = f[m].key /\ g[m].val = f[m].val,
           NEW c, NEW x \in Keys, NEW v, g[c].key = x, g[c].val = v,
           \A m \in L : f[m].key # x,
           NEW K, K = L \cup {c}, NEW S, S = StoredIn(f, L)
    PROVE  StoredIn(g, K) = [S EXCEPT ![x] = v]
<1>1. OneEach(g, K)
  BY DEF OneEach
<1> DEFINE T == StoredIn(g, K)
<1>2. ASSUME NEW k \in Keys PROVE T[k] = IF k = x THEN v ELSE S[k]
  <2>1. CASE k = x
    BY <2>1, <1>1, StoredAt
  <2>2. CASE k # x /\ \E m \in L : f[m].key = k
    <3>1. PICK m \in L : f[m].key = k
      BY <2>2
    <3>2. m \in K /\ g[m].key = k /\ g[m].val = f[m].val
      BY <3>1
    <3>3. S[k] = f[m].val
      BY <3>1, StoredAt
    <3>4. T[k] = g[m].val
      BY <3>2, <1>1, StoredAt
    <3> QED BY <2>2, <3>2, <3>3, <3>4
  <2>3. CASE k # x /\ \A m \in L : f[m].key # k
    <3>1. \A m \in K : g[m].key # k
      BY <2>3
    <3>2. T[k] = NULL
      BY <3>1, <1>1, StoredAt
    <3>3. S[k] = NULL
      BY <2>3, StoredAt
    <3> QED BY <2>3, <3>2, <3>3
  <2> QED BY <2>1, <2>2, <2>3
<1>3. S = [k \in Keys |-> S[k]] /\ T = [k \in Keys |-> T[k]]
  BY DEF StoredIn
<1> HIDE DEF T
<1>4. T = [S EXCEPT ![x] = v]
  BY <1>2, <1>3
<1> QED BY <1>4 DEF T
-----------------------------------------------------------------------------
(* The variables of KVMap, as the thread stands to them.                   *)
StatusAt(label) ==
    IF label = "idle" THEN "idle"
    ELSE IF label \in {"ret"} \cup ResizePcs THEN "done" ELSE "called"
ReqAt(label, c) == IF label = "idle" THEN NULL ELSE c
ResAt(label, x) == IF label \in {"ret"} \cup ResizePcs THEN x.ret ELSE NULL

MStatus == [u \in Threads |-> IF pc[u] = "idle" THEN "idle"
                              ELSE IF Resolved(u) THEN "done" ELSE "called"]
MReq == [u \in Threads |-> IF pc[u] = "idle" THEN NULL ELSE arg[u]]
MRes == [u \in Threads |-> IF Resolved(u) THEN loc[u].ret ELSE NULL]

LEMMA MapVars ==
    /\ Map!Init <=> /\ Stored = [k \in Keys |-> NULL]
                    /\ MStatus = [t \in Threads |-> "idle"]
                    /\ MReq = [t \in Threads |-> NULL]
                    /\ MRes = [t \in Threads |-> NULL]
    /\ UNCHANGED <<Stored, MStatus, MReq, MRes>> => UNCHANGED Map!vars
<1>1. Map!Init <=> /\ Stored = [k \in Keys |-> NULL]
                   /\ MStatus = [t \in Threads |-> "idle"]
                   /\ MReq = [t \in Threads |-> NULL]
                   /\ MRes = [t \in Threads |-> NULL]
  BY Zenon DEF Map!Init, MStatus, MReq, MRes
<1>2. UNCHANGED <<Stored, MStatus, MReq, MRes>> => UNCHANGED Map!vars
  BY Zenon DEF Map!vars, MStatus, MReq, MRes
<1> QED BY <1>1, <1>2

LEMMA MapActions ==
    ASSUME NEW t \in Threads
    PROVE  /\ /\ MStatus[t] = "idle" /\ \E r \in Map!Requests : MReq' = [MReq EXCEPT ![t] = r]
              /\ MStatus' = [MStatus EXCEPT ![t] = "called"] /\ UNCHANGED <<Stored, MRes>>
              => Map!Call(t)
           /\ /\ MStatus[t] = "called" /\ MReq[t].op = "insert" /\ Stored[MReq[t].key] # NULL
              /\ MRes' = [MRes EXCEPT ![t] = 1] /\ MStatus' = [MStatus EXCEPT ![t] = "done"]
              /\ UNCHANGED MReq /\ UNCHANGED Stored
              => Map!InsertExisting(t)
           /\ /\ MStatus[t] = "called" /\ MReq[t].op = "insert" /\ Stored[MReq[t].key] = NULL
              /\ Stored' = [Stored EXCEPT ![MReq[t].key] = MReq[t].val]
              /\ MRes' = [MRes EXCEPT ![t] = 0] /\ MStatus' = [MStatus EXCEPT ![t] = "done"]
              /\ UNCHANGED MReq
              => Map!InsertNew(t)
           /\ /\ MStatus[t] = "called" /\ MReq[t].op = "lookup"
              /\ MRes' = [MRes EXCEPT ![t] = Stored[MReq[t].key]]
              /\ MStatus' = [MStatus EXCEPT ![t] = "done"]
              /\ UNCHANGED MReq /\ UNCHANGED Stored
              => Map!Lookup(t)
           /\ /\ MStatus[t] = "done" /\ MStatus' = [MStatus EXCEPT ![t] = "idle"]
              /\ MReq' = [MReq EXCEPT ![t] = NULL] /\ MRes' = [MRes EXCEPT ![t] = NULL]
              /\ UNCHANGED Stored
              => Map!Return(t)
<1>1. /\ MStatus[t] = "idle" /\ \E r \in Map!Requests : MReq' = [MReq EXCEPT ![t] = r]
      /\ MStatus' = [MStatus EXCEPT ![t] = "called"] /\ UNCHANGED <<Stored, MRes>>
      => Map!Call(t)
  BY Zenon DEF Map!Call, MStatus, MReq, MRes
<1>2. /\ MStatus[t] = "called" /\ MReq[t].op = "insert" /\ Stored[MReq[t].key] # NULL
      /\ MRes' = [MRes EXCEPT ![t] = 1] /\ MStatus' = [MStatus EXCEPT ![t] = "done"]
      /\ UNCHANGED MReq /\ UNCHANGED Stored
      => Map!InsertExisting(t)
  BY Zenon DEF Map!InsertExisting, Map!Finish, MStatus, MReq, MRes
<1>3. /\ MStatus[t] = "called" /\ MReq[t].op = "insert" /\ Stored[MReq[t].key] = NULL
      /\ Stored' = [Stored EXCEPT ![MReq[t].key] = MReq[t].val]
      /\ MRes' = [MRes EXCEPT ![t] = 0] /\ MStatus' = [MStatus EXCEPT ![t] = "done"]
      /\ UNCHANGED MReq
      => Map!InsertNew(t)
  BY Zenon DEF Map!InsertNew, Map!Finish, MStatus, MReq, MRes
<1>4. /\ MStatus[t] = "called" /\ MReq[t].op = "lookup"
      /\ MRes' = [MRes EXCEPT ![t] = Stored[MReq[t].key]]
      /\ MStatus' = [MStatus EXCEPT ![t] = "done"]
      /\ UNCHANGED MReq /\ UNCHANGED Stored
      => Map!Lookup(t)
  BY Zenon DEF Map!Lookup, Map!Finish, MStatus, MReq, MRes
<1>5. /\ MStatus[t] = "done" /\ MStatus' = [MStatus EXCEPT ![t] = "idle"]
      /\ MReq' = [MReq EXCEPT ![t] = NULL] /\ MRes' = [MRes EXCEPT ![t] = NULL]
      /\ UNCHANGED Stored
      => Map!Return(t)
  BY Zenon DEF Map!Return, MStatus, MReq, MRes
<1> QED BY <1>1, <1>2, <1>3, <1>4, <1>5

LEMMA MapNow ==
    ASSUME NEW t, Threads = {t}
    PROVE  /\ MStatus = [u \in {t} |-> StatusAt(pc[t])]
           /\ MReq = [u \in {t} |-> ReqAt(pc[t], arg[t])]
           /\ MRes = [u \in {t} |-> ResAt(pc[t], loc[t])]
BY DEF MStatus, MReq, MRes, StatusAt, ReqAt, ResAt, Resolved

LEMMA MapThen ==
    ASSUME NEW t, Threads = {t}
    PROVE  /\ MStatus' = [u \in {t} |-> StatusAt(pc'[t])]
           /\ MReq' = [u \in {t} |-> ReqAt(pc'[t], arg'[t])]
           /\ MRes' = [u \in {t} |-> ResAt(pc'[t], loc'[t])]
BY DEF MStatus, MReq, MRes, StatusAt, ReqAt, ResAt, Resolved

(* What the map holds: the linked nodes, each with its own key.            *)
StoredOK(t) == Stored = StoredIn(node, Linked(t)) /\ OneEach(node, Linked(t))

LEMMA StoredNow ==
    ASSUME NEW t \in Threads, Threads = {t}
    PROVE  /\ Alone(t) => StoredOK(t)
           /\ Alone(t)' => StoredOK(t)'
<1>1. ASSUME Alone(t) PROVE StoredOK(t)
  <2>1. Entries = Linked(t)
    BY <1>1, EntriesSeq DEF Alone
  <2>2. OneEach(node, Linked(t))
    BY <1>1 DEF Alone, SeqInv, NodesOK, OneEach
  <2> QED BY <2>1, <2>2, Zenon DEF Stored, StoredIn, StoredOK
<1>2. Alone(t) => StoredOK(t)
  BY <1>1
<1> QED BY <1>2, PTL

(* Steps that the map does not see.                                        *)
LEMMA QuietMap ==
    ASSUME NEW t \in Threads, Threads = {t}, Alone(t), Alone(t)',
           StatusAt(pc'[t]) = StatusAt(pc[t]), ReqAt(pc'[t], arg'[t]) = ReqAt(pc[t], arg[t]),
           ResAt(pc'[t], loc'[t]) = ResAt(pc[t], loc[t]), Linked(t)' = Linked(t),
           \A m \in Linked(t) : node'[m].key = node[m].key /\ node'[m].val = node[m].val
    PROVE  UNCHANGED Map!vars
<1>1. Stored = StoredIn(node, Linked(t)) /\ OneEach(node, Linked(t))
  BY StoredNow DEF StoredOK
<1>2. Stored' = StoredIn(node', Linked(t)')
  BY StoredNow DEF StoredOK
<1>3. Stored' = Stored
  BY <1>1, <1>2, StoredSame
<1>4. MStatus' = MStatus /\ MReq' = MReq /\ MRes' = MRes
  BY MapNow, MapThen
<1> QED BY <1>3, <1>4, MapVars

LEMMA SameMap ==
    ASSUME NEW t \in Threads, Threads = {t}, Alone(t), Alone(t)', UNCHANGED <<node, used>>,
           Linking(t)' = Linking(t), StatusAt(pc'[t]) = StatusAt(pc[t]),
           ReqAt(pc'[t], arg'[t]) = ReqAt(pc[t], arg[t]),
           ResAt(pc'[t], loc'[t]) = ResAt(pc[t], loc[t])
    PROVE  UNCHANGED Map!vars
<1>1. Linked(t)' = Linked(t)
  BY DEF Linked
<1> QED BY <1>1, QuietMap

LEMMA ReadMap ==
    ASSUME NEW t \in Threads, Threads = {t}, Alone(t), Alone(t)',
           ReadSize(t) \/ ReadBase(t) \/ ReadHead(t) \/ Advance(t) \/ ReadBaseToLink(t)
    PROVE  UNCHANGED Map!vars
<1>1. UNCHANGED <<node, used, arg>>
  BY DEF ReadSize, ReadBase, ReadHead, Advance, ReadBaseToLink, table
<1>2. pc[t] \in InsertPcs /\ pc'[t] \in InsertPcs /\ (pc'[t] \in LinkPcs <=> pc[t] \in LinkPcs)
  <2>1. pc \in [Threads -> Pcs]
    BY DEF Alone, SeqInv, TypeOK
  <2> QED BY <2>1 DEF ReadSize, ReadBase, ReadHead, Advance, ReadBaseToLink, Goto, InsertPcs, LinkPcs
<1>3. Linking(t)' = Linking(t)
  BY <1>2 DEF Linking, LinkPcs
<1>4. /\ StatusAt(pc'[t]) = StatusAt(pc[t]) /\ ReqAt(pc'[t], arg'[t]) = ReqAt(pc[t], arg[t])
      /\ ResAt(pc'[t], loc'[t]) = ResAt(pc[t], loc[t])
  BY <1>1, <1>2 DEF StatusAt, ReqAt, ResAt, InsertPcs, ResizePcs
<1> QED BY <1>1, <1>3, <1>4, SameMap

(* The node is new to the memory, not to the table.                        *)
LEMMA NewNodeMap ==
    ASSUME NEW t \in Threads, Threads = {t}, Alone(t), Alone(t)', NewNode(t)
    PROVE  UNCHANGED Map!vars
<1>1. /\ pc[t] = "walk" /\ used < MaxNodes /\ used' = used + 1 /\ UNCHANGED arg
      /\ node' = [node EXCEPT ![used + 1] = [key |-> arg[t].key, val |-> arg[t].val, next |-> NULL]]
      /\ pc' = [pc EXCEPT ![t] = IF loc[t].prev = NULL THEN "linkbase" ELSE "link"]
  BY DEF NewNode, Goto
<1>2. pc \in [Threads -> Pcs] /\ used \in Nat /\ node \in [NodeId -> Node_]
  BY BoundAssumption DEF Alone, SeqInv, TypeOK
<1>3. pc'[t] \in {"linkbase", "link"}
  BY <1>1, <1>2
<1>4. Linked(t) = 1..used /\ Linked(t)' = 1..used
  <2>1. Linked(t) = 1..used
    BY <1>1 DEF Linked, Linking
  <2>2. Linked(t)' = 1..(used' - 1)
    BY <1>3 DEF Linked, Linking
  <2> QED BY <2>1, <2>2, <1>1, <1>2
<1>5. \A m \in 1..used : node'[m] = node[m]
  <2>1. \A m \in 1..used : m # used + 1
    BY <1>2
  <2> QED BY <2>1, <1>1, <1>2
<1>6. /\ StatusAt(pc'[t]) = StatusAt(pc[t]) /\ ReqAt(pc'[t], arg'[t]) = ReqAt(pc[t], arg[t])
      /\ ResAt(pc'[t], loc'[t]) = ResAt(pc[t], loc[t])
  BY <1>1, <1>3 DEF StatusAt, ReqAt, ResAt, ResizePcs
<1> QED BY <1>4, <1>5, <1>6, QuietMap

(* A resize moves the entries of the map, and changes none.                *)
LEMMA ResizeMap ==
    ASSUME NEW t \in Threads, Threads = {t}, Alone(t), Alone(t)', ResizeStep(t)
    PROVE  UNCHANGED Map!vars
<1> USE DEF ResizeStep, NewStore, ForTest, ForBase, ForHead, TakeNode, ChainDone, MoveNode,
            SetSize, ReadOldStore, FreeStore, SetStore, Goto, table
<1>1. UNCHANGED <<used, arg, loc>>
  BY Zenon
<1>2. pc[t] \in ResizePcs /\ pc'[t] \in {"ret"} \cup ResizePcs
  <2>1. pc \in [Threads -> Pcs]
    BY Zenon DEF Alone, SeqInv, TypeOK
  <2> QED BY Zenon, <2>1 DEF ResizePcs
<1>3. \A m \in NodeId : node'[m].key = node[m].key /\ node'[m].val = node[m].val
  <2>1. UNCHANGED node \/ \E c, h : node' = [node EXCEPT ![c].next = h]
    BY Zenon
  <2>2. node \in [NodeId -> Node_]
    BY Zenon DEF Alone, SeqInv, TypeOK
  <2>3. ASSUME NEW c, NEW h, node' = [node EXCEPT ![c].next = h], NEW m \in NodeId
        PROVE  node'[m].key = node[m].key /\ node'[m].val = node[m].val
    <3> DEFINE b == [node[c] EXCEPT !.next = h]
    <3>1. node' = [node EXCEPT ![c] = b]
      BY Zenon, <2>3
    <3>2. c \in NodeId => b.key = node[c].key /\ b.val = node[c].val
      BY Zenon, <2>2 DEF Node_
    <3> HIDE DEF b
    <3>3. node'[m] = IF m = c THEN b ELSE node[m]
      BY Zenon, <3>1, <2>2
    <3> QED BY Zenon, <3>2, <3>3
  <2> QED BY Zenon, <2>1, <2>3
<1>4. Linked(t) = 1..used /\ Linked(t)' = 1..used /\ 1..used \subseteq NodeId
  <2>1. ~Linking(t) /\ ~Linking(t)'
    BY Zenon, <1>2 DEF Linking, ResizePcs
  <2> QED BY Zenon, <2>1, <1>1, TypeFacts DEF Linked, Alone, SeqInv
<1>5. /\ StatusAt(pc'[t]) = StatusAt(pc[t]) /\ ReqAt(pc'[t], arg'[t]) = ReqAt(pc[t], arg[t])
      /\ ResAt(pc'[t], loc'[t]) = ResAt(pc[t], loc[t])
  BY Zenon, <1>1, <1>2 DEF StatusAt, ReqAt, ResAt, ResizePcs
<1> QED BY Zenon, <1>3, <1>4, <1>5, QuietMap
-----------------------------------------------------------------------------
(* Steps of the map.                                                       *)
LEMMA CallMap ==
    ASSUME NEW t \in Threads, Threads = {t}, Alone(t), Alone(t)',
           NEW op \in {"insert", "lookup"}, NEW k \in Keys, NEW v \in Vals \cup {NULL},
           op = "insert" => v \in Vals, op = "lookup" => v = NULL, Call(t, op, k, v)
    PROVE  Map!Call(t)
<1> DEFINE c == [op |-> op, key |-> k, val |-> v]
<1>1. /\ pc[t] = "idle" /\ arg' = [arg EXCEPT ![t] = c] /\ pc' = [pc EXCEPT ![t] = "size"]
      /\ UNCHANGED <<node, used>>
  BY DEF Call, Goto, table
<1>2. pc'[t] = "size" /\ arg'[t] = c
  BY <1>1 DEF Alone, SeqInv, TypeOK
<1>3. c \in Map!Requests
  BY DEF Map!Requests
<1> HIDE DEF c
<1>4. /\ MStatus = [u \in {t} |-> "idle"] /\ MStatus' = [u \in {t} |-> "called"]
      /\ MReq = [u \in {t} |-> NULL] /\ MReq' = [u \in {t} |-> c]
      /\ MRes = [u \in {t} |-> NULL] /\ MRes' = [u \in {t} |-> NULL]
  BY <1>1, <1>2, MapNow, MapThen DEF StatusAt, ReqAt, ResAt, ResizePcs
<1>5. Linked(t) = 1..used /\ Linked(t)' = 1..used
  BY <1>1, <1>2 DEF Linked, Linking
<1>6. Stored' = Stored
  BY <1>1, <1>5, StoredNow, StoredSame DEF StoredOK
<1>7. /\ MStatus[t] = "idle" /\ MReq' = [MReq EXCEPT ![t] = c]
      /\ MStatus' = [MStatus EXCEPT ![t] = "called"] /\ UNCHANGED <<Stored, MRes>>
  BY <1>4, <1>6
<1> QED BY <1>3, <1>7, MapActions

(* The call is done: result y, and nothing changes but the thread.         *)
LEMMA DoneMap ==
    ASSUME NEW t \in Threads, Threads = {t}, Alone(t), Alone(t)', pc[t] \in InsertPcs,
           NEW l \in {"ret"} \cup ResizePcs, pc' = [pc EXCEPT ![t] = l], UNCHANGED arg
    PROVE  /\ MStatus[t] = "called" /\ MReq[t] = arg[t]
           /\ MStatus' = [MStatus EXCEPT ![t] = "done"]
           /\ MRes' = [MRes EXCEPT ![t] = loc'[t].ret] /\ UNCHANGED MReq
<1>1. pc'[t] = l /\ arg'[t] = arg[t]
  BY DEF Alone, SeqInv, TypeOK
<1>2. l # "idle" /\ pc[t] # "idle" /\ pc[t] \notin {"ret"} \cup ResizePcs
  BY DEF InsertPcs, ResizePcs
<1>3. /\ MStatus = [u \in {t} |-> "called"] /\ MStatus' = [u \in {t} |-> "done"]
      /\ MReq = [u \in {t} |-> arg[t]] /\ MReq' = [u \in {t} |-> arg[t]]
      /\ MRes = [u \in {t} |-> NULL] /\ MRes' = [u \in {t} |-> loc'[t].ret]
  BY <1>1, <1>2, MapNow, MapThen DEF StatusAt, ReqAt, ResAt
<1> QED BY <1>3

LEMMA FoundMap ==
    ASSUME NEW t \in Threads, Threads = {t}, NULL \notin Vals, Alone(t), Alone(t)', Found(t)
    PROVE  Map!InsertExisting(t) \/ Map!Lookup(t)
<1> DEFINE l == loc[t]
           c == arg[t]
           v == IF c.op = "insert" THEN 1 ELSE node[l.curr].val
<1>1. /\ pc[t] = "walk" /\ l.curr # NULL /\ node[l.curr].key = c.key
      /\ loc' = [loc EXCEPT ![t] = [l EXCEPT !.ret = v]]
      /\ pc' = [pc EXCEPT ![t] = "ret"] /\ UNCHANGED <<node, used, arg>>
  BY DEF Found, SetLocal, Goto, table
<1>2. loc'[t].ret = v
  <2>1. loc \in [Threads -> Local_] /\ loc[t] \in Local_
    BY DEF Alone, SeqInv, TypeOK
  <2> HIDE DEF v
  <2> QED BY <2>1, <1>1 DEF Local_
<1>3. l.curr \in 1..used
  BY <1>1, WalkIn DEF Alone
<1>4. Linked(t) = 1..used /\ Linked(t)' = 1..used
  BY <1>1 DEF Linked, Linking, Alone, SeqInv, TypeOK
<1>5. c.key \in Keys /\ c.op \in {"insert", "lookup"} /\ node[l.curr].val \in Vals
  BY <1>1, <1>3 DEF Alone, SeqInv, WalkedAt, InsertPcs, NodesOK
<1>6. Stored[c.key] = node[l.curr].val /\ Stored' = Stored
  <2>1. Stored = StoredIn(node, 1..used) /\ OneEach(node, 1..used) /\ Stored' = StoredIn(node', 1..used)
    BY <1>4, StoredNow DEF StoredOK
  <2>2. StoredIn(node, 1..used)[c.key] = node[l.curr].val
    BY <2>1, <1>1, <1>3, <1>5, StoredAt
  <2> QED BY <2>1, <2>2, <1>1
<1>7. /\ MStatus[t] = "called" /\ MReq[t] = c /\ MStatus' = [MStatus EXCEPT ![t] = "done"]
      /\ MRes' = [MRes EXCEPT ![t] = v] /\ UNCHANGED MReq
  BY <1>1, <1>2, DoneMap DEF InsertPcs
<1>8. CASE c.op = "insert"
  <2>1. v = 1 /\ Stored[c.key] # NULL
    BY <1>5, <1>6, <1>8
  <2> HIDE DEF c, v
  <2> QED BY <2>1, <1>6, <1>7, <1>8, MapActions
<1>9. CASE c.op = "lookup"
  <2>1. v = Stored[c.key]
    BY <1>6, <1>9
  <2> HIDE DEF c, v
  <2> QED BY <2>1, <1>6, <1>7, <1>9, MapActions
<1> QED BY <1>5, <1>8, <1>9

LEMMA LookupMissMap ==
    ASSUME NEW t \in Threads, Threads = {t}, Alone(t), Alone(t)', LookupMiss(t)
    PROVE  Map!Lookup(t)
<1> DEFINE l == loc[t]
           c == arg[t]
<1>1. /\ pc[t] = "walk" /\ l.curr = NULL /\ c.op = "lookup" /\ pc' = [pc EXCEPT ![t] = "ret"]
      /\ UNCHANGED <<node, used, arg, loc>>
  BY DEF LookupMiss, Goto, table
<1>2. /\ c.key \in Keys /\ l.ret = NULL
      /\ \A m \in 1..used : node[m].key = c.key => m \in Reached(node, {l.curr})
  BY <1>1 DEF Alone, SeqInv, WalkedAt, InsertPcs
<1>3. \A m \in 1..used : node[m].key # c.key
  BY <1>1, <1>2, ReachedNull
<1>4. Linked(t) = 1..used /\ Linked(t)' = 1..used
  BY <1>1 DEF Linked, Linking, Alone, SeqInv, TypeOK
<1>5. Stored[c.key] = NULL /\ Stored' = Stored
  <2>1. Stored = StoredIn(node, 1..used) /\ OneEach(node, 1..used) /\ Stored' = StoredIn(node', 1..used)
    BY <1>4, StoredNow DEF StoredOK
  <2> DEFINE L == 1..used
             k == c.key
  <2>2. k \in Keys /\ (\A m \in L : node[m].key # k) /\ OneEach(node, L)
    BY <2>1, <1>2, <1>3
  <2> HIDE DEF L, k
  <2>3. StoredIn(node, L)[k] = NULL
    BY <2>2, StoredAt
  <2> QED BY <2>1, <2>3, <1>1 DEF L, k
<1>6. /\ MStatus[t] = "called" /\ MReq[t] = c /\ MStatus' = [MStatus EXCEPT ![t] = "done"]
      /\ MRes' = [MRes EXCEPT ![t] = l.ret] /\ UNCHANGED MReq
  BY <1>1, DoneMap DEF InsertPcs
<1> HIDE DEF c, l
<1> QED BY <1>1, <1>2, <1>5, <1>6, MapActions

(* The write of the link is where an insert takes effect.                  *)
LEMMA LinkMap ==
    ASSUME NEW t \in Threads, Threads = {t}, Alone(t), Alone(t)',
           LinkAfterPrev(t) \/ LinkHead(t)
    PROVE  Map!InsertNew(t)
<1> DEFINE c == arg[t]
<1>1. pc[t] \in LinkPcs /\ AfterLink(t) /\ UNCHANGED <<used, arg>>
  BY DEF LinkAfterPrev, LinkHead, LinkPcs
<1>2. PICK x, label : JoinedAt(t, x, label)
  BY <1>1, AfterLinkIs DEF Alone, SeqInv
<1>3. /\ label \in {"ret"} \cup ResizePcs /\ label \in {"ret", "r_new"} /\ x.ret = 0
      /\ pc' = [pc EXCEPT ![t] = label] /\ loc'[t] = x /\ pc'[t] = label
  BY <1>2 DEF JoinedAt, ResizePcs, Alone, SeqInv, TypeOK
<1>4. node \in [NodeId -> Node_] /\ 1..used \subseteq NodeId /\ used \in Nat
  BY TypeFacts DEF Alone, SeqInv, TypeOK
<1>5. \A m \in NodeId : node'[m].key = node[m].key /\ node'[m].val = node[m].val
  <2>1. UNCHANGED node \/ node' = [node EXCEPT ![loc[t].prev].next = loc[t].n]
    BY DEF LinkAfterPrev, LinkHead
  <2>2. ASSUME NEW d, NEW h, node' = [node EXCEPT ![d].next = h], NEW m \in NodeId
        PROVE  node'[m].key = node[m].key /\ node'[m].val = node[m].val
    <3> DEFINE b == [node[d] EXCEPT !.next = h]
    <3>1. node' = [node EXCEPT ![d] = b]
      BY <2>2
    <3>2. d \in NodeId => b.key = node[d].key /\ b.val = node[d].val
      BY <1>4 DEF Node_
    <3> HIDE DEF b
    <3>3. node'[m] = IF m = d THEN b ELSE node[m]
      BY <3>1, <1>4
    <3> QED BY <3>2, <3>3
  <2> QED BY <2>1, <2>2
<1>6. /\ c.op = "insert" /\ c.key \in Keys /\ used > 0
      /\ node[used] = [key |-> c.key, val |-> c.val, next |-> NULL]
      /\ \A m \in 1..(used - 1) : node[m].key # c.key
  BY <1>1 DEF Alone, SeqInv, WalkedAt, LinkPcs, InsertPcs
<1>7. node'[used].key = c.key /\ node'[used].val = c.val
  <2>1. used \in NodeId
    BY <1>4, <1>6
  <2> QED BY <2>1, <1>5, <1>6
<1>8. Linked(t) = 1..(used - 1) /\ Linked(t)' = 1..used
  BY <1>1, <1>3 DEF Linked, Linking, LinkPcs
<1>9. Stored[c.key] = NULL /\ Stored' = [Stored EXCEPT ![c.key] = c.val]
  <2> DEFINE L == 1..(used - 1)
  <2>1. /\ Stored = StoredIn(node, L) /\ OneEach(node, L) /\ Stored' = StoredIn(node', 1..used)
    BY <1>8, StoredNow DEF StoredOK
  <2>2. 1..used = L \cup {used} /\ L \subseteq NodeId
    BY <1>4, <1>6
  <2>3. \A m \in L : node[m].key # c.key
    BY <1>6
  <2>4. \A m \in L : node'[m].key = node[m].key /\ node'[m].val = node[m].val
    BY <2>2, <1>5
  <2> HIDE DEF L, c
  <2>5. StoredIn(node, L)[c.key] = NULL
    BY <2>1, <2>3, <1>6, StoredAt
  <2> DEFINE k == c.key
             v == c.val
             K == 1..used
             S == StoredIn(node, L)
  <2>6. k \in Keys /\ node'[used].key = k /\ node'[used].val = v /\ \A m \in L : node[m].key # k
    BY <2>3, <1>6, <1>7
  <2>7. OneEach(node, L) /\ K = L \cup {used}
    BY <2>1, <2>2
  <2> HIDE DEF k, v, K
  <2>8. PICK g : g = node'
    OBVIOUS
  <2>9. /\ OneEach(node, L) /\ \A m \in L : g[m].key = node[m].key /\ g[m].val = node[m].val
        /\ k \in Keys /\ g[used].key = k /\ g[used].val = v /\ \A m \in L : node[m].key # k
        /\ K = L \cup {used} /\ S = StoredIn(node, L)
    BY <2>4, <2>6, <2>7, <2>8
  <2> HIDE DEF S
  <2>10. StoredIn(g, K) = [S EXCEPT ![k] = v]
    BY <2>9, StoredMore
  <2> QED BY <2>1, <2>5, <2>8, <2>10 DEF k, v, K, S
<1>10. /\ MStatus[t] = "called" /\ MReq[t] = c /\ MStatus' = [MStatus EXCEPT ![t] = "done"]
       /\ MRes' = [MRes EXCEPT ![t] = 0] /\ UNCHANGED MReq
  <2>1. pc[t] \in InsertPcs
    BY <1>1 DEF LinkPcs, InsertPcs
  <2> QED BY <2>1, <1>1, <1>3, DoneMap
<1> HIDE DEF c
<1> QED BY <1>6, <1>9, <1>10, MapActions

LEMMA ReturnMap ==
    ASSUME NEW t \in Threads, Threads = {t}, Alone(t), Alone(t)', Return(t)
    PROVE  Map!Return(t)
<1>1. /\ pc[t] = "ret" /\ pc' = [pc EXCEPT ![t] = "idle"] /\ UNCHANGED <<node, used>>
  BY DEF Return, Goto, table
<1>2. pc'[t] = "idle"
  BY <1>1 DEF Alone, SeqInv, TypeOK
<1>3. /\ MStatus = [u \in {t} |-> "done"] /\ MStatus' = [u \in {t} |-> "idle"]
      /\ MReq' = [u \in {t} |-> NULL] /\ MRes' = [u \in {t} |-> NULL]
  BY <1>1, <1>2, MapNow, MapThen DEF StatusAt, ReqAt, ResAt, ResizePcs
<1>4. DOMAIN MReq = {t} /\ DOMAIN MRes = {t} /\ MReq = [u \in {t} |-> MReq[u]]
      /\ MRes = [u \in {t} |-> MRes[u]]
  BY MapNow
<1>5. Linked(t) = 1..used /\ Linked(t)' = 1..used
  BY <1>1, <1>2 DEF Linked, Linking
<1>6. Stored' = Stored
  BY <1>1, <1>5, StoredNow, StoredSame DEF StoredOK
<1>7. /\ MStatus[t] = "done" /\ MStatus' = [MStatus EXCEPT ![t] = "idle"]
      /\ MReq' = [MReq EXCEPT ![t] = NULL] /\ MRes' = [MRes EXCEPT ![t] = NULL]
  BY <1>3, <1>4
<1> QED BY <1>6, <1>7, MapActions
-----------------------------------------------------------------------------
LEMMA InitMap == ASSUME NEW t \in Threads, Threads = {t}, Init PROVE Map!Init
<1>1. InitTable /\ Alone(t)
  BY InitIs, InitSeq, InitExchange DEF Alone
<1>2. pc[t] = "idle" /\ used = 0
  BY <1>1 DEF InitTable
<1>3. /\ MStatus = [u \in Threads |-> "idle"] /\ MReq = [u \in Threads |-> NULL]
      /\ MRes = [u \in Threads |-> NULL]
  BY <1>2, MapNow DEF StatusAt, ReqAt, ResAt, ResizePcs
<1>4. Linked(t) = {}
  BY <1>2 DEF Linked, Linking
<1>5. Stored = [k \in Keys |-> NULL]
  <2>1. Stored = StoredIn(node, {})
    BY <1>1, <1>4, StoredNow DEF StoredOK
  <2> QED BY <2>1 DEF StoredIn
<1> QED BY <1>3, <1>5, MapVars

LEMMA NextMap ==
    ASSUME NEW t \in Threads, Threads = {t}, NULL \notin Vals, Alone(t), Alone(t)', [Next]_vars
    PROVE  Map!Next \/ UNCHANGED Map!vars
<1>1. CASE UNCHANGED vars
  <2>1. UNCHANGED <<node, used, pc, arg, loc>>
    BY <1>1 DEF vars, table, frames
  <2>2. Linking(t)' = Linking(t)
    BY <2>1 DEF Linking
  <2> QED BY <2>1, <2>2, SameMap
<1>2. ASSUME CallInsert(t) PROVE Map!Call(t)
  <2>1. PICK k \in Keys, v \in Vals : Call(t, "insert", k, v)
    BY <1>2 DEF CallInsert
  <2> QED BY <2>1, CallMap
<1>3. ASSUME CallLookup(t) PROVE Map!Call(t)
  <2>1. PICK k \in Keys : Call(t, "lookup", k, NULL)
    BY <1>3 DEF CallLookup
  <2> QED BY <2>1, CallMap
<1>4. ~Fault(t)
  BY NoBadAccessSeq DEF Fault, Alone
<1>5. ASSUME Step(t) PROVE Map!Next \/ UNCHANGED Map!vars
  <2>1. CASE InsertStep(t)
    BY <2>1, ReadMap, FoundMap, LookupMissMap, NewNodeMap, LinkMap DEF InsertStep, Map!Next
  <2>2. CASE ResizeStep(t)
    BY <2>2, ResizeMap
  <2>3. CASE Return(t)
    BY <2>3, ReturnMap DEF Map!Next
  <2> QED BY <1>4, <1>5, <2>1, <2>2, <2>3 DEF Step
<1>6. Map!Call(t) => Map!Next
  BY DEF Map!Next
<1> QED BY <1>1, <1>2, <1>3, <1>5, <1>6 DEF Next

(* One thread alone gets from the table what a map would give it, however  *)
(* often the table is resized under it.                                    *)
THEOREM SeqRefinement ==
    ASSUME NEW t \in Threads, Threads = {t}, NULL \notin Vals PROVE Spec => IsAMap
<1>1. Init => Map!Init
  BY InitMap
<1>2. Alone(t) /\ Alone(t)' /\ [Next]_vars => Map!Next \/ UNCHANGED Map!vars
  BY NextMap
<1>3. Alone(t) /\ Alone(t)' /\ [Next]_vars => [Map!Next]_(Map!vars)
  BY <1>2
<1>4. Spec => []Alone(t)
  BY SeqInvariance
<1> QED BY <1>1, <1>3, <1>4, PTL DEF Spec, IsAMap, Map!Spec
=============================================================================
