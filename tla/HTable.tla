------------------------------- MODULE HTable -------------------------------
(***************************************************************************)
(* threadlab/htable.c: a hash table with chaining, shared by threads that  *)
(* take no lock (testhash.c).  Every read or write of memory that another  *)
(* thread can write is one action, so the interleavings are those of the   *)
(* unoptimised build (Makefile: -g, no -O) on a machine that keeps the     *)
(* order of stores.  A thread that would touch a freed array, or index one *)
(* outside its bounds, takes Fault, after which nothing is predicted.      *)
(*                                                                         *)
(* Pointers to nodes are allocation numbers: malloc hands out 1, 2, ...    *)
(* and no node is freed while the table is in use.                         *)
(***************************************************************************)
EXTENDS Primes, Sequences, FiniteSets

CONSTANTS
    Threads, Keys, Vals,
    NULL,              \* the null pointer
    hashcode,          \* hashcode[k]: hash of the key, a function
    Sz,                \* the sz argument of htable_init
    AllowResize,       \* the values of the allow_resize argument of htable_init
    MAX_COLLISION,     \* 10 in the source
    MaxNodes,          \* bound: number of nodes malloc can hand out
    MaxStores,         \* bound: number of slot arrays malloc can hand out
    MaxCalls           \* bound: calls made by each thread

ASSUME NullAssumption == NULL \notin Nat
(* Keys without a byte of 0x80 or more, as those of the tests ('A'..'Z'):  *)
(* the hash of others may be negative, and then no slot (TableArith).      *)
ASSUME HashAssumption == hashcode \in [Keys -> Nat]
ASSUME SizeAssumption == Sz \in Nat
ASSUME BoundAssumption ==
    /\ MAX_COLLISION \in Nat /\ MaxCalls \in Nat
    /\ MaxNodes \in Nat /\ MaxStores \in Nat \ {0}
    /\ AllowResize \subseteq BOOLEAN

VARIABLES
    size, allow_resize,   \* ht->size, ht->allow_resize
    store,      \* ht->store, the number of an array of the heap
    arrays,     \* the slot arrays malloc returned: <<[live, elt], ...>>
    node,       \* the nodes malloc returned
    used,       \* how many nodes malloc has returned
    pc, arg,    \* per thread: control, and the call's arguments
    loc,        \* per thread: locals of htable_insert / htable_lookup
    rsz,        \* per thread: locals of htable_resize
    calls,      \* per thread: calls made so far
    fault       \* a thread made an invalid memory access

table  == <<size, allow_resize, store, arrays, node, used>>
frames == <<pc, arg, loc, rsz>>
vars   == <<table, frames, calls, fault>>

NodeId == 1..MaxNodes
Ptr    == NodeId \cup {NULL}
Slots(n) == 0..(n - 1)

InsertPcs == {"size", "base", "head", "walk", "link", "linkbase", "linkhead"}
ResizePcs == {"r_new", "r_for", "r_base", "r_head", "r_walk", "r_move",
              "r_size", "r_old", "r_free", "r_store"}
Pcs == {"idle", "ret"} \cup InsertPcs \cup ResizePcs

NoCall  == [op |-> "none", key |-> NULL, val |-> NULL]
NoLocal == [slot |-> 0, base |-> 1, prev |-> NULL, curr |-> NULL,
            collision |-> 0, n |-> NULL, ret |-> NULL]
NoResize == [new_size |-> 0, new_store |-> 1, i |-> 0, base |-> 1,
             curr |-> NULL, n |-> NULL]
-----------------------------------------------------------------------------
(* htable_init: a zeroed array of get_prime(sz + 1) slots.                 *)
ZeroArray(n) == [live |-> TRUE, elt |-> [s \in Slots(n) |-> NULL]]

htable_init ==
    /\ size = get_prime(Sz + 1)
    /\ allow_resize \in AllowResize
    /\ store = 1
    /\ arrays = <<ZeroArray(get_prime(Sz + 1))>>
    /\ used = 0
    /\ node = [n \in NodeId |-> [key |-> NULL, val |-> NULL, next |-> NULL]]

Init ==
    /\ htable_init
    /\ pc = [t \in Threads |-> "idle"]
    /\ arg = [t \in Threads |-> NoCall]
    /\ loc = [t \in Threads |-> NoLocal]
    /\ rsz = [t \in Threads |-> NoResize]
    /\ calls = [t \in Threads |-> 0]
    /\ fault = FALSE

Goto(t, label) == pc' = [pc EXCEPT ![t] = label]
SetLocal(t, l) == loc' = [loc EXCEPT ![t] = l]
SetResize(t, r) == rsz' = [rsz EXCEPT ![t] = r]

(* An access base[s] is invalid when the array was freed or s is outside.  *)
BadIndex(base, s) == ~arrays[base].live \/ s \notin DOMAIN arrays[base].elt

BadAccess(t) ==
    \/ pc[t] \in {"head", "linkhead"} /\ BadIndex(loc[t].base, loc[t].slot)
    \/ pc[t] = "r_head" /\ BadIndex(rsz[t].base, rsz[t].i)
    \/ pc[t] = "r_free" /\ ~arrays[rsz[t].base].live

Fault(t) ==
    /\ BadAccess(t)
    /\ fault' = TRUE
    /\ UNCHANGED <<table, frames, calls>>
-----------------------------------------------------------------------------
(* Calls.  hashcode(key) reads only the caller's string.                   *)
Call(t, op, k, v) ==
    /\ pc[t] = "idle" /\ ~fault
    /\ calls[t] < MaxCalls
    /\ arg' = [arg EXCEPT ![t] = [op |-> op, key |-> k, val |-> v]]
    /\ SetLocal(t, NoLocal)
    /\ calls' = [calls EXCEPT ![t] = @ + 1]
    /\ Goto(t, "size")
    /\ UNCHANGED <<table, rsz, fault>>

(* slot = hcode % ht->size *)
ReadSize(t) ==
    /\ pc[t] = "size"
    /\ SetLocal(t, [loc[t] EXCEPT !.slot = hashcode[arg[t].key] % size])
    /\ Goto(t, "base")
    /\ UNCHANGED <<table, arg, rsz, calls, fault>>

(* curr = ht->store[slot]: first the array's address, then its element.    *)
ReadBase(t) ==
    /\ pc[t] = "base"
    /\ SetLocal(t, [loc[t] EXCEPT !.base = store])
    /\ Goto(t, "head")
    /\ UNCHANGED <<table, arg, rsz, calls, fault>>

ReadHead(t) ==
    /\ pc[t] = "head"
    /\ ~BadAccess(t)
    /\ SetLocal(t, [loc[t] EXCEPT !.curr = arrays[loc[t].base].elt[loc[t].slot]])
    /\ Goto(t, "walk")
    /\ UNCHANGED <<table, arg, rsz, calls, fault>>

(* Mutant of Found: the hash codes are compared, the keys are not.         *)
FoundByHash(t) ==
    /\ pc[t] = "walk"
    /\ loc[t].curr # NULL
    /\ hashcode[node[loc[t].curr].key] = hashcode[arg[t].key]
    /\ SetLocal(t, [loc[t] EXCEPT !.ret =
            IF arg[t].op = "insert" THEN 1 ELSE node[loc[t].curr].val])
    /\ Goto(t, "ret")
    /\ UNCHANGED <<table, arg, rsz, calls, fault>>

(* while (curr): the key is there, or on to the next node.  The collision  *)
(* count is kept up to the value it is compared with.                      *)
Found(t) ==
    /\ pc[t] = "walk"
    /\ loc[t].curr # NULL
    /\ node[loc[t].curr].key = arg[t].key
    /\ SetLocal(t, [loc[t] EXCEPT !.ret =
            IF arg[t].op = "insert" THEN 1 ELSE node[loc[t].curr].val])
    /\ Goto(t, "ret")
    /\ UNCHANGED <<table, arg, rsz, calls, fault>>

(* Mutants of Advance: on to the next node also where the key was found,   *)
(* and a forgotten curr = curr->next.                                      *)
AdvancePastKey(t) ==
    /\ pc[t] = "walk"
    /\ loc[t].curr # NULL
    /\ SetLocal(t, [loc[t] EXCEPT !.prev = loc[t].curr,
                                  !.curr = node[loc[t].curr].next])
    /\ UNCHANGED <<table, pc, arg, rsz, calls, fault>>

AdvanceNowhere(t) ==
    /\ pc[t] = "walk"
    /\ loc[t].curr # NULL
    /\ node[loc[t].curr].key # arg[t].key
    /\ SetLocal(t, [loc[t] EXCEPT !.prev = loc[t].curr])
    /\ UNCHANGED <<table, pc, arg, rsz, calls, fault>>

Advance(t) ==
    /\ pc[t] = "walk"
    /\ loc[t].curr # NULL
    /\ node[loc[t].curr].key # arg[t].key
    /\ SetLocal(t, [loc[t] EXCEPT !.prev = loc[t].curr,
                                  !.curr = node[loc[t].curr].next,
                                  !.collision = IF @ < MAX_COLLISION
                                                THEN @ + 1 ELSE @])
    /\ UNCHANGED <<table, pc, arg, rsz, calls, fault>>

LookupMiss(t) ==
    /\ pc[t] = "walk"
    /\ loc[t].curr = NULL
    /\ arg[t].op = "lookup"
    /\ Goto(t, "ret")
    /\ UNCHANGED <<table, arg, loc, rsz, calls, fault>>

(* Mutant of NewNode: the node is linked before its key is filled in.      *)
NewNodeLinkedAtOnce(t) ==
    /\ pc[t] = "walk"
    /\ loc[t].curr = NULL
    /\ arg[t].op = "insert"
    /\ used < MaxNodes
    /\ used' = used + 1
    /\ node' = [n \in NodeId |->
          IF n = used + 1
            THEN [key |-> arg[t].key, val |-> arg[t].val, next |-> NULL]
          ELSE IF n = loc[t].prev THEN [node[n] EXCEPT !.next = used + 1]
          ELSE node[n]]
    /\ SetLocal(t, [loc[t] EXCEPT !.n = used + 1])
    /\ Goto(t, IF loc[t].prev = NULL THEN "linkbase" ELSE "link")
    /\ UNCHANGED <<size, allow_resize, store, arrays, arg, rsz, calls, fault>>

(* The new node is filled in before anyone else can see it.                *)
NewNode(t) ==
    /\ pc[t] = "walk"
    /\ loc[t].curr = NULL
    /\ arg[t].op = "insert"
    /\ used < MaxNodes
    /\ used' = used + 1
    /\ node' = [node EXCEPT ![used + 1] =
                  [key |-> arg[t].key, val |-> arg[t].val, next |-> NULL]]
    /\ SetLocal(t, [loc[t] EXCEPT !.n = used + 1])
    /\ Goto(t, IF loc[t].prev = NULL THEN "linkbase" ELSE "link")
    /\ UNCHANGED <<size, allow_resize, store, arrays, arg, rsz, calls, fault>>

(* The collision test that follows the link reads a local and a field that *)
(* no thread writes.                                                       *)
AfterLink(t) ==
    /\ SetLocal(t, [loc[t] EXCEPT !.ret = 0])
    /\ Goto(t, IF allow_resize /\ loc[t].collision >= MAX_COLLISION
               THEN "r_new" ELSE "ret")

(* prev->next = n, whatever prev->next is by now.                          *)
LinkAfterPrev(t) ==
    /\ pc[t] = "link"
    /\ node' = [node EXCEPT ![loc[t].prev].next = loc[t].n]
    /\ AfterLink(t)
    /\ UNCHANGED <<size, allow_resize, store, arrays, used, arg, rsz, calls, fault>>

(* ht->store[slot] = n: the address, then the write.                       *)
ReadBaseToLink(t) ==
    /\ pc[t] = "linkbase"
    /\ SetLocal(t, [loc[t] EXCEPT !.base = store])
    /\ Goto(t, "linkhead")
    /\ UNCHANGED <<table, arg, rsz, calls, fault>>

(* Mutant of LinkHead: ht->store[0] instead of ht->store[slot].            *)
LinkFirstSlot(t) ==
    /\ pc[t] = "linkhead"
    /\ ~BadAccess(t)
    /\ arrays' = [arrays EXCEPT ![loc[t].base].elt[0] = loc[t].n]
    /\ AfterLink(t)
    /\ UNCHANGED <<size, allow_resize, store, node, used, arg, rsz, calls, fault>>

LinkHead(t) ==
    /\ pc[t] = "linkhead"
    /\ ~BadAccess(t)
    /\ arrays' = [arrays EXCEPT ![loc[t].base].elt[loc[t].slot] = loc[t].n]
    /\ AfterLink(t)
    /\ UNCHANGED <<size, allow_resize, store, node, used, arg, rsz, calls, fault>>
-----------------------------------------------------------------------------
(* htable_resize, called by htable_insert after its node is linked.        *)
NewStore(t) ==
    /\ pc[t] = "r_new"
    /\ Len(arrays) < MaxStores
    /\ LET n == get_prime(2 * size)
       IN  /\ arrays' = Append(arrays, ZeroArray(n))
           /\ SetResize(t, [NoResize EXCEPT !.new_size = n,
                                            !.new_store = Len(arrays) + 1])
    /\ Goto(t, "r_for")
    /\ UNCHANGED <<size, allow_resize, store, node, used, arg, loc, calls, fault>>

(* i < ht->size is read again on every turn of the loop.                   *)
ForTest(t) ==
    /\ pc[t] = "r_for"
    /\ Goto(t, IF rsz[t].i < size THEN "r_base" ELSE "r_size")
    /\ UNCHANGED <<table, arg, loc, rsz, calls, fault>>

ForBase(t) ==
    /\ pc[t] = "r_base"
    /\ SetResize(t, [rsz[t] EXCEPT !.base = store])
    /\ Goto(t, "r_head")
    /\ UNCHANGED <<table, arg, loc, calls, fault>>

ForHead(t) ==
    /\ pc[t] = "r_head"
    /\ ~BadAccess(t)
    /\ SetResize(t, [rsz[t] EXCEPT !.curr = arrays[rsz[t].base].elt[rsz[t].i]])
    /\ Goto(t, "r_walk")
    /\ UNCHANGED <<table, arg, loc, calls, fault>>

(* n = curr; curr = curr->next, or the end of this chain and i++.          *)
TakeNode(t) ==
    /\ pc[t] = "r_walk"
    /\ rsz[t].curr # NULL
    /\ SetResize(t, [rsz[t] EXCEPT !.n = rsz[t].curr,
                                   !.curr = node[rsz[t].curr].next])
    /\ Goto(t, "r_move")
    /\ UNCHANGED <<table, arg, loc, calls, fault>>

ChainDone(t) ==
    /\ pc[t] = "r_walk"
    /\ rsz[t].curr = NULL
    /\ SetResize(t, [rsz[t] EXCEPT !.i = @ + 1])
    /\ Goto(t, "r_for")
    /\ UNCHANGED <<table, arg, loc, calls, fault>>

(* Mutant of SetSize: the new array is put in place before the old one is  *)
(* freed, and then it is the new one that ht->store names in the free.     *)
SetSizeAndStore(t) ==
    /\ pc[t] = "r_size"
    /\ size' = rsz[t].new_size /\ store' = rsz[t].new_store
    /\ Goto(t, "r_old")
    /\ UNCHANGED <<allow_resize, arrays, node, used, arg, loc, rsz, calls, fault>>

(* Mutants of MoveNode: n->next written only when the slot is occupied,    *)
(* and the slot computed with the old size.                                *)
MoveNodeKeepsNext(t) ==
    /\ pc[t] = "r_move"
    /\ LET r == rsz[t]
           s == hashcode[node[r.n].key] % r.new_size
           h == arrays[r.new_store].elt[s]
       IN  /\ node' = [node EXCEPT ![r.n].next = IF h # NULL THEN h ELSE @]
           /\ arrays' = [arrays EXCEPT ![r.new_store].elt[s] = r.n]
    /\ Goto(t, "r_walk")
    /\ UNCHANGED <<size, allow_resize, store, used, arg, loc, rsz, calls, fault>>

MoveNodeOldSlot(t) ==
    /\ pc[t] = "r_move"
    /\ LET r == rsz[t]
           s == hashcode[node[r.n].key] % size
       IN  /\ node' = [node EXCEPT ![r.n].next = arrays[r.new_store].elt[s]]
           /\ arrays' = [arrays EXCEPT ![r.new_store].elt[s] = r.n]
    /\ Goto(t, "r_walk")
    /\ UNCHANGED <<size, allow_resize, store, used, arg, loc, rsz, calls, fault>>

(* The node becomes the first of its chain in the new array.               *)
MoveNode(t) ==
    /\ pc[t] = "r_move"
    /\ LET r == rsz[t]
           s == hashcode[node[r.n].key] % r.new_size
       IN  /\ node' = [node EXCEPT ![r.n].next = arrays[r.new_store].elt[s]]
           /\ arrays' = [arrays EXCEPT ![r.new_store].elt[s] = r.n]
    /\ Goto(t, "r_walk")
    /\ UNCHANGED <<size, allow_resize, store, used, arg, loc, rsz, calls, fault>>

(* ht->size = new_size; free(ht->store); ht->store = new_store, in order.  *)
SetSize(t) ==
    /\ pc[t] = "r_size"
    /\ size' = rsz[t].new_size
    /\ Goto(t, "r_old")
    /\ UNCHANGED <<allow_resize, store, arrays, node, used, arg, loc, rsz, calls, fault>>

ReadOldStore(t) ==
    /\ pc[t] = "r_old"
    /\ SetResize(t, [rsz[t] EXCEPT !.base = store])
    /\ Goto(t, "r_free")
    /\ UNCHANGED <<table, arg, loc, calls, fault>>

FreeStore(t) ==
    /\ pc[t] = "r_free"
    /\ ~BadAccess(t)
    /\ arrays' = [arrays EXCEPT ![rsz[t].base].live = FALSE]
    /\ Goto(t, "r_store")
    /\ UNCHANGED <<size, allow_resize, store, node, used, arg, loc, rsz, calls, fault>>

(* Mutant of SetStore: the assignment ht->store = new_store is forgotten.  *)
SetStoreForgotten(t) ==
    /\ pc[t] = "r_store"
    /\ Goto(t, "ret")
    /\ UNCHANGED <<table, arg, loc, rsz, calls, fault>>

SetStore(t) ==
    /\ pc[t] = "r_store"
    /\ store' = rsz[t].new_store
    /\ Goto(t, "ret")
    /\ UNCHANGED <<size, allow_resize, arrays, node, used, arg, loc, rsz, calls, fault>>

Return(t) ==
    /\ pc[t] = "ret"
    /\ Goto(t, "idle")
    /\ UNCHANGED <<table, arg, loc, rsz, calls, fault>>
-----------------------------------------------------------------------------
InsertStep(t) ==
    \/ ReadSize(t) \/ ReadBase(t) \/ ReadHead(t)
    \/ Found(t) \/ Advance(t) \/ LookupMiss(t)
    \/ NewNode(t) \/ LinkAfterPrev(t) \/ ReadBaseToLink(t) \/ LinkHead(t)

ResizeStep(t) ==
    \/ NewStore(t) \/ ForTest(t) \/ ForBase(t) \/ ForHead(t)
    \/ TakeNode(t) \/ ChainDone(t) \/ MoveNode(t)
    \/ SetSize(t) \/ ReadOldStore(t) \/ FreeStore(t) \/ SetStore(t)

(* After an invalid access the behaviour is undefined: the model stops.    *)
Step(t) == ~fault /\ (InsertStep(t) \/ ResizeStep(t) \/ Return(t) \/ Fault(t))

CallInsert(t) == \E k \in Keys, v \in Vals : Call(t, "insert", k, v)
CallLookup(t) == \E k \in Keys : Call(t, "lookup", k, NULL)

(* The threads have made their calls, or nothing is predicted any more.    *)
Finished == fault \/ \A t \in Threads : pc[t] = "idle" /\ calls[t] = MaxCalls

Next ==
    \/ \E t \in Threads : CallInsert(t) \/ CallLookup(t) \/ Step(t)
    \/ Finished /\ UNCHANGED vars

Spec == Init /\ [][Next]_vars

(* The scheduler eventually runs every thread that is inside a call.       *)
FairSpec == Spec /\ \A t \in Threads : WF_vars(Step(t))
-----------------------------------------------------------------------------
(* What the table holds.  Reach(P) is what the lists that start in P lead  *)
(* to: the nodes of every set that has P and the next node of its members. *)
Closed(S) == \A n \in S : node[n].next \in S \cup {NULL}

Reach(P) ==
    LET C == {S \in SUBSET NodeId : P \ {NULL} \subseteq S /\ Closed(S)}
    IN  {n \in NodeId : \A S \in C : n \in S}

Heads(a) == {arrays[a].elt[s] : s \in DOMAIN arrays[a].elt}

Moving(t)   == pc[t] \in {"r_for", "r_base", "r_head", "r_walk", "r_move"}
Swapping(t) == pc[t] \in {"r_size", "r_old", "r_free", "r_store"}

(* Mid-resize the entries are those moved, the one in hand, and those of   *)
(* the old slots the loop has not reached.                                 *)
ResizeEntries(t) ==
    LET r == rsz[t]
        left == {s \in DOMAIN arrays[store].elt :
                   s > r.i \/ (s = r.i /\ pc[t] \in {"r_for", "r_base", "r_head"})}
    IN  Reach(Heads(r.new_store) \cup {r.curr}
                \cup {arrays[store].elt[s] : s \in left})
          \cup (IF pc[t] = "r_move" THEN {r.n} ELSE {})

Entries ==
    IF \E t \in Threads : Moving(t)
      THEN ResizeEntries(CHOOSE t \in Threads : Moving(t))
    ELSE IF \E t \in Threads : Swapping(t)
      THEN Reach(Heads(rsz[CHOOSE t \in Threads : Swapping(t)].new_store))
    ELSE Reach(Heads(store))

(* The keys of the table, and the value stored with each of them.          *)
Present == {node[n].key : n \in Entries}
Stored ==
    LET E == Entries
    IN  [k \in Keys |-> IF \E n \in E : node[n].key = k
                        THEN node[CHOOSE n \in E : node[n].key = k].val
                        ELSE NULL]

(* No resize is moving nodes or exchanging the arrays.                     *)
Settled == \A t \in Threads : ~Moving(t) /\ ~Swapping(t)
-----------------------------------------------------------------------------
(* Properties.                                                             *)
Call_ == [op : {"none", "insert", "lookup"},
          key : Keys \cup {NULL}, val : Vals \cup {NULL}]
Local_ == [slot : Nat, base : Nat, prev : Ptr, curr : Ptr, collision : Nat,
           n : Ptr, ret : {0, 1, NULL} \cup Vals]
Resize_ == [new_size : Nat, new_store : Nat, i : Nat, base : Nat,
            curr : Ptr, n : Ptr]
Node_ == [key : Keys \cup {NULL}, val : Vals \cup {NULL}, next : Ptr]

(* Every variable and local of htable.c holds a value of its C type; node  *)
(* pointers are NULL or name a node the program can allocate.              *)
TypeOK ==
    /\ size \in Nat \ {0} /\ allow_resize \in BOOLEAN
    /\ store \in DOMAIN arrays
    /\ \A a \in DOMAIN arrays :
         /\ arrays[a].live \in BOOLEAN
         /\ \A s \in DOMAIN arrays[a].elt : arrays[a].elt[s] \in Ptr
    /\ node \in [NodeId -> Node_]
    /\ used \in 0..MaxNodes
    /\ pc \in [Threads -> Pcs]
    /\ arg \in [Threads -> Call_]
    /\ loc \in [Threads -> Local_]
    /\ rsz \in [Threads -> Resize_]
    /\ calls \in [Threads -> 0..MaxCalls]
    /\ fault \in BOOLEAN

(* A key is only ever chained in the slot htable_lookup will search for it *)
(* (hcode % ht->size): with one thread also right after a resize, and      *)
(* while threads race on a table that nobody resizes.  It is not so for a  *)
(* resize that races: the slot of a call is then one of the old size       *)
(* (ResizeAloneIsSafe).                                                    *)
WellPlaced ==
    Settled =>
      \A s \in DOMAIN arrays[store].elt :
        arrays[store].elt[s] # NULL =>
          \A n \in Reach({arrays[store].elt[s]}) : hashcode[node[n].key] % size = s

(* The table never holds a key twice: racing inserts may lose an entry but *)
(* the loop that looks for the key first cannot be outrun into a duplicate.*)
NoDuplicateKeys ==
    LET E == Entries
    IN  \A m, n \in E : node[m].key = node[n].key => m = n

(* No list leads back to one of its nodes, so the loops over curr of       *)
(* insert, lookup and resize, and free_linked_list, come to an end; again  *)
(* for one thread, or threads that race where nobody resizes.              *)
Acyclic ==
    \A S \in SUBSET Entries : S # {} => \E n \in S : node[n].next \notin S

(* No thread indexes a freed array or one outside its bounds.              *)
NoInvalidAccess == ~fault

(* A new node is the inserting thread's own until it writes the link: no   *)
(* array, no node and no local of another thread points at it.             *)
Linking(t) == pc[t] \in {"link", "linkbase", "linkhead"}
PrivateUntilLinked ==
    \A t \in Threads : Linking(t) =>
      LET n == loc[t].n
      IN  /\ \A a \in DOMAIN arrays : n \notin Heads(a)
          /\ \A m \in NodeId : node[m].next # n
          /\ \A u \in Threads \ {t} :
               /\ n \notin {loc[u].prev, loc[u].curr}
               /\ Linking(u) => loc[u].n # n
               /\ pc[u] \in ResizePcs => n \notin {rsz[u].curr, rsz[u].n}

(* The pointer the next step of t will overwrite when it links its node.   *)
Overwritten(t) ==
    IF pc[t] = "link" THEN node[loc[t].prev].next
    ELSE arrays[loc[t].base].elt[loc[t].slot]

(* A key that is in the table leaves it in one way only: a thread that saw *)
(* the end of the chain links its node over one that was linked meanwhile, *)
(* and only entries of that chain go.                                      *)
OnlyStaleLinkLoses ==
    [][\A k \in Present \ Present' :
         \E t \in Threads :
            /\ pc[t] \in {"link", "linkhead"} /\ pc'[t] # pc[t]
            /\ Overwritten(t) # NULL
            /\ hashcode[k] % size = loc[t].slot]_vars

(* Every call returns: no thread walks a chain or the resize loop forever. *)
CallsReturn == \A t \in Threads : pc[t] # "idle" ~> pc[t] = "idle"

=============================================================================
