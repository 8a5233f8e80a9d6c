------------------------------ MODULE HTableInv ------------------------------
(***************************************************************************)
(* What holds at every step of any number of threads that share a table    *)
(* which is never resized: strong enough to be preserved by every action,  *)
(* and to imply the safety of the accesses and the shape of the lists.     *)
(***************************************************************************)
EXTENDS HTable

SlotOf(n) == hashcode[node[n].key] % size

(* The array htable_init made stays the table's and is never freed.        *)
OneArray ==
    /\ allow_resize = FALSE
    /\ size = get_prime(Sz + 1) /\ store = 1
    /\ arrays \in [1..1 -> [live : {TRUE}, elt : [Slots(size) -> Ptr]]]

(* Lists ascend: a node is only linked behind one that was allocated       *)
(* before it, of the same slot.                                            *)
ListsAscend ==
    /\ \A m \in 1..used : node[m].key \in Keys
    /\ \A m \in NodeId : node[m].next # NULL =>
         /\ m <= used
         /\ node[m].next \in (m + 1)..used
         /\ SlotOf(node[m].next) = SlotOf(m)

HeadsInPlace ==
    \A s \in Slots(size) :
      LET h == arrays[1].elt[s]
      IN  h # NULL => h \in 1..used /\ SlotOf(h) = s

(* What a thread's locals say at its place in the code.                    *)
LocalsOK(t) ==
    /\ pc[t] \in {"idle", "ret"} \cup InsertPcs
    /\ pc[t] # "idle" => arg[t].key \in Keys
    /\ pc[t] \in InsertPcs \ {"size"} => loc[t].slot = hashcode[arg[t].key] % size
    /\ pc[t] \in {"head", "linkhead"} => loc[t].base = 1
    /\ \A p \in {loc[t].prev, loc[t].curr} : p # NULL =>
         /\ p \in 1..used
         /\ pc[t] \in InsertPcs \ {"size"} => SlotOf(p) = loc[t].slot
    /\ pc[t] = "size" => loc[t].prev = NULL /\ loc[t].curr = NULL
    /\ pc[t] = "link" => loc[t].prev # NULL
    /\ Linking(t) =>
         /\ loc[t].n \in 1..used
         /\ SlotOf(loc[t].n) = loc[t].slot
         /\ node[loc[t].n].next = NULL
         /\ loc[t].prev # NULL => loc[t].prev < loc[t].n

HInv ==
    /\ TypeOK
    /\ ~fault
    /\ OneArray /\ ListsAscend /\ HeadsInPlace
    /\ \A t \in Threads : LocalsOK(t)
    /\ PrivateUntilLinked

(* A node is entered from one place: links lead apart, never together.     *)
OneWayIn ==
    /\ \A m, n \in NodeId :
         node[m].next # NULL /\ node[m].next = node[n].next => m = n
    /\ \A m \in NodeId : node[m].next # NULL => node[m].next \notin Heads(1)

(* Nothing outside A leads into A.                                         *)
Upstream(A) == \A m \in NodeId : node[m].next \in A => m \in A

(* What a walk has established: the only way to curr is from prev, and     *)
(* prev and everything that leads to it have other keys.                   *)
WalkOK(t) ==
    /\ pc[t] \in {"base", "head"} => loc[t].prev = NULL
    /\ pc[t] = "walk" /\ loc[t].curr # NULL =>
         \A m \in NodeId : node[m].next = loc[t].curr => m = loc[t].prev
    /\ pc[t] \in {"walk", "link"} /\ loc[t].prev # NULL =>
         \E A \in SUBSET NodeId :
            /\ loc[t].prev \in A /\ Upstream(A)
            /\ \A m \in A : node[m].key # arg[t].key
    /\ Linking(t) => node[loc[t].n].key = arg[t].key

(* The walk of an insert is what keeps its key from entering twice.        *)
RaceInv ==
    /\ HInv
    /\ OneWayIn
    /\ \A t \in Threads : WalkOK(t)
    /\ NoDuplicateKeys

IsSeq(q) == q \in Seq({q[a] : a \in DOMAIN q})

(* What malloc returned are records of their fields, whatever these hold.  *)
Shapes ==
    /\ pc \in [Threads -> Pcs]
    /\ rsz = [t \in Threads |->
                 [f \in {"new_size", "new_store", "i", "base", "curr", "n"} |-> rsz[t][f]]]
    /\ IsSeq(arrays)
    /\ \A a \in DOMAIN arrays :
         /\ arrays[a] = [live |-> arrays[a].live, elt |-> arrays[a].elt]
         /\ arrays[a].live \in BOOLEAN
    /\ store \in DOMAIN arrays

(* The array a thread fills is live, is not yet the table's, no other      *)
(* thread fills it, and none is about to free it.                          *)
Resizing(t) == Moving(t) \/ Swapping(t)

FillsItsOwn(t) ==
    LET a == rsz[t].new_store
    IN  /\ a \in DOMAIN arrays /\ arrays[a].live /\ a # store
        /\ \A u \in Threads \ {t} : Resizing(u) => rsz[u].new_store # a
        /\ \A u \in Threads : pc[u] = "r_free" => rsz[u].base # a

(* However many threads resize at once, what a resize writes while it      *)
(* moves nodes is memory of its own: not freed, not the array of the       *)
(* table, and none that another resize fills or is about to free.          *)
ArraysOwned == \A t \in Threads : Resizing(t) => FillsItsOwn(t)

(* The table's array is a freed one only until the assignment of ht->store *)
(* that follows the free.  Other threads may use it meanwhile (Fault).     *)
FreedOnlyInExchange ==
    ~arrays[store].live => \E t \in Threads : pc[t] = "r_store"

ExchangeInv ==
    /\ Shapes
    /\ ArraysOwned
    /\ \A t \in Threads : pc[t] = "r_free" => rsz[t].base \in DOMAIN arrays
    /\ FreedOnlyInExchange

(* Any number of threads, and any number of them resizing at once: the     *)
(* pointers they come across lead to nodes that are or have been linked.   *)
Unlinked == {loc[t].n : t \in {u \in Threads : Linking(u)}}
Known == (1..used \cup {NULL}) \ Unlinked

PointersKnown ==
    /\ \A a \in DOMAIN arrays : \A s \in DOMAIN arrays[a].elt : arrays[a].elt[s] \in Known
    /\ \A m \in NodeId : node[m].next \in Known
    /\ \A t \in Threads : {loc[t].prev, loc[t].curr, rsz[t].curr, rsz[t].n} \subseteq Known

PlaceOK(t) ==
    /\ pc[t] \in InsertPcs => arg[t].key \in Keys
    /\ pc[t] \in {"head", "linkhead"} => loc[t].base \in DOMAIN arrays
    /\ pc[t] = "link" => loc[t].prev # NULL
    /\ Linking(t) => loc[t].n \in 1..used
    /\ pc[t] = "r_head" => rsz[t].base \in DOMAIN arrays
    /\ pc[t] = "r_move" => rsz[t].n # NULL
    /\ Resizing(t) =>
         /\ rsz[t].new_size \in Nat \ {0}
         /\ DOMAIN arrays[rsz[t].new_store].elt = Slots(rsz[t].new_size)

PointerInv ==
    /\ TypeOK
    /\ \A m \in 1..used : node[m].key \in Keys
    /\ PointersKnown
    /\ \A t \in Threads : PlaceOK(t)
    /\ \A t, u \in Threads : Linking(t) /\ Linking(u) /\ loc[t].n = loc[u].n => t = u
-----------------------------------------------------------------------------
(* One thread alone, through any number of resizes.                        *)

(* What the lists that start in P lead to, by the links of f.              *)
ClosedIn(f, S) == \A m \in S : f[m].next \in S \cup {NULL}
Reached(f, P) ==
    {m \in NodeId : \A S \in SUBSET NodeId :
        P \ {NULL} \subseteq S /\ ClosedIn(f, S) => m \in S}

NoRing(f) == \A S \in SUBSET NodeId : S # {} => \E m \in S : f[m].next \notin S

(* With the heads elt, a table of n slots has just the nodes L, each of    *)
(* them in its slot.                                                       *)
SlotIn(f, n, m) == hashcode[f[m].key] % n
TableOf(f, elt, n, L) ==
    /\ n \in Nat \ {0} /\ elt \in [Slots(n) -> Ptr]
    /\ Reached(f, {elt[s] : s \in Slots(n)}) = L
    /\ \A m \in L : /\ f[m].key \in Keys
                    /\ f[m].next # NULL => SlotIn(f, n, f[m].next) = SlotIn(f, n, m)
    /\ \A s \in Slots(n) : elt[s] # NULL => SlotIn(f, n, elt[s]) = s

(* A node that is not linked yet is the last one allocated.                *)
Linked(t) == IF Linking(t) THEN 1..(used - 1) ELSE 1..used
NodesOK(t) ==
    /\ \A m \in 1..used : node[m].key \in Keys /\ node[m].val \in Vals
    /\ \A m, n \in Linked(t) : node[m].key = node[n].key => m = n
    /\ NoRing(node)

CalmOK(t) == ~Resizing(t) => TableOf(node, arrays[store].elt, size, Linked(t))

(* The nodes are moved, in hand, or still where the loop will find them.   *)
RestOf(label, r) ==
    [s \in Slots(size) |->
        IF s > r.i \/ (s = r.i /\ label \in {"r_for", "r_base", "r_head"})
        THEN arrays[store].elt[s]
        ELSE IF s = r.i THEN r.curr ELSE NULL]
HandOf(label, r) == IF label = "r_move" THEN {r.n} ELSE {}

MovingAt(label, r) ==
    /\ arrays[store].elt \in [Slots(size) -> Ptr]
    /\ \E moved, left \in SUBSET NodeId :
          /\ TableOf(node, arrays[r.new_store].elt, r.new_size, moved)
          /\ TableOf(node, RestOf(label, r), size, left)
          /\ moved \cap left = {} /\ HandOf(label, r) \cap (moved \cup left) = {}
          /\ moved \cup left \cup HandOf(label, r) = 1..used
    /\ label \in {"r_for", "r_base", "r_head"} => r.curr = NULL
    /\ label # "r_for" => r.i < size
    /\ label = "r_head" => r.base = store

SwappingAt(label, r) ==
    /\ TableOf(node, arrays[r.new_store].elt, r.new_size, 1..used)
    /\ label # "r_size" => size = r.new_size
    /\ label = "r_free" => r.base = store

ResizeOK(t) ==
    /\ Moving(t) => MovingAt(pc[t], rsz[t])
    /\ Swapping(t) => SwappingAt(pc[t], rsz[t])

(* A call looks through the chain of its key, and links a new node where   *)
(* the chain ends.                                                         *)
WalkedAt(label, l, call) ==
    LET k == call.key
    IN  /\ label \in InsertPcs =>
             call.op \in {"insert", "lookup"} /\ k \in Keys /\ l.ret = NULL
        /\ label \in InsertPcs /\ call.op = "insert" => call.val \in Vals
        /\ label \in InsertPcs \ {"size"} => l.slot = hashcode[k] % size
        /\ label \in {"size", "base", "head"} => l.prev = NULL
        /\ label \in {"head", "linkhead"} => l.base = store
        /\ label = "walk" =>
             /\ IF l.prev = NULL THEN l.curr = arrays[store].elt[l.slot]
                ELSE /\ l.prev \in 1..used /\ node[l.prev].next = l.curr
                     /\ SlotIn(node, size, l.prev) = l.slot
             /\ \A m \in 1..used : node[m].key = k => m \in Reached(node, {l.curr})
        /\ label \in {"link", "linkbase", "linkhead"} =>
             /\ call.op = "insert" /\ used > 0 /\ l.n = used
             /\ node[used] = [key |-> k, val |-> call.val, next |-> NULL]
             /\ \A m \in 1..(used - 1) : node[m].key # k
        /\ label = "link" =>
             /\ l.prev \in 1..(used - 1) /\ node[l.prev].next = NULL
             /\ SlotIn(node, size, l.prev) = l.slot
        /\ label \in {"linkbase", "linkhead"} => arrays[store].elt[l.slot] = NULL

SeqInv(t) ==
    /\ TypeOK /\ ~fault
    /\ NodesOK(t) /\ CalmOK(t) /\ ResizeOK(t)
    /\ WalkedAt(pc[t], loc[t], arg[t])
=============================================================================
