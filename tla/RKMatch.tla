------------------------------- MODULE RKMatch -------------------------------
(***************************************************************************)
(* rklab/rkmatch_main.c: the options, the two files, and the four ways of  *)
(* counting the chunks of the query document X that occur in Y.  The       *)
(* matching functions of rkmatch.c are stubs that answer 0: the program is *)
(* modelled with them and with functions that do what their comments say.  *)
(***************************************************************************)
EXTENDS RKHash

CONSTANTS
    Chars,          \* the characters in documents
    MaxX, MaxY,     \* bounds: lengths of the documents
    Sizes,          \* arguments of -k
    Primes          \* arguments of -q

ASSUME DocsAssumption ==
    /\ Chars \subseteq 0..(RADIX - 1) /\ MaxX \in Nat /\ MaxY \in Nat
    /\ Sizes \subseteq Nat /\ Primes \subseteq Nat \ {0, 1}

EXACT == 0
SIMPLE == 1
RK == 2
RKBATCH == 3

Docs(n) == UNION {[1..l -> Chars] : l \in 0..n}

VARIABLES
    solved,             \* the stubs have been filled in
    k, which_algo, BIG_PRIME,    \* the options
    X, Y,               \* the normalized documents
    pc, i,              \* place, and the offset of the chunk in X
    j,                  \* the offset of the window in Y
    ph, h, curr,        \* hash of the chunk, 256^k, hash of the window
    bsz, bits,          \* the bloom filter
    num_matched, outcome

opts   == <<solved, k, which_algo, BIG_PRIME>>
docs   == <<X, Y>>
hashes == <<ph, h, curr>>
filter == <<bsz, bits>>
vars   == <<opts, docs, pc, i, j, hashes, filter, num_matched, outcome>>

Chunk(o)  == SubSeq(X, o + 1, o + k)
Window(o) == SubSeq(Y, o + 1, o + k)
Windows   == {Window(o) : o \in 0..(Len(Y) - k)}
Chunks    == IF k = 0 THEN {} ELSE {o \in 0..(Len(X) - k) : o % k = 0}

Init ==
    /\ solved \in BOOLEAN
    /\ k \in Sizes /\ which_algo \in 0..4 /\ BIG_PRIME \in Primes
    /\ X = <<>> /\ Y = <<>>
    /\ pc = "options" /\ i = 0 /\ j = 0
    /\ ph = 0 /\ h = 0 /\ curr = 0 /\ bsz = 0 /\ bits = {}
    /\ num_matched = 0 /\ outcome = "running"

End(result) ==
    outcome' = result /\ pc' = "over" /\ UNCHANGED <<j, hashes, num_matched>>

(* A missing argument, or read_file on a file that cannot be opened, read  *)
(* or held in memory, exits; otherwise both documents are normalized.  The *)
(* stub of normalize says that nothing is left.                            *)
ReadFiles ==
    /\ pc = "options"
    /\ \/ End("exit") /\ UNCHANGED docs
       \/ /\ IF solved THEN X' \in Docs(MaxX) /\ Y' \in Docs(MaxY)
                       ELSE X' = <<>> /\ Y' = <<>>
          /\ pc' = "dispatch"
          /\ UNCHANGED <<j, hashes, num_matched, outcome>>
    /\ UNCHANGED <<opts, i, filter>>

(* bsz is the size in bits of the filter of a batch match, a multiple of   *)
(* eight: ((qdoc_len * 10 / k) >> 3) << 3.                                 *)
FilterSize(len) == (((len * 10) \div k) \div 8) * 8

(* The switch.  A batch match with chunks of no characters divides by 0.   *)
Dispatch ==
    /\ pc = "dispatch"
    /\ \/ /\ which_algo = EXACT
          /\ End(IF solved /\ X = Y THEN "exact" ELSE "not exact") /\ UNCHANGED filter
       \/ /\ which_algo \in {SIMPLE, RK}
          /\ pc' = "chunk"
          /\ UNCHANGED <<j, hashes, filter, num_matched, outcome>>
       \/ which_algo = RKBATCH /\ k = 0 /\ End("divide") /\ UNCHANGED filter
       \/ /\ which_algo = RKBATCH /\ k > 0
          /\ bsz' = FilterSize(Len(X)) /\ bits' = {}
          /\ pc' = IF solved THEN "insert" ELSE "chunk"
          /\ UNCHANGED <<j, hashes, num_matched, outcome>>
       \/ which_algo \notin EXACT..RKBATCH /\ End("exit") /\ UNCHANGED filter
    /\ UNCHANGED <<opts, docs, i>>
-----------------------------------------------------------------------------
(* The loop over the chunks: (i + k) <= qdoc_len, i += k.                  *)

(* Mutants of MoreChunks and NextChunk.                                    *)
MoreChunksStrict == i + k < Len(X)
NextChunkStays == i

MoreChunks == i + k <= Len(X)
NextChunk == i + k

(* num_matched++.  Bound: with -k 0 the loop never ends, and the count     *)
(* stays at its bound.                                                     *)
Count == IF num_matched <= MaxX + MaxY THEN num_matched + 1 ELSE num_matched

ChunksOver ==
    /\ pc = "chunk" /\ (which_algo = RKBATCH \/ ~MoreChunks)
    /\ End("done")
    /\ UNCHANGED <<opts, docs, i, filter>>

SimpleChunk ==
    /\ pc = "chunk" /\ which_algo = SIMPLE /\ MoreChunks
    /\ num_matched' = IF solved /\ Chunk(i) \in Windows THEN Count ELSE num_matched
    /\ i' = NextChunk
    /\ UNCHANGED <<opts, docs, pc, j, hashes, filter, outcome>>

(* rabin_karp_match: the hashes of the chunk and of the first window.      *)
Aborts(hs) == \E n \in DOMAIN hs : hs[n] = ABORT

RKChunk ==
    /\ pc = "chunk" /\ which_algo = RK /\ MoreChunks
    /\ IF ~solved \/ Len(Y) < k
       THEN i' = NextChunk /\ UNCHANGED <<pc, j, hashes, num_matched, outcome>>
       ELSE /\ UNCHANGED i
            /\ LET hs == <<rkhash_init(BIG_PRIME, Chunk(i)), Power(BIG_PRIME, k),
                           rkhash_init(BIG_PRIME, Window(0))>>
               IN  IF Aborts(hs) THEN End("aborted")
                   ELSE /\ ph' = hs[1] /\ h' = hs[2] /\ curr' = hs[3] /\ j' = 0 /\ pc' = "window"
                        /\ UNCHANGED <<num_matched, outcome>>
    /\ UNCHANGED <<opts, docs, filter>>

(* The next window's hash, from this one's.                                *)
Slide ==
    LET next == rkhash_next(BIG_PRIME, curr, h, Y[j + 1], Y[j + k + 1])
    IN  IF next = ABORT THEN End("aborted")
        ELSE /\ curr' = next /\ j' = j + 1
             /\ UNCHANGED <<pc, ph, h, num_matched, outcome>>

(* Equal hashes are compared character by character before they count.     *)
RKWindow ==
    /\ pc = "window"
    /\ IF curr = ph /\ Window(j) = Chunk(i)
       THEN /\ num_matched' = Count
            /\ pc' = "chunk" /\ i' = NextChunk /\ UNCHANGED <<j, hashes, outcome>>
       ELSE IF j + k >= Len(Y)
       THEN /\ pc' = "chunk" /\ i' = NextChunk
            /\ UNCHANGED <<j, hashes, num_matched, outcome>>
       ELSE Slide /\ UNCHANGED i
    /\ UNCHANGED <<opts, docs, filter>>
-----------------------------------------------------------------------------
(* rabin_karp_batchmatch.  bloom_init asserts that bsz is a multiple of 8. *)
Insert ==
    /\ pc = "insert"
    /\ IF bsz % 8 # 0 THEN End("aborted") /\ UNCHANGED <<i, bits>>
       ELSE IF MoreChunks
       THEN LET hash == rkhash_init(BIG_PRIME, Chunk(i))
            IN  IF hash = ABORT THEN End("aborted") /\ UNCHANGED <<i, bits>>
                ELSE /\ bits' = bits \cup BitsOf(bsz, hash)
                     /\ i' = NextChunk
                     /\ UNCHANGED <<pc, j, hashes, num_matched, outcome>>
       ELSE IF Len(Y) < k THEN End("done") /\ UNCHANGED <<i, bits>>
       ELSE LET hs == <<0, Power(BIG_PRIME, k), rkhash_init(BIG_PRIME, Window(0))>>
            IN  /\ UNCHANGED <<i, bits>>
                /\ IF Aborts(hs) THEN End("aborted")
                   ELSE /\ ph' = hs[1] /\ h' = hs[2] /\ curr' = hs[3] /\ j' = 0 /\ pc' = "query"
                        /\ UNCHANGED <<num_matched, outcome>>
    /\ UNCHANGED <<opts, docs, bsz>>

(* A query counts its window, and the hash moves on to the next one.  A    *)
(* filter without bits divides by 0.                                       *)
Hit == bloom_query(bits, bsz, curr)

Query ==
    /\ pc = "query"
    /\ IF bsz = 0 THEN End("divide")
       ELSE LET next == IF j + k >= Len(Y) THEN curr
                        ELSE rkhash_next(BIG_PRIME, curr, h, Y[j + 1], Y[j + k + 1])
            IN  /\ num_matched' = IF Hit THEN Count ELSE num_matched
                /\ curr' = next /\ j' = j + 1
                /\ pc' = IF j + k >= Len(Y) \/ next = ABORT THEN "over" ELSE pc
                /\ outcome' = IF next = ABORT THEN "aborted"
                              ELSE IF j + k >= Len(Y) THEN "done" ELSE outcome
                /\ UNCHANGED <<ph, h>>
    /\ UNCHANGED <<opts, docs, i, filter>>
-----------------------------------------------------------------------------
Step ==
    \/ ReadFiles \/ Dispatch
    \/ ChunksOver \/ SimpleChunk \/ RKChunk \/ RKWindow
    \/ Insert \/ Query

Next == Step \/ (pc = "over" /\ UNCHANGED vars)

(* The program is sequential and runs.                                     *)
Spec == Init /\ [][Next]_vars /\ WF_vars(Step)
-----------------------------------------------------------------------------
(* The exact value of the polynomial that hashes stand for.                *)
Value(s) == FoldLeft(LAMBDA v, c : v * RADIX + c, 0, s)
IsZero(s) == Value(s) % BIG_PRIME = 0

(* The rolling hash of a window is that of its characters, however far it  *)
(* has rolled; only 0 may appear as BIG_PRIME.                             *)
RollingHash ==
    pc \in {"window", "query"} => (curr - Value(Window(j))) % BIG_PRIME = 0

(* The argument of -q is meant to be a prime, and those tried are.  Then   *)
(* an assertion fails only for a modulus that is not above every           *)
(* character and the radix, or when the characters that stay in a rolled   *)
(* window, or the first of a chunk or window, hash to 0; with chunks of    *)
(* one character none stay, and the first roll fails.  The filter of a     *)
(* batch match has room for at least one byte as soon as X has a chunk,    *)
(* so that only an X shorter than a chunk divides by 0.                    *)
Pieces(w) ==
    {SubSeq(w, 2, Len(w))} \cup {SubSeq(w, 1, n) : n \in 1..Len(w)}
CrashesOnlyAtZero ==
    /\ outcome = "aborted" =>
        \/ BIG_PRIME <= RADIX
        \/ \E w \in Windows \cup {Chunk(o) : o \in Chunks} :
             \E p \in Pieces(w) : IsZero(p)
    /\ outcome = "divide" => Chunks = {}

(* Rabin-Karp counts what the simple match counts, unless the hash of a    *)
(* chunk is 0, which may appear as 0 in one and as BIG_PRIME in the other. *)
Occurring == {o \in Chunks : Chunk(o) \in Windows}
CountsAgree ==
    outcome = "done" /\ solved =>
        /\ which_algo = SIMPLE => num_matched = Cardinality(Occurring)
        /\ which_algo = RK =>
             /\ num_matched <= Cardinality(Occurring)
             /\ num_matched >= Cardinality({o \in Occurring : ~IsZero(Chunk(o))})
        /\ which_algo = RKBATCH =>
             num_matched >= Cardinality({o \in 0..(Len(Y) - k) :
                 ~IsZero(Window(o)) /\ \E c \in Chunks : Chunk(c) = Window(o)})

(* Every run with chunks of at least one character ends.                   *)
Ends == k > 0 ~> outcome # "running"
=============================================================================
