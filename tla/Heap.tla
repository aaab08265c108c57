-------------------------------- MODULE Heap --------------------------------
(***************************************************************************)
(* The kernel heap of kernel/mm/heap.c: a doubly linked list of blocks,    *)
(* each a header of HDR bytes followed by its memory, allocated best fit,  *)
(* split on allocation and merged with both neighbours on release.         *)
(*                                                                         *)
(* hdr[a] is the header at address a.  A header whose magic is             *)
(* BLACK_HEAP_DEAD, or that was never written, is not in its domain.       *)
(* Callers free and resize only what they own.                             *)
(***************************************************************************)
EXTENDS Integers, FiniteSets

CONSTANTS
  HEAP_START,  \* black_start
  HEAP_SIZE,   \* black_size
  HDR,         \* sizeof(black_heap_block_t)
  MIN_BLOCK,   \* BLACK_HEAP_MIN_BLOCK
  ALIGN,       \* the alignment of black_heap_alloc
  Sizes        \* bound: the sizes callers ask for

NULL == 0
HEAP_END == HEAP_START + HEAP_SIZE

ASSUME HeapAssumption ==
  /\ HEAP_START \in Nat \ {0} /\ HEAP_SIZE \in Nat
  /\ HDR \in Nat \ {0} /\ MIN_BLOCK \in Nat /\ ALIGN \in Nat \ {0}
  /\ HDR < HEAP_SIZE
  /\ Sizes \subseteq Nat

VARIABLES
  hdr,    \* the headers: black_size, black_free, black_next, black_prev
  owned   \* what the callers own: pointer -> bytes asked for

vars == <<hdr, owned>>

Blocks == DOMAIN hdr
Ptr(a) == a + HDR
BlockOf(p) == p - HDR

\* BLACK_ALIGN(n, 16), for a power of two.
AlignDown(n) == (n \div ALIGN) * ALIGN
AlignUp(n) == ((n + ALIGN - 1) \div ALIGN) * ALIGN

Init ==
  /\ hdr = [a \in {HEAP_START} |->
              [size |-> HEAP_SIZE - HDR, free |-> TRUE, next |-> NULL, prev |-> NULL]]
  /\ owned = [p \in {} |-> 0]

\* black_heap_split on the headers h.
Splits(h, a, n) == h[a].size > n + HDR + MIN_BLOCK

SplitForgetsPrev(h, a, n) ==
  LET b == a + HDR + n
  IN [x \in DOMAIN h \cup {b} |->
        CASE x = b -> [size |-> h[a].size - n - HDR, free |-> TRUE,
                       next |-> h[a].next, prev |-> a]
          [] x = a -> [h[a] EXCEPT !.size = n, !.next = b]
          [] OTHER -> h[x]]
Split(h, a, n) ==
  LET b == a + HDR + n
      z == h[a].next
  IN [x \in DOMAIN h \cup {b} |->
        CASE x = b -> [size |-> h[a].size - n - HDR, free |-> TRUE,
                       next |-> z, prev |-> a]
          [] x = a -> [h[a] EXCEPT !.size = n, !.next = b]
          [] x = z /\ x # a /\ x # b -> [h[z] EXCEPT !.prev = b]
          [] OTHER -> h[x]]

\* black_heap_merge on the headers h.
Merges(h, a) == h[a].next # NULL /\ h[h[a].next].free

Merge(h, a) ==
  LET b == h[a].next
      z == h[b].next
  IN IF ~Merges(h, a) THEN h
     ELSE [x \in DOMAIN h \ {b} |->
             CASE x = a -> [h[a] EXCEPT !.size = @ + HDR + h[b].size, !.next = z]
               [] x = z /\ x # a -> [h[z] EXCEPT !.prev = a]
               [] OTHER -> h[x]]

\* The first of the smallest free blocks that fit.  The list is in address
\* order (ListTilesHeap).
Fits(n) == {a \in Blocks : hdr[a].free /\ hdr[a].size >= n}
IsBest(a, n) ==
  /\ a \in Fits(n)
  /\ \A b \in Fits(n) :
       \/ hdr[a].size < hdr[b].size
       \/ hdr[a].size = hdr[b].size /\ a <= b

\* The headers after black_heap_alloc of n bytes from block a.
Allocated(a, n) ==
  LET h == IF Splits(hdr, a, n) THEN Split(hdr, a, n) ELSE hdr
  IN [h EXCEPT ![a].free = FALSE]

Freed(h0, a) ==
  LET h1 == [h0 EXCEPT ![a].free = TRUE]
      b  == IF h1[a].prev # NULL /\ h1[h1[a].prev].free THEN h1[a].prev ELSE a
      h2 == Merge(h1, b)
  IN IF h2[b].next # NULL THEN Merge(h2, b) ELSE h2

Grant(p, n) == [q \in DOMAIN owned \cup {p} |-> IF q = p THEN n ELSE owned[q]]

\* kmalloc and kcalloc of n bytes in all; without a fit they return NULL and
\* change nothing.
Alloc(n) ==
  /\ n > 0
  /\ \E a \in Blocks :
       /\ IsBest(a, AlignUp(n))
       /\ hdr' = Allocated(a, AlignUp(n))
       /\ owned' = Grant(Ptr(a), n)

Free(p) ==
  /\ p \in DOMAIN owned
  /\ hdr' = Freed(hdr, BlockOf(p))
  /\ owned' = [q \in DOMAIN owned \ {p} |-> owned[q]]

\* krealloc of an owned pointer: in place when the block is large enough,
\* otherwise a new block, a copy and a free; without a fit the old one stays.
ReallocInPlace(p, n) ==
  /\ p \in DOMAIN owned /\ n > 0
  /\ hdr[BlockOf(p)].size >= n
  /\ owned' = [owned EXCEPT ![p] = n]
  /\ UNCHANGED hdr

ReallocMove(p, n) ==
  /\ p \in DOMAIN owned
  /\ hdr[BlockOf(p)].size < n
  /\ \E a \in Blocks :
       /\ IsBest(a, AlignUp(n))
       /\ hdr' = Freed(Allocated(a, AlignUp(n)), BlockOf(p))
       /\ owned' = [q \in (DOMAIN owned \ {p}) \cup {Ptr(a)} |->
                      IF q = Ptr(a) THEN n ELSE owned[q]]

Next ==
  \/ \E n \in Sizes : Alloc(n)
  \/ \E p \in DOMAIN owned :
       \/ Free(p)
       \/ \E n \in Sizes : ReallocInPlace(p, n) \/ ReallocMove(p, n)

Spec == Init /\ [][Next]_vars

\* black_heap_get_used and black_heap_get_free; Sum[S] adds the memory of
\* the blocks in S.
Sum[S \in SUBSET (HEAP_START .. HEAP_END)] ==
  IF S = {} THEN 0
  ELSE LET a == CHOOSE x \in S : TRUE IN hdr[a].size + Sum[S \ {a}]
GetFree == Sum[{a \in Blocks : hdr[a].free}]
GetUsed == LET U == {a \in Blocks : ~hdr[a].free} IN Sum[U] + HDR * Cardinality(U)
-----------------------------------------------------------------------------
\* Headers lie in the heap; links are headers or NULL.
TypeOK ==
  /\ Blocks \subseteq HEAP_START .. HEAP_END - 1
  /\ hdr \in [Blocks -> [size : Nat, free : BOOLEAN,
                         next : Blocks \cup {NULL}, prev : Blocks \cup {NULL}]]
  /\ DOMAIN owned \subseteq {Ptr(a) : a \in Blocks}
  /\ \A p \in DOMAIN owned : owned[p] \in Nat

\* The list covers the heap without a gap or an overlap: a block's next is
\* the block that begins where it ends, the last one ends with the heap, and
\* prev is the inverse of next, after any splits and merges.  Free memory is
\* never left in two neighbouring blocks.  The two statistics account for
\* every byte except the free headers.
ListTilesHeap ==
  /\ HEAP_START \in Blocks
  /\ \A a \in Blocks :
       /\ IF hdr[a].next = NULL THEN a + HDR + hdr[a].size = HEAP_END
          ELSE hdr[a].next = a + HDR + hdr[a].size /\ hdr[hdr[a].next].prev = a
       /\ IF hdr[a].prev = NULL THEN a = HEAP_START
          ELSE hdr[hdr[a].prev].next = a
  /\ \A a \in Blocks : hdr[a].free /\ hdr[a].next # NULL => ~hdr[hdr[a].next].free
  /\ GetUsed + GetFree + HDR * Cardinality({a \in Blocks : hdr[a].free}) = HEAP_SIZE

\* The blocks in use are those the callers own, each at least as large as
\* what was asked for: no block is given out twice and none leaks.
UsedAreOwned ==
  /\ \A a \in Blocks : ~hdr[a].free <=> Ptr(a) \in DOMAIN owned
  /\ \A p \in DOMAIN owned : owned[p] <= hdr[BlockOf(p)].size

Abstract == INSTANCE Allocator WITH Region <- HEAP_START .. HEAP_END - 1
\* Seen by its callers the heap is an Allocator: what it hands out lies in
\* the heap and meets nothing that is still owned.
ImplementsAllocator == Abstract!Spec
=============================================================================
