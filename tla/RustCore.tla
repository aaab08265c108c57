------------------------------ MODULE RustCore ------------------------------
(***************************************************************************)
(* The containers and counters of the Rust crates black_core and           *)
(* black_mem.                                                              *)
(***************************************************************************)
EXTENDS Integers, Sequences, SequencesExt, FiniteSetsExt

(***************************************************************************)
(* black_ring_buffer of rust/black_core/src/lib.rs: a ring that counts its *)
(* bytes.                                                                  *)
(***************************************************************************)

CONSTANTS
  RING_SIZE,   \* 4096 in the code
  RingBytes

VARIABLES
  ring_data, ring_head, ring_tail, ring_count,
  in_ring      \* what was pushed and not popped, in order: not in the code

ringvars == <<ring_data, ring_head, ring_tail, ring_count, in_ring>>

RingInit ==
  /\ ring_data = [i \in 0 .. RING_SIZE - 1 |-> 0]
  /\ ring_head = 0 /\ ring_tail = 0 /\ ring_count = 0
  /\ in_ring = <<>>

\* black_push refuses when full, black_pop when empty.
RingPush(b) ==
  /\ ring_count < RING_SIZE
  /\ ring_data' = [ring_data EXCEPT ![ring_head] = b]
  /\ ring_head' = (ring_head + 1) % RING_SIZE
  /\ ring_count' = ring_count + 1
  /\ in_ring' = Append(in_ring, b)
  /\ UNCHANGED ring_tail

RingPop ==
  /\ ring_count # 0
  /\ ring_tail' = (ring_tail + 1) % RING_SIZE
  /\ ring_count' = ring_count - 1
  /\ in_ring' = Tail(in_ring)
  /\ UNCHANGED <<ring_data, ring_head>>

\* black_clear keeps the bytes.
RingClear ==
  /\ ring_head' = 0 /\ ring_tail' = 0 /\ ring_count' = 0
  /\ in_ring' = <<>>
  /\ UNCHANGED ring_data

RingNext == (\E b \in RingBytes : RingPush(b)) \/ RingPop \/ RingClear
-----------------------------------------------------------------------------
\* The ring holds what was pushed and not yet popped, in order.
RingKeepsOrder ==
  in_ring = [i \in 1 .. ring_count |-> ring_data[(ring_tail + i - 1) % RING_SIZE]]
-----------------------------------------------------------------------------
(***************************************************************************)
(* The bit set of rust/black_core and the statistics of rust/black_mem.    *)
(***************************************************************************)

CONSTANTS
  WORD_BITS, WORDS,   \* the bits of a word and the words of a set
  SetSizes,           \* the sizes that a set is made with
  AllocSizes,
  ALLOCS              \* the allocations of a behaviour: bounds the run

VARIABLES
  bits, bit_size,     \* black_bitset: word -> the bits of it that are set
  members,            \* the elements: not in the code
  pool,               \* BLACK_POOL_STATS
  live                \* the sizes now allocated, in a sequence: not in the code

countvars == <<bits, bit_size, members, pool, live>>

\* black_bitset_init
BitSetMade(n) ==
  /\ bit_size = Min({n, WORD_BITS * WORDS})
  /\ bits = [w \in 0 .. WORDS - 1 |-> {}]
  /\ members = {}
PoolZero == [allocs |-> 0, frees |-> 0, alloc_bytes |-> 0, free_bytes |-> 0, peak |-> 0, current |-> 0]
CountersInit == (\E n \in SetSizes : BitSetMade(n)) /\ pool = PoolZero /\ live = << >>

\* black_bitset_set, clear, test and first_free.
BitSet(i) ==
  /\ bits' = IF i < bit_size THEN [bits EXCEPT ![i \div WORD_BITS] = @ \cup {i % WORD_BITS}] ELSE bits
  /\ members' = IF i < bit_size THEN members \cup {i} ELSE members
  /\ UNCHANGED <<bit_size, pool, live>>
BitClear(i) ==
  /\ bits' = IF i < bit_size THEN [bits EXCEPT ![i \div WORD_BITS] = @ \ {i % WORD_BITS}] ELSE bits
  /\ members' = members \ {i}
  /\ UNCHANGED <<bit_size, pool, live>>
BitTest(i) == i < bit_size /\ i % WORD_BITS \in bits[i \div WORD_BITS]
FirstFree ==
  LET free == {i \in 0 .. bit_size - 1 : i % WORD_BITS \notin bits[i \div WORD_BITS]}
  IN IF free = {} THEN -1 ELSE Min(free)

\* black_pool_stats_record_alloc and record_free.
RecordAlloc(n) ==
  /\ pool.allocs < ALLOCS
  /\ pool' = [pool EXCEPT !.allocs = @ + 1, !.alloc_bytes = @ + n, !.current = @ + n,
                          !.peak = Max({@, pool.current + n})]
  /\ live' = Append(live, n)
  /\ UNCHANGED <<bits, bit_size, members>>
RecordFree(k) ==
  /\ k \in DOMAIN live
  /\ pool' = [pool EXCEPT !.frees = @ + 1, !.free_bytes = @ + live[k],
                          !.current = IF @ >= live[k] THEN @ - live[k] ELSE @]
  /\ live' = RemoveAt(live, k)
  /\ UNCHANGED <<bits, bit_size, members>>

BitStep == \E i \in 0 .. WORD_BITS * WORDS : BitSet(i) \/ BitClear(i)
PoolStep == (\E n \in AllocSizes : RecordAlloc(n)) \/ \E k \in 1 .. ALLOCS : RecordFree(k)
-----------------------------------------------------------------------------
\* The bit set answers as the set of numbers it stands for, also at the ends
\* of its words and for a size that is cut.  The statistics say what is
\* allocated, and the peak is at least that and at most all that ever was.
CountersTrue ==
  /\ \A i \in 0 .. WORD_BITS * WORDS : BitTest(i) <=> i \in members
  /\ FirstFree = IF members = 0 .. bit_size - 1 THEN -1 ELSE Min(0 .. bit_size - 1 \ members)
  /\ pool.current = FoldLeft(LAMBDA a, n : a + n, 0, live) /\ pool.current = pool.alloc_bytes - pool.free_bytes
  /\ pool.peak \in pool.current .. pool.alloc_bytes
  /\ pool.allocs - pool.frees = Len(live)
=============================================================================
