-------------------------------- MODULE Slab --------------------------------
(***************************************************************************)
(* black_slab of rust/black_mem/src/lib.rs: SLAB_ENTRIES objects of one    *)
(* size behind a bitmap.                                                   *)
(***************************************************************************)
EXTENDS Integers, TLAPS

CONSTANTS
  SLAB_ENTRIES,  \* BLACK_SLAB_ENTRIES
  SLAB_BASE,     \* black_base
  OBJ_SIZE       \* black_obj_size

ASSUME SlabAssumption ==
  SLAB_ENTRIES \in Nat /\ SLAB_BASE \in Nat /\ OBJ_SIZE \in Nat \ {0}

Entries == 0 .. SLAB_ENTRIES - 1

VARIABLES
  slab_bits,    \* the entries whose bit is set in black_bitmap
  slab_count,   \* black_count
  slab_owned    \* what the callers own: address -> bytes

slabvars == <<slab_bits, slab_count, slab_owned>>

ObjectAt(i) == SLAB_BASE + i * OBJ_SIZE

SlabInit == slab_bits = {} /\ slab_count = 0 /\ slab_owned = [p \in {} |-> 0]

\* What the callers own after a grant of p; two grants of the same address
\* would add up.
Granted(p) ==
  [q \in DOMAIN slab_owned \cup {p} |->
     (IF q \in DOMAIN slab_owned THEN slab_owned[q] ELSE 0) + (IF q = p THEN OBJ_SIZE ELSE 0)]

\* black_alloc: the first entry whose bit is clear.
SlabAlloc ==
  \E i \in Entries \ slab_bits :
    /\ \A j \in 0 .. i - 1 : j \in slab_bits
    /\ slab_bits' = slab_bits \cup {i}
    /\ slab_count' = slab_count + 1
    /\ slab_owned' = Granted(ObjectAt(i))

\* The entry that black_free derives from an address; anything below the
\* base, between two objects, beyond the last or not allocated is refused.
EntryOfUnaligned(addr) == (addr - SLAB_BASE) \div OBJ_SIZE
EntryOf(addr) ==
  IF addr >= SLAB_BASE /\ (addr - SLAB_BASE) % OBJ_SIZE = 0
  THEN (addr - SLAB_BASE) \div OBJ_SIZE ELSE SLAB_ENTRIES

\* black_free of any address.  The owner loses an object only when it is the
\* address that was given out.
SlabFree(addr) ==
  LET i == EntryOf(addr) IN
    /\ i < SLAB_ENTRIES /\ i \in slab_bits
    /\ slab_bits' = slab_bits \ {i}
    /\ slab_count' = slab_count - 1
    /\ slab_owned' = [p \in DOMAIN slab_owned \ {addr} |-> slab_owned[p]]

SlabNext ==
  \/ SlabAlloc
  \/ \E addr \in SLAB_BASE - 1 .. ObjectAt(SLAB_ENTRIES) : SlabFree(addr)
-----------------------------------------------------------------------------
Objects == INSTANCE Allocator WITH
             Region <- SLAB_BASE .. ObjectAt(SLAB_ENTRIES) - 1,
             Sizes <- {OBJ_SIZE}, owned <- slab_owned

\* Seen by its callers the slab is an Allocator, whatever addresses are
\* passed to black_free: an object is never given out a second time while
\* somebody owns it.
SlabImplementsAllocator == Objects!Spec
-----------------------------------------------------------------------------
(***************************************************************************)
(* The slab of rust/black_mem is an allocator, for every number and size   *)
(* of its objects: proofs about Slab.                                      *)
(***************************************************************************)

\* Callers that allocate, and that free any address of their choice.
SlabSpec == SlabInit /\ [][SlabNext]_slabvars

\* The inductive invariant: the bitmap says exactly which objects are owned.
\* Without it nothing tells that an address whose bit is set is an owner's.
IInv ==
  /\ slab_bits \subseteq Entries
  /\ slab_owned = [p \in {ObjectAt(i) : i \in slab_bits} |-> OBJ_SIZE]
-----------------------------------------------------------------------------
\* Objects do not overlap: a later one begins behind the end of an earlier.
LEMMA ObjectsApart ==
  ASSUME NEW i \in Nat, NEW j \in Nat, i < j
  PROVE  ObjectAt(i) + OBJ_SIZE <= ObjectAt(j)
<1> USE SlabAssumption
<1>1. PICK d \in Nat : j = i + 1 + d
  <2>1. j - (i + 1) \in Nat /\ j = i + 1 + (j - (i + 1))
    OBVIOUS
  <2> QED BY <2>1
<1>2. j * OBJ_SIZE = i * OBJ_SIZE + OBJ_SIZE + d * OBJ_SIZE
  BY <1>1
<1>3. d * OBJ_SIZE \in Nat /\ i * OBJ_SIZE \in Nat
  OBVIOUS
<1> QED BY <1>2, <1>3 DEF ObjectAt

\* Addresses are numbers, and an object lies inside the slab's memory.
LEMMA ObjectInside ==
  ASSUME NEW i \in Entries
  PROVE  /\ ObjectAt(i) \in Nat /\ ObjectAt(i) >= SLAB_BASE
         /\ ObjectAt(SLAB_ENTRIES) \in Nat
         /\ ObjectAt(i) + OBJ_SIZE <= ObjectAt(SLAB_ENTRIES)
<1> USE SlabAssumption
<1>1. i \in Nat /\ i < SLAB_ENTRIES
  BY DEF Entries
<1>2. i * OBJ_SIZE \in Nat /\ SLAB_ENTRIES * OBJ_SIZE \in Nat
  BY <1>1
<1> QED BY <1>1, <1>2, ObjectsApart DEF ObjectAt

\* Different entries have different addresses and share no byte.
LEMMA ObjectsDisjoint ==
  ASSUME NEW i \in Entries, NEW j \in Entries, i # j
  PROVE  /\ ObjectAt(i) # ObjectAt(j)
         /\ Objects!Bytes(ObjectAt(i), OBJ_SIZE) \cap Objects!Bytes(ObjectAt(j), OBJ_SIZE) = {}
<1>1. i \in Nat /\ j \in Nat /\ (i < j \/ j < i)
  BY SlabAssumption DEF Entries
<1>2. ObjectAt(i) + OBJ_SIZE <= ObjectAt(j) \/ ObjectAt(j) + OBJ_SIZE <= ObjectAt(i)
  BY <1>1, ObjectsApart
<1>3. ObjectAt(i) \in Nat /\ ObjectAt(j) \in Nat
  BY ObjectInside
<1> HIDE DEF ObjectAt
<1> QED BY <1>2, <1>3, SlabAssumption DEF Objects!Bytes

\* The test of black_free accepts an address only if an object begins there.
LEMMA EntryOfObject ==
  ASSUME NEW addr \in Int, EntryOf(addr) < SLAB_ENTRIES
  PROVE  addr = ObjectAt(EntryOf(addr))
<1> USE SlabAssumption
<1> DEFINE a == addr - SLAB_BASE
<1>1. addr >= SLAB_BASE /\ a % OBJ_SIZE = 0 /\ EntryOf(addr) = a \div OBJ_SIZE
  BY DEF EntryOf
<1>2. a \in Nat
  BY <1>1
<1>3. a = OBJ_SIZE * (a \div OBJ_SIZE) + (a % OBJ_SIZE) /\ a \div OBJ_SIZE \in Nat
  <2> HIDE DEF a
  <2> QED BY <1>2
<1>4. a = (a \div OBJ_SIZE) * OBJ_SIZE
  <2> HIDE DEF a
  <2> QED BY <1>1, <1>2, <1>3
<1> QED BY <1>1, <1>4 DEF ObjectAt
-----------------------------------------------------------------------------
\* black_alloc grants an object nobody owns.
LEMMA AllocGets ==
  ASSUME IInv, SlabAlloc
  PROVE  IInv' /\ \E p \in DOMAIN slab_owned' : Objects!Get(p, OBJ_SIZE)
<1> USE SlabAssumption
<1>1. PICK i \in Entries \ slab_bits :
        slab_bits' = slab_bits \cup {i} /\ slab_owned' = Granted(ObjectAt(i))
  BY DEF SlabAlloc
<1> DEFINE p == ObjectAt(i)
           D == {ObjectAt(j) : j \in slab_bits}
<1>2. /\ slab_bits \subseteq Entries /\ DOMAIN slab_owned = D
      /\ \A q \in D : slab_owned[q] = OBJ_SIZE
  BY DEF IInv
<1>3. \A j \in slab_bits : /\ ObjectAt(j) # p
                           /\ Objects!Bytes(p, OBJ_SIZE) \cap Objects!Bytes(ObjectAt(j), OBJ_SIZE) = {}
  BY <1>1, <1>2, ObjectsDisjoint
<1>4. p \notin D
  BY <1>3
<1>5. slab_owned' = [q \in D \cup {p} |-> IF q = p THEN OBJ_SIZE ELSE slab_owned[q]]
  <2> HIDE DEF p, D
  <2>1. slab_owned' = [q \in D \cup {p} |->
          (IF q \in D THEN slab_owned[q] ELSE 0) + (IF q = p THEN OBJ_SIZE ELSE 0)]
    BY <1>1, <1>2 DEF Granted, p
  <2>2. \A q \in D \cup {p} :
          (IF q \in D THEN slab_owned[q] ELSE 0) + (IF q = p THEN OBJ_SIZE ELSE 0)
          = IF q = p THEN OBJ_SIZE ELSE slab_owned[q]
    BY <1>2, <1>4
  <2> QED BY <2>1, <2>2
<1>6. slab_owned' = [q \in D \cup {p} |-> OBJ_SIZE]
  <2> HIDE DEF p, D
  <2> QED BY <1>2, <1>5
<1>7. IInv'
  <2>1. {ObjectAt(j) : j \in slab_bits'} = D \cup {p}
    BY <1>1
  <2>2. slab_bits' \subseteq Entries
    BY <1>1, <1>2
  <2> HIDE DEF p, D
  <2> QED BY <1>6, <2>1, <2>2 DEF IInv
<1>8. Objects!Bytes(p, OBJ_SIZE) \cap Objects!Taken = {}
  BY <1>2, <1>3 DEF Objects!Taken
<1>9. Objects!Bytes(p, OBJ_SIZE) \subseteq SLAB_BASE .. ObjectAt(SLAB_ENTRIES) - 1
  <2>1. /\ p \in Nat /\ p >= SLAB_BASE /\ ObjectAt(SLAB_ENTRIES) \in Nat
        /\ p + OBJ_SIZE <= ObjectAt(SLAB_ENTRIES)
    BY <1>1, ObjectInside
  <2> HIDE DEF p
  <2> QED BY <2>1 DEF Objects!Bytes
<1>10. Objects!Get(p, OBJ_SIZE)
  <2> HIDE DEF p, D
  <2> QED BY <1>2, <1>4, <1>5, <1>8, <1>9 DEF Objects!Get
<1>11. p \in DOMAIN slab_owned'
  <2> HIDE DEF p, D
  <2> QED BY <1>5
<1> QED BY <1>7, <1>10, <1>11

\* black_free, when it accepts an address, takes one object from its owner.
LEMMA FreeGives ==
  ASSUME IInv, NEW addr \in Int, SlabFree(addr)
  PROVE  IInv' /\ addr \in DOMAIN slab_owned /\ Objects!Give(addr)
<1> DEFINE i == EntryOf(addr)
           D == {ObjectAt(j) : j \in slab_bits}
<1>1. /\ i < SLAB_ENTRIES /\ i \in slab_bits /\ slab_bits' = slab_bits \ {i}
      /\ slab_owned' = [p \in DOMAIN slab_owned \ {addr} |-> slab_owned[p]]
  BY DEF SlabFree
<1>2. addr = ObjectAt(i)
  BY <1>1, EntryOfObject
<1>3. /\ slab_bits \subseteq Entries /\ DOMAIN slab_owned = D
      /\ \A q \in D : slab_owned[q] = OBJ_SIZE
  BY DEF IInv
<1> HIDE DEF i
<1>4. addr \in D
  BY <1>1, <1>2
<1>5. {ObjectAt(j) : j \in slab_bits'} = D \ {addr}
  <2>1. \A j \in slab_bits : j # i => ObjectAt(j) # addr
    BY <1>1, <1>2, <1>3, ObjectsDisjoint
  <2> QED BY <1>1, <1>2, <2>1
<1>6. slab_owned' = [p \in D \ {addr} |-> OBJ_SIZE]
  <2> HIDE DEF D
  <2> QED BY <1>1, <1>3
<1>7. IInv'
  <2>1. slab_bits' \subseteq Entries
    BY <1>1, <1>3
  <2> HIDE DEF D
  <2> QED BY <1>5, <1>6, <2>1 DEF IInv
<1>8. addr \in DOMAIN slab_owned
  BY <1>3, <1>4
<1> QED BY <1>1, <1>7, <1>8 DEF Objects!Give, Objects!Without

\* Whatever addresses black_free is called with, no byte of the slab is
\* given out while somebody owns it, and nobody loses an object but by a
\* black_free of its own address.
THEOREM SlabIsAllocator == SlabSpec => SlabImplementsAllocator
<1>1. SlabInit => IInv /\ Objects!Init
  BY DEF SlabInit, IInv, Objects!Init
<1>2. ASSUME IInv, [SlabNext]_slabvars PROVE IInv' /\ [Objects!Next]_slab_owned
  <2>1. CASE SlabAlloc
    BY <1>2, <2>1, AllocGets DEF Objects!Next
  <2>2. CASE \E addr \in SLAB_BASE - 1 .. ObjectAt(SLAB_ENTRIES) : SlabFree(addr)
    <3>1. PICK addr \in SLAB_BASE - 1 .. ObjectAt(SLAB_ENTRIES) : SlabFree(addr)
      BY <2>2
    <3>2. addr \in Int
      BY <3>1, SlabAssumption DEF ObjectAt
    <3>3. IInv' /\ addr \in DOMAIN slab_owned /\ Objects!Give(addr)
      BY <1>2, <3>1, <3>2, FreeGives
    <3> QED BY <3>3 DEF Objects!Next
  <2>3. CASE UNCHANGED slabvars
    BY <1>2, <2>3 DEF slabvars, IInv
  <2> QED BY <1>2, <2>1, <2>2, <2>3 DEF SlabNext
<1> QED BY <1>1, <1>2, PTL DEF SlabSpec, SlabImplementsAllocator, Objects!Spec
=============================================================================
