--------------------------------- MODULE Pmm --------------------------------
(***************************************************************************)
(* The physical frame allocator of kernel/mm/pmm.c: a bitmap of MAX_FRAMES *)
(* bits (1 = used), the number of frames of the memory map and a count of  *)
(* used frames.  Addresses are frame numbers; 0 is the failure value.      *)
(* Callers give back only what they were given.                            *)
(***************************************************************************)
EXTENDS Integers, FiniteSets, FiniteSetTheorems, TLAPS

CONSTANTS
  MAX_FRAMES,   \* BLACK_MAX_FRAMES
  WORD,         \* bits in a word of the bitmap
  KERNEL_END,   \* the first frame after the kernel image
  MAX_COUNT     \* bound: frames asked for at once

Frames == 0 .. MAX_FRAMES - 1

VARIABLES
  bitmap,   \* the set of frames whose bit is 1
  total,    \* black_pmm_total_frames
  used,     \* black_pmm_used_frames
  memory,   \* the frames the boot loader's memory map calls available
  owned     \* what the callers own: first frame -> number of frames

vars == <<bitmap, total, used, memory, owned>>

Run(f, n) == f .. f + n - 1

\* black_pmm_init on a memory map: every bit is set, those of available
\* frames but frame 0 are cleared, those of the kernel image are set again.
\* total counts the memory, wherever it is; used counts the bits of the whole
\* words below total.
InitFromMap ==
  /\ memory \in SUBSET Frames
  /\ bitmap = (Frames \ (memory \ {0})) \cup 0 .. KERNEL_END - 1
  /\ total = Cardinality(memory)
  /\ used = Cardinality(bitmap \cap 0 .. (total \div WORD) * WORD - 1)

\* Without a map, memory is one piece from 0, of at most MAX_FRAMES.
InitFromSize ==
  /\ total \in KERNEL_END .. MAX_FRAMES
  /\ memory = 0 .. total - 1
  /\ bitmap = Frames \ KERNEL_END .. total - 1
  /\ used = KERNEL_END

Init == (InitFromMap \/ InitFromSize) /\ owned = [f \in {} |-> 0]

\* black_pmm_find_free: the first clear bit of the whole bitmap.
IsFirstFree(f) == f \in Frames \ bitmap /\ \A g \in Frames \ bitmap : f <= g

IsRun(f, n) == f + n <= total /\ Run(f, n) \cap bitmap = {}
IsFirstRun(f, n) == IsRun(f, n) /\ \A g \in 0 .. f - 1 : ~IsRun(g, n)

Grant(f, n) == [g \in DOMAIN owned \cup {f} |-> IF g = f THEN n ELSE owned[g]]
Drop(f) == [g \in DOMAIN owned \ {f} |-> owned[g]]

\* Without a frame, or a run, the two allocators return 0 and change nothing.
AllocFails(n) ==
  /\ \/ n = 1 /\ Frames \subseteq bitmap
     \/ \A f \in Frames : ~IsRun(f, n)
  /\ UNCHANGED <<bitmap, total, used, memory, owned>>

AllocFrame ==
  \E f \in Frames :
    /\ IsFirstFree(f)
    /\ bitmap' = bitmap \cup {f}
    /\ used' = used + 1
    /\ owned' = Grant(f, 1)
    /\ UNCHANGED <<total, memory>>

AllocFrames(n) ==
  \E f \in Frames :
    /\ IsFirstRun(f, n)
    /\ bitmap' = bitmap \cup Run(f, n)
    /\ used' = used + n
    /\ owned' = Grant(f, n)
    /\ UNCHANGED <<total, memory>>

\* black_pmm_free_frame checks the bit, black_pmm_free_frames does not.
FreeFrame(f) ==
  /\ f \in DOMAIN owned /\ owned[f] = 1
  /\ bitmap' = bitmap \ {f}
  /\ used' = IF f \in bitmap THEN used - 1 ELSE used
  /\ owned' = Drop(f)
  /\ UNCHANGED <<total, memory>>

FreeFrames(f) ==
  /\ f \in DOMAIN owned
  /\ bitmap' = bitmap \ Run(f, owned[f])
  /\ used' = used - owned[f]
  /\ owned' = Drop(f)
  /\ UNCHANGED <<total, memory>>

Next ==
  \/ AllocFrame
  \/ \E n \in 1 .. MAX_COUNT : AllocFrames(n) \/ AllocFails(n)
  \/ \E f \in DOMAIN owned : FreeFrame(f) \/ FreeFrames(f)

Spec == Init /\ [][Next]_vars
-----------------------------------------------------------------------------
\* Sets of frames and counts of them; used never goes below zero.
TypeOK ==
  /\ bitmap \subseteq Frames /\ memory \subseteq Frames
  /\ total \in 0 .. MAX_FRAMES
  /\ used \in 0 .. 2 * MAX_FRAMES
  /\ DOMAIN owned \subseteq Frames
  /\ \A f \in DOMAIN owned : owned[f] \in 1 .. MAX_FRAMES

OwnedFrames == UNION {Run(f, owned[f]) : f \in DOMAIN owned}

\* What is handed out is memory: frames of the memory map outside the kernel
\* image, never frame 0 (whose address means failure), each marked used; and
\* a frame that is neither owned nor marked at boot is free for the next
\* caller, so none leaks.  No frame has two owners.
BitmapIsOwnership ==
  /\ OwnedFrames \subseteq memory \ (0 .. KERNEL_END - 1)
  /\ Frames \ bitmap = (memory \ (0 .. KERNEL_END - 1)) \ OwnedFrames
  /\ \A f, g \in DOMAIN owned : f # g => Run(f, owned[f]) \cap Run(g, owned[g]) = {}
-----------------------------------------------------------------------------
(***************************************************************************)
(* Frames have one owner, for every size of the memory, every memory map   *)
(* and every end of the kernel image: proofs about Pmm.                    *)
(***************************************************************************)

\* The kernel image is not empty: it is what keeps frame 0 from being given
\* out, whose address means failure.
Sized == MAX_FRAMES \in Nat /\ KERNEL_END \in Nat \ {0} /\ MAX_COUNT \in Nat

\* The inductive invariant: the promise, with the types of the allocations
\* and the bound of total that keeps a run inside the bitmap.
IInv ==
  /\ memory \subseteq Frames
  /\ total \in 0 .. MAX_FRAMES
  /\ owned \in [DOMAIN owned -> Nat \ {0}] /\ DOMAIN owned \subseteq Nat
  /\ BitmapIsOwnership
-----------------------------------------------------------------------------
\* A run of frames that are free becomes the caller's.
LEMMA GrantPreserves ==
  ASSUME Sized, IInv, NEW f \in Frames, NEW n \in Nat \ {0},
         Run(f, n) \subseteq Frames \ bitmap,
         bitmap' = bitmap \cup Run(f, n), owned' = Grant(f, n),
         UNCHANGED <<total, memory>>
  PROVE  IInv'
<1>1. f \in Nat /\ f \in Run(f, n)
  BY DEF Sized, Frames, Run
<1>2. Run(f, n) \cap OwnedFrames = {} /\ Run(f, n) \subseteq memory \ (0 .. KERNEL_END - 1)
  BY DEF IInv, BitmapIsOwnership
<1>3. \A g \in DOMAIN owned : Run(g, owned[g]) \subseteq OwnedFrames /\ g \in Run(g, owned[g])
  BY DEF IInv, OwnedFrames, Run
<1>4. f \notin DOMAIN owned
  BY <1>1, <1>2, <1>3
<1>5. /\ DOMAIN owned' = DOMAIN owned \cup {f} /\ owned'[f] = n
      /\ \A g \in DOMAIN owned : owned'[g] = owned[g]
  BY <1>4 DEF Grant
<1>6. OwnedFrames' = OwnedFrames \cup Run(f, n)
  BY <1>5 DEF OwnedFrames
<1>7. owned' \in [DOMAIN owned' -> Nat \ {0}] /\ DOMAIN owned' \subseteq Nat
  BY <1>1, <1>4, <1>5 DEF IInv, Grant
<1>8. \A g, h \in DOMAIN owned' : g # h => Run(g, owned'[g]) \cap Run(h, owned'[h]) = {}
  BY <1>2, <1>3, <1>5 DEF IInv, BitmapIsOwnership
<1>9. OwnedFrames' \subseteq memory \ (0 .. KERNEL_END - 1)
  BY <1>2, <1>6 DEF IInv, BitmapIsOwnership
<1>10. Frames \ bitmap' = (memory \ (0 .. KERNEL_END - 1)) \ OwnedFrames'
  BY <1>6 DEF IInv, BitmapIsOwnership
<1> QED BY <1>7, <1>8, <1>9, <1>10 DEF IInv, BitmapIsOwnership

\* A run that is given back is free again, and no other run is.
LEMMA DropPreserves ==
  ASSUME Sized, IInv, NEW f \in DOMAIN owned,
         bitmap' = bitmap \ Run(f, owned[f]), owned' = Drop(f),
         UNCHANGED <<total, memory>>
  PROVE  IInv'
<1> DEFINE r == Run(f, owned[f])
<1>1. /\ DOMAIN owned' = DOMAIN owned \ {f}
      /\ \A g \in DOMAIN owned' : owned'[g] = owned[g]
  BY DEF Drop
<1>2. r \subseteq OwnedFrames
  BY DEF OwnedFrames
<1>3. \A g \in DOMAIN owned' : Run(g, owned[g]) \cap r = {}
  BY <1>1 DEF IInv, BitmapIsOwnership
<1>4. OwnedFrames' = OwnedFrames \ r
  BY <1>1, <1>3 DEF OwnedFrames
<1>5. owned' \in [DOMAIN owned' -> Nat \ {0}] /\ DOMAIN owned' \subseteq Nat
  BY <1>1 DEF IInv, Drop
<1>6. \A g, h \in DOMAIN owned' : g # h => Run(g, owned'[g]) \cap Run(h, owned'[h]) = {}
  BY <1>1 DEF IInv, BitmapIsOwnership
<1>7. OwnedFrames' \subseteq memory \ (0 .. KERNEL_END - 1)
  BY <1>4 DEF IInv, BitmapIsOwnership
<1>8. r \subseteq Frames
  BY <1>2 DEF IInv, BitmapIsOwnership
<1> HIDE DEF r
<1>9. Frames \ bitmap' = (memory \ (0 .. KERNEL_END - 1)) \ OwnedFrames'
  BY <1>2, <1>4, <1>8 DEF IInv, BitmapIsOwnership, r
<1> QED BY <1>5, <1>6, <1>7, <1>9 DEF IInv, BitmapIsOwnership

\* Every call keeps the owners apart.
LEMMA NextPreserves ==
  ASSUME Sized, IInv, [Next]_vars PROVE IInv'
<1>1. CASE AllocFrame
  <2>1. PICK f \in Frames : /\ f \notin bitmap /\ bitmap' = bitmap \cup {f}
                            /\ owned' = Grant(f, 1) /\ UNCHANGED <<total, memory>>
    BY <1>1 DEF AllocFrame, IsFirstFree
  <2>2. Run(f, 1) = {f}
    BY <2>1 DEF Run, Frames, Sized
  <2> QED BY <2>1, <2>2, GrantPreserves
<1>2. CASE \E n \in 1 .. MAX_COUNT : AllocFrames(n)
  <2>1. PICK n \in 1 .. MAX_COUNT, f \in Frames :
          /\ f + n <= total /\ Run(f, n) \cap bitmap = {}
          /\ bitmap' = bitmap \cup Run(f, n)
          /\ owned' = Grant(f, n) /\ UNCHANGED <<total, memory>>
    BY <1>2 DEF AllocFrames, IsFirstRun, IsRun
  <2>2. Run(f, n) \subseteq Frames /\ n \in Nat \ {0}
    BY <2>1 DEF Run, Frames, IInv, Sized
  <2> QED BY <2>1, <2>2, GrantPreserves
<1>3. CASE \E f \in DOMAIN owned : FreeFrame(f)
  <2>1. PICK f \in DOMAIN owned : FreeFrame(f)
    BY <1>3
  <2>2. Run(f, owned[f]) = {f}
    BY <2>1 DEF FreeFrame, Run, IInv
  <2> QED BY <2>1, <2>2, DropPreserves DEF FreeFrame
<1>4. CASE \E f \in DOMAIN owned : FreeFrames(f)
  BY <1>4, DropPreserves DEF FreeFrames
<1>5. CASE UNCHANGED vars
  BY <1>5 DEF vars, IInv, BitmapIsOwnership, OwnedFrames
<1> QED BY <1>1, <1>2, <1>3, <1>4, <1>5 DEF Next, AllocFails, vars

\* black_pmm_init establishes it from any memory map, and without one.
LEMMA InitEstablishes ==
  ASSUME Sized, Init PROVE IInv
<1>1. OwnedFrames = {} /\ DOMAIN owned = {}
  BY DEF Init, OwnedFrames
<1>2. owned \in [DOMAIN owned -> Nat \ {0}]
  BY <1>1 DEF Init
<1>3. CASE InitFromMap
  <2>1. memory \subseteq Frames /\ total = Cardinality(memory)
    BY <1>3 DEF InitFromMap
  <2>2. IsFiniteSet(Frames) /\ Cardinality(Frames) = MAX_FRAMES
    <3>1. 0 \in Int /\ MAX_FRAMES - 1 \in Int
      BY DEF Sized
    <3> QED BY <3>1, FS_Interval DEF Frames, Sized
  <2>3. total \in 0 .. MAX_FRAMES
    BY <2>1, <2>2, FS_Subset, FS_CardinalityType DEF Sized
  <2>4. 0 \in 0 .. KERNEL_END - 1
    BY DEF Sized
  <2>5. Frames \ bitmap = memory \ (0 .. KERNEL_END - 1)
    BY <1>3, <2>1, <2>4 DEF InitFromMap
  <2> QED BY <1>1, <1>2, <2>1, <2>3, <2>5 DEF IInv, BitmapIsOwnership
<1>4. CASE InitFromSize
  <2>1. total \in 0 .. MAX_FRAMES /\ memory = 0 .. total - 1 /\ memory \subseteq Frames
    BY <1>4 DEF InitFromSize, Sized, Frames
  <2>2. Frames \ bitmap = memory \ (0 .. KERNEL_END - 1)
    BY <1>4, <2>1 DEF InitFromSize, Sized, Frames
  <2> QED BY <1>1, <1>2, <2>1, <2>2 DEF IInv, BitmapIsOwnership
<1> QED BY <1>3, <1>4 DEF Init

\* Whatever the memory map, the frame allocator hands out memory outside the
\* kernel image, never frame 0, each frame to one owner; and what is given
\* back is handed out again.
THEOREM FramesHaveOneOwner ==
  ASSUME Sized PROVE Spec => []BitmapIsOwnership
<1>1. Init => IInv
  BY InitEstablishes
<1>2. IInv /\ [Next]_vars => IInv'
  BY NextPreserves
<1>3. IInv => BitmapIsOwnership
  BY DEF IInv
<1> QED BY <1>1, <1>2, <1>3, PTL DEF Spec
=============================================================================
