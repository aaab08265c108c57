--------------------------------- MODULE Shm ---------------------------------
(***************************************************************************)
(* The shared memory segments of kernel/ipc/ipc.c.  The functions take no  *)
(* lock; no interrupt handler calls them, so on the one CPU a call runs to *)
(* its end.  A process detaches what it created or attached, once.         *)
(***************************************************************************)
EXTENDS Integers, FiniteSets

CONSTANTS
  ShmProcs,
  MAX_SHM,      \* BLACK_MAX_SHM
  Addresses     \* where kcalloc can place a segment; 0 is NULL

ShmSlots == 0 .. MAX_SHM - 1

VARIABLES
  addr,        \* black_addr of each slot
  ref_count,   \* black_ref_count
  active,      \* the slots with black_active
  allocated,   \* the addresses that are allocated
  attached     \* what each process uses: pairs of slot and address

shm == <<addr, ref_count, active, allocated, attached>>

ShmInit ==
  /\ addr = [s \in ShmSlots |-> 0]
  /\ ref_count = [s \in ShmSlots |-> 0]
  /\ active = {}
  /\ allocated = {}
  /\ attached = [p \in ShmProcs |-> {}]

\* black_shm_create takes the first inactive slot, if it gets memory.
ShmCreate(p, s, a) ==
  /\ s \notin active /\ \A r \in 0 .. s - 1 : r \in active
  /\ a \notin allocated
  /\ addr' = [addr EXCEPT ![s] = a]
  /\ ref_count' = [ref_count EXCEPT ![s] = 1]
  /\ active' = active \cup {s}
  /\ allocated' = allocated \cup {a}
  /\ attached' = [attached EXCEPT ![p] = @ \cup {<<s, a>>}]

ShmAttachUncounted(p, s) ==
  /\ s \in active /\ \A a \in Addresses : <<s, a>> \notin attached[p]
  /\ attached' = [attached EXCEPT ![p] = @ \cup {<<s, addr[s]>>}]
  /\ UNCHANGED <<addr, ref_count, active, allocated>>
ShmAttach(p, s) ==
  /\ s \in active /\ \A a \in Addresses : <<s, a>> \notin attached[p]
  /\ ref_count' = [ref_count EXCEPT ![s] = @ + 1]
  /\ attached' = [attached EXCEPT ![p] = @ \cup {<<s, addr[s]>>}]
  /\ UNCHANGED <<addr, active, allocated>>

\* The last detach frees the memory and the slot.
ShmDetach(p, s, a) ==
  LET last == ref_count[s] <= 1
  IN /\ <<s, a>> \in attached[p] /\ s \in active
     /\ ref_count' = [ref_count EXCEPT ![s] = @ - 1]
     /\ allocated' = IF last THEN allocated \ {addr[s]} ELSE allocated
     /\ active' = IF last THEN active \ {s} ELSE active
     /\ attached' = [attached EXCEPT ![p] = @ \ {<<s, a>>}]
     /\ UNCHANGED addr

ShmNext ==
  \E p \in ShmProcs, s \in ShmSlots :
    \/ ShmAttach(p, s)
    \/ \E a \in Addresses : ShmCreate(p, s, a) \/ ShmDetach(p, s, a)
-----------------------------------------------------------------------------
\* Counts between zero and the number of processes.
ShmTypeOK ==
  /\ addr \in [ShmSlots -> Addresses \cup {0}]
  /\ ref_count \in [ShmSlots -> 0 .. Cardinality(ShmProcs)]
  /\ active \subseteq ShmSlots /\ allocated \subseteq Addresses
  /\ attached \in [ShmProcs -> SUBSET (ShmSlots \X Addresses)]

\* Nobody's memory is freed or handed to another segment under them: what a
\* process attached is still allocated and still the segment of its slot,
\* after any creates, attaches and detaches of others.  And memory is given
\* back: what is allocated is the memory of an active slot, each of another
\* one, with a process that uses it.
SegmentsLiveWhileUsed ==
  /\ \A p \in ShmProcs : \A sa \in attached[p] :
       /\ sa[1] \in active /\ addr[sa[1]] = sa[2]
       /\ sa[2] \in allocated
  /\ \A a \in allocated : \E s \in active : addr[s] = a
  /\ \A s \in active : \E p \in ShmProcs : <<s, addr[s]>> \in attached[p]
  /\ Cardinality(allocated) = Cardinality(active)
=============================================================================
