--------------------------------- MODULE Vmm ---------------------------------
(***************************************************************************)
(* The page tables of kernel/mm/vmm.c over the frame allocator, with their *)
(* two users that take frames: black_mmap of kernel/mm/mmap.c and the      *)
(* loader of kernel/elf/elf_loader.c.  A table is reached through the      *)
(* recursive slot of the directory and is modelled by its entries.         *)
(*                                                                         *)
(* No code raises black_cow_refcount, so black_vmm_handle_page_fault never *)
(* reaches its copying branch: a copy-on-write page just becomes writable. *)
(***************************************************************************)
EXTENDS Pmm

CONSTANTS
  TABLES,    \* entries of the directory, without the recursive one
  ENTRIES    \* entries of a table

NONE == -1
Tables == 0 .. TABLES - 1
Pages == 0 .. TABLES * ENTRIES - 1
TableOf(v) == v \div ENTRIES
Absent == [phys |-> NONE, flags |-> {}]

VARIABLES
  pd,        \* the frame of each present table, or NONE
  pd_user,   \* the tables whose directory entry has PAGE_USER
  pt         \* each page's entry: frame and flags, or Absent


VmInit ==
  /\ Init
  /\ pd = [t \in Tables |-> NONE]
  /\ pd_user = {}
  /\ pt = [v \in Pages |-> Absent]

IsMapped(v) == pd[TableOf(v)] # NONE /\ pt[v] # Absent
GetPhysical(v) == IF IsMapped(v) THEN pt[v].phys ELSE 0

\* What black_pmm_alloc_frame returns when the frames in S are used.
NextFrame(S) ==
  IF Frames \subseteq S THEN 0
  ELSE CHOOSE f \in Frames \ S : \A g \in Frames \ S : f <= g

\* black_vmm_map_page of page v to frame f, by a caller that has just taken
\* the frames in taken.  A missing table needs a frame of its own and starts
\* out empty; without one the call returns and maps nothing.
MapPageClears(v, f, flags, taken) ==
  LET t == TableOf(v)
      g == NextFrame(bitmap \cup taken)
      own == IF g # 0 THEN taken \cup {g} ELSE taken
  IN /\ bitmap' = bitmap \cup own
     /\ used' = used + Cardinality(own)
     /\ pd' = [pd EXCEPT ![t] = g]
     /\ pd_user' = pd_user \cup {u \in {t} : "USER" \in flags}
     /\ pt' = [w \in Pages |-> IF w = v THEN [phys |-> f, flags |-> flags]
                               ELSE IF TableOf(w) = t THEN Absent ELSE pt[w]]
     /\ UNCHANGED <<total, memory, owned>>
MapPage(v, f, flags, taken) ==
  LET t == TableOf(v)
      g == NextFrame(bitmap \cup taken)
      new == pd[t] = NONE
      own == IF new /\ g # 0 THEN taken \cup {g} ELSE taken
  IN /\ bitmap' = bitmap \cup own
     /\ used' = used + Cardinality(own)
     /\ \/ new /\ g = 0 /\ UNCHANGED <<pd, pd_user, pt>>
        \/ /\ ~(new /\ g = 0)
           /\ pd' = [pd EXCEPT ![t] = IF new THEN g ELSE @]
           /\ pd_user' = pd_user \cup {u \in {t} : "USER" \in flags}
           /\ pt' = [pt EXCEPT ![v] = [phys |-> f, flags |-> flags]]
     /\ UNCHANGED <<total, memory, owned>>

\* One page of black_mmap: a failed allocation is not noticed, and maps
\* frame 0.
MmapPageKeepsFrame(v, flags) ==
  LET f == NextFrame(bitmap) IN MapPage(v, f, flags \cup {"WRITE"}, {})
MmapPage(v, flags) ==
  LET f == NextFrame(bitmap)
  IN MapPage(v, f, flags \cup {"WRITE"}, IF f = 0 THEN {} ELSE {f})

\* One page of a segment in black_elf_load, which gives up without a frame.
ElfLoadPage(v, flags) ==
  LET f == NextFrame(bitmap)
  IN f # 0 /\ MapPage(v, f, flags \cup {"USER"}, {f})

\* black_vmm_unmap_page, and black_munmap page by page: the frame stays
\* marked as used.
UnmapPage(v) ==
  /\ pd[TableOf(v)] # NONE
  /\ pt' = [pt EXCEPT ![v] = Absent]
  /\ UNCHANGED <<bitmap, total, used, memory, owned, pd, pd_user>>

\* A write to a copy-on-write page, in black_vmm_handle_page_fault.
PageFault(v) ==
  /\ IsMapped(v) /\ "COW" \in pt[v].flags
  /\ pt' = [pt EXCEPT ![v].flags = {"WRITE", "USER"}]
  /\ UNCHANGED <<bitmap, total, used, memory, owned, pd, pd_user>>

\* Copy-on-write pages are user pages.
Flags == {{}, {"USER"}, {"USER", "COW"}}

VmNext ==
  \/ \E v \in Pages :
       \/ UnmapPage(v) \/ PageFault(v)
       \/ \E flags \in Flags : MmapPage(v, flags)
       \/ \E flags \in {{}, {"WRITE"}} : ElfLoadPage(v, flags)
  \/ Next /\ UNCHANGED <<pd, pd_user, pt>>
-----------------------------------------------------------------------------
\* The frame allocator's types, and tables of entries.
VmTypeOK ==
  /\ TypeOK
  /\ pd \in [Tables -> Frames \cup {NONE}] /\ pd_user \subseteq Tables
  /\ pt \in [Pages -> {Absent} \cup
               [phys : Frames, flags : SUBSET {"WRITE", "USER", "COW"}]]

\* A frame has one use.  What a page is mapped to, unless that is frame 0,
\* is marked as used and belongs to no other page, to no page table and to
\* no other caller of the frame allocator; and so does a table's frame,
\* which is never frame 0.  And the CPU lets user code reach a page only if
\* the directory entry has PAGE_USER as well: each user page's table has it,
\* also when the table was made for a kernel page.
TablesConsistent ==
  /\ \A t \in Tables : pd[t] # NONE => pd[t] \in bitmap \ ({0} \cup OwnedFrames)
  /\ \A t, u \in Tables : pd[t] # NONE /\ pd[t] = pd[u] => t = u
  /\ \A v \in Pages : LET f == GetPhysical(v) IN f # 0 =>
       /\ f \in bitmap \ OwnedFrames
       /\ \A t \in Tables : pd[t] # f
       /\ \A w \in Pages : GetPhysical(w) = f => v = w
  /\ \A v \in Pages :
       IsMapped(v) /\ "USER" \in pt[v].flags => TableOf(v) \in pd_user

\* A step maps, unmaps or changes one page and leaves all others as they
\* are: no mapping is lost when a table is made, and a table stays.
OtherPagesUndisturbed ==
  [][/\ \A v, w \in Pages : pt'[v] # pt[v] /\ pt'[w] # pt[w] => v = w
     /\ \A t \in Tables : pd[t] # NONE => pd'[t] = pd[t]]_<<pd, pt>>
=============================================================================
