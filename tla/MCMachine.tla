------------------------------ MODULE MCMachine -----------------------------
(***************************************************************************)
(* The kernel's lowest layer for TLC: the memory managers of kernel/mm,    *)
(* the start-up with its interrupts, the switching of stacks, the tables   *)
(* of the firmware, the disk, the clock chip and the bus.  A behaviour     *)
(* exercises the one that part names; they share no state.                 *)
(***************************************************************************)
EXTENDS Heap, Boot, SequencesExt

CONSTANTS
  MAX_FRAMES, WORD, KERNEL_END, MAX_COUNT, VM_FRAMES, TABLES,
  Threads, Vals, Vectors,
  PAGE, SDT_HDR, MADT_HDR, LIMIT, LowPages, HeapPages, ACPI_MAX_CPUS, Firmwares,
  Units, Sectors, Counts, SectorData,
  FIELDS, PERIODS, NOTICE, DateInputs,
  SLOTS, FUNCS, PCI_MAX_DEVICES

VARIABLES
  part,     \* what is exercised
  pm_bitmap, pm_total, pm_used, pm_memory, pm_owned,
  vm_bitmap, vm_total, vm_used, vm_memory, vm_owned, vm_pd, vm_pd_user, vm_pt,
  regs, sp, running, saved, inside, expected,
  fw, apc, mapped, touched, index, offset, cpus, ioapic,
  kinds, devices, asked, chan, disk, call, written, answer, excused,
  clock, announced, field, got, shown, held, date,
  bus

pm == <<pm_bitmap, pm_total, pm_used, pm_memory, pm_owned>>
vm == <<vm_bitmap, vm_total, vm_used, vm_memory, vm_owned, vm_pd, vm_pd_user, vm_pt>>
cx == <<regs, sp, running, saved, inside, expected>>
ac == <<fw, apc, mapped, touched, index, offset, cpus, ioapic>>
dk == <<kinds, devices, asked, chan, disk, call, written, answer, excused>>
rt == <<clock, announced, field, got, shown, held>>

Pm == INSTANCE Pmm WITH
        bitmap <- pm_bitmap, total <- pm_total, used <- pm_used,
        memory <- pm_memory, owned <- pm_owned
Vm == INSTANCE Vmm WITH
        MAX_FRAMES <- VM_FRAMES, MAX_COUNT <- 1,
        bitmap <- vm_bitmap, total <- vm_total, used <- vm_used,
        memory <- vm_memory, owned <- vm_owned,
        pd <- vm_pd, pd_user <- vm_pd_user, pt <- vm_pt
Cx == INSTANCE Context
Ac == INSTANCE Acpi WITH HDR <- SDT_HDR
Dk == INSTANCE Ata
Bc == INSTANCE BusAndClock
-----------------------------------------------------------------------------
\* The firmware's tables: a controller table of every kind of entry, intact
\* or not, in the middle of a page or right below the heap's pages, and
\* another table, within reach or not.
MCEntries ==
  LET Cpu(i) == [type |-> 0, len |-> 2, enabled |-> TRUE, id |-> i]
      Off == [type |-> 0, len |-> 2, enabled |-> FALSE, id |-> 9]
      Io(i) == [type |-> 1, len |-> 3, enabled |-> TRUE, id |-> i]
      Skip(n) == [type |-> 2, len |-> n, enabled |-> TRUE, id |-> 9]
  IN {<<Cpu(1), Off, Io(5), Cpu(2)>>, <<Io(6), Cpu(3), Io(7)>>,
      <<Skip(2), Cpu(4)>>, <<Skip(0)>>}
Bytes(es) == FoldLeft(LAMBDA n, e : n + (IF e.len = 0 THEN 2 ELSE e.len), MADT_HDR, es)
Apic(a, es, ok) ==
  [addr |-> a, len |-> Bytes(es), signature |-> "APIC", sum |-> ok,
   entries |-> [o \in {Bytes(SubSeq(es, 1, k - 1)) : k \in DOMAIN es} |->
                  es[CHOOSE k \in DOMAIN es : Bytes(SubSeq(es, 1, k - 1)) = o]]]
Other(a) == [addr |-> a, len |-> 3, signature |-> "FACP", sum |-> TRUE, entries |-> << >>]
MCTables ==
  {Other(12), Other(99)} \cup {Apic(13, es, TRUE) : es \in MCEntries}
  \cup {Apic(32 - Bytes(es), es, ok) : es \in MCEntries, ok \in BOOLEAN}
Pointer(sig, ok) == <<[signature |-> sig, sum |-> ok]>>
MCPointers == {<< >>, Pointer(TRUE, FALSE), Pointer(FALSE, FALSE) \o Pointer(TRUE, TRUE)}
Firmware(e, b, a, ok, t) ==
  [ebda |-> e, bios |-> b,
   rsdt |-> [addr |-> a, len |-> SDT_HDR + Len(t), sum |-> ok, tables |-> t]]
MCFirmwares ==
  {Firmware(e, b, 8, TRUE, t) : e \in MCPointers, b \in MCPointers,
                                t \in UNION {[1 .. n -> MCTables] : n \in 0 .. 2}}
  \cup {Firmware(<< >>, Pointer(TRUE, TRUE), a, ok, << >>) : a \in {8, 99}, ok \in BOOLEAN}
NoFirmware == Firmware(<< >>, << >>, 8, TRUE, << >>)

MCDates == [year : {2000, 2001, 2003, 2004, 2099}, month : 1 .. 12, day : 1 .. 31]
-----------------------------------------------------------------------------
Parts == {"heap", "pmm", "vmm", "boot", "context", "acpi", "ata", "clock", "date", "pci"}

\* Only the part that is exercised starts from every memory map, firmware
\* or set of drives.
MachineInit ==
  /\ part \in Parts
  /\ Init
  /\ Pm!Init /\ (part # "pmm" => pm_memory = 0 .. MAX_FRAMES - 1 /\ pm_used = KERNEL_END)
  /\ Vm!VmInit /\ (part # "vmm" => vm_memory = 0 .. VM_FRAMES - 1 /\ vm_used = KERNEL_END)
  /\ BootInit /\ (part # "boot" => magic)
  /\ Cx!ContextInit
  /\ Ac!AcpiInit /\ (part # "acpi" => fw = NoFirmware)
  /\ Dk!AtaInit /\ (part # "ata" => kinds = [u \in Units |-> "none"])
  /\ Bc!RtcInit /\ date = Bc!NoDate
  /\ Bc!PciInit

\* The parts that come to an end: an answer, or a disk that nobody trusts.
Over ==
  \/ part \in {"acpi", "date", "pci"}
  \/ part = "ata" /\ (excused \/ devices = << >>)

MachineNext ==
  /\ part' = part
  /\ IF part = "heap" THEN Next ELSE UNCHANGED vars
  /\ IF part = "pmm" THEN Pm!Next ELSE UNCHANGED pm
  /\ IF part = "vmm" THEN Vm!VmNext ELSE UNCHANGED vm
  /\ IF part = "boot" THEN BootNext ELSE UNCHANGED bootvars
  /\ IF part = "context" THEN Cx!ContextNext ELSE UNCHANGED cx
  /\ IF part = "acpi" THEN Ac!AcpiNext ELSE UNCHANGED ac
  /\ IF part = "ata" THEN Dk!AtaNext ELSE UNCHANGED dk
  /\ IF part = "clock" THEN Bc!RtcNext ELSE UNCHANGED rt
  /\ IF part = "date" THEN Bc!DateGiven ELSE UNCHANGED date
  /\ IF part = "pci" THEN Bc!BusGiven ELSE UNCHANGED bus

Everything ==
  <<part, vars, pm, vm, bootvars, cx, ac, dk, rt, date, bus>>

MachineSpec ==
  /\ MachineInit /\ [][MachineNext \/ (Over /\ UNCHANGED Everything)]_Everything
  /\ SF_bootvars(part = "boot" /\ MainStep) /\ WF_bootvars(part = "boot" /\ IrqDone)
  /\ WF_bootvars(part = "boot" /\ ClockRaises) /\ SF_bootvars(part = "boot" /\ ClockTaken)
  /\ WF_ac(part = "acpi" /\ Ac!AcpiStep)
-----------------------------------------------------------------------------
\* Heap: the blocks tile the arena in order, and what is in use is exactly
\* what callers own.
HeapConsistent == TypeOK /\ ListTilesHeap /\ UsedAreOwned

\* Frames and page tables: what is handed out is memory with one owner and
\* one use, nothing leaks, and user pages can be reached.
PagesConsistent ==
  /\ Pm!TypeOK /\ Pm!BitmapIsOwnership
  /\ Vm!VmTypeOK /\ Vm!TablesConsistent

\* Page tables: a step changes one page and keeps the tables.
PagesOthersUndisturbed == Vm!OtherPagesUndisturbed

\* A task that goes on after others have run or after interrupts finds the
\* registers it counts on.
RegistersKept == Cx!RegistersKept

\* The processors and the devices that the kernel lists are those the
\* firmware means and those on the bus, and it reads only what is mapped.
HardwareFound ==
  /\ part = "acpi" => Ac!AcpiSound
  /\ part = "pci" => Bc!BusListed

\* The machine gets ready: the start-up reaches the desktop, and the walk
\* through the firmware's tables ends.
MachineGetsReady ==
  /\ part = "boot" => BootCompletes
  /\ part = "acpi" => Ac!AcpiEnds

\* A disk read returns what was last written there.
DiskKeepsData == Dk!DiskKeepsData

\* A time that is read is one the chip has shown, and the days since 1970
\* follow the calendar.
ClockTrue == Bc!TimeIsWhole /\ Bc!DaysFollowCalendar
=============================================================================
