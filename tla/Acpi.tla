-------------------------------- MODULE Acpi --------------------------------
(***************************************************************************)
(* The search for processors in the firmware's tables, kernel/acpi/acpi.c: *)
(* the root pointer, the root table, and the interrupt controller tables   *)
(* entry by entry.  A table is read at its physical address plus           *)
(* KERNEL_VMA, once its pages are mapped there.                            *)
(***************************************************************************)
EXTENDS Integers, Sequences, SequencesExt, FiniteSets

CONSTANTS
  PAGE,        \* bytes in a page, 4096 in the code
  HDR,         \* sizeof(black_acpi_header_t)
  MADT_HDR,    \* sizeof(black_acpi_madt_t)
  LIMIT,       \* the pages that fit above KERNEL_VMA, 0x40000 in the code
  LowPages,    \* the pages that the boot code has mapped
  HeapPages,   \* the pages whose place above KERNEL_VMA belongs to the heap
  ACPI_MAX_CPUS,
  Firmwares    \* what the firmware may have left in memory

VARIABLES
  fw,         \* the firmware of this machine
  apc,        \* where black_acpi_init is
  mapped,     \* the pages black_acpi_ensure_mapped has mapped, and LowPages
  touched,    \* the pages that were read: not in the code
  index,      \* black_i of the loop over the root table
  offset,     \* black_ptr in the table that is parsed
  cpus,       \* black_acpi_cpus: the ids of the CPUs found
  ioapic      \* black_ioapic_id, or -1

acpi == <<fw, apc, mapped, touched, index, offset, cpus, ioapic>>

Pages(a, n) == {b \div PAGE : b \in a .. a + n - 1}

\* black_acpi_ensure_mapped
EnsureMappedOneMore(a, n) == a \div PAGE .. (a + n) \div PAGE
EnsureMapped(a, n) == a \div PAGE .. (a + n + PAGE - 1) \div PAGE - 1

\* black_acpi_find_rsdp: the candidates of the extended BIOS data area, then
\* those of the BIOS.
FindRsdp(f) == SelectInSeq(f.ebda \o f.bios, LAMBDA c : c.signature /\ c.sum)

AcpiInit ==
  /\ fw \in Firmwares
  /\ apc = "rsdp" /\ mapped = LowPages /\ touched = {}
  /\ index = 1 /\ offset = 0 /\ cpus = << >> /\ ioapic = -1

FindRoot ==
  /\ apc = "rsdp"
  /\ LET i == FindRsdp(fw) IN
       apc' = IF i = 0 \/ (i # 0 /\ fw.rsdt.addr >= LIMIT * PAGE) THEN "failed" ELSE "rsdt"
  /\ UNCHANGED <<fw, mapped, touched, index, offset, cpus, ioapic>>

\* One page is mapped before the checksum runs over the whole root table.
ReadRoot ==
  /\ apc = "rsdt"
  /\ LET r == fw.rsdt IN
       /\ touched' = touched \cup Pages(r.addr, r.len)
       /\ mapped' = mapped \cup EnsureMapped(r.addr, PAGE)
                           \cup (IF r.sum THEN EnsureMapped(r.addr, r.len) ELSE {})
       /\ apc' = IF r.sum THEN "tables" ELSE "failed"
  /\ UNCHANGED <<fw, index, offset, cpus, ioapic>>

Table == fw.rsdt.tables[index]

VisitTable ==
  /\ apc = "tables"
  /\ \/ /\ index > Len(fw.rsdt.tables)
        /\ apc' = "done" /\ UNCHANGED <<mapped, touched, index, offset>>
     \/ /\ index <= Len(fw.rsdt.tables) /\ Table.addr >= LIMIT * PAGE
        /\ index' = index + 1 /\ UNCHANGED <<apc, mapped, touched, offset>>
     \/ /\ index <= Len(fw.rsdt.tables) /\ Table.addr < LIMIT * PAGE
        /\ LET apic == Table.signature = "APIC" IN
             /\ mapped' = mapped \cup EnsureMapped(Table.addr, HDR)
                                 \cup (IF apic THEN EnsureMapped(Table.addr, Table.len) ELSE {})
             /\ touched' = touched \cup Pages(Table.addr, IF apic THEN Table.len ELSE HDR)
             /\ IF apic /\ Table.sum THEN apc' = "madt" /\ offset' = MADT_HDR /\ UNCHANGED index
                ELSE index' = index + 1 /\ UNCHANGED <<apc, offset>>
  /\ UNCHANGED <<fw, cpus, ioapic>>

\* black_acpi_parse_madt, one turn of its loop.  entries gives the entry at
\* every offset where one begins.
FoundCpus(e) ==
  IF e.type = 0 /\ Len(cpus) < ACPI_MAX_CPUS /\ e.enabled THEN Append(cpus, e.id) ELSE cpus

NextEntryKnown(e) == IF e.type \in {0, 1} THEN offset + e.len ELSE offset
NextEntry(e) == offset + e.len

ParseEntry ==
  /\ apc = "madt"
  /\ \/ /\ offset >= Table.len
        /\ apc' = "tables" /\ index' = index + 1
        /\ UNCHANGED <<touched, offset, cpus, ioapic>>
     \/ /\ offset < Table.len
        /\ LET e == Table.entries[offset] IN
             /\ cpus' = FoundCpus(e)
             /\ ioapic' = IF e.type = 1 /\ ioapic = -1 THEN e.id ELSE ioapic
             /\ touched' = touched \cup Pages(Table.addr + offset, 2)
             /\ offset' = NextEntry(e)
        /\ UNCHANGED <<apc, index>>
  /\ UNCHANGED <<fw, mapped>>

\* black_acpi_find_table, after an initialisation that found the root table:
\* of the table asked for only the header's pages are mapped before the
\* checksum runs over all of it.
FindTable(i) ==
  /\ apc = "done" /\ i \in DOMAIN fw.rsdt.tables
  /\ LET t == fw.rsdt.tables[i] IN
       /\ t.addr < LIMIT * PAGE
       /\ mapped' = mapped \cup EnsureMapped(t.addr, HDR)
       /\ touched' = touched \cup Pages(t.addr, t.len)
  /\ UNCHANGED <<fw, apc, index, offset, cpus, ioapic>>

AcpiStep == FindRoot \/ ReadRoot \/ VisitTable \/ ParseEntry
AcpiNext == AcpiStep \/ \E i \in 1 .. 3 : FindTable(i)
-----------------------------------------------------------------------------
\* The entries that the firmware means, in the order of its tables: those
\* of every controller table that is intact and within reach.
Meant(type) ==
  LET Of(t) == IF t.signature = "APIC" /\ t.sum /\ t.addr < LIMIT * PAGE
               THEN LET at == SetToSortSeq(DOMAIN t.entries, <)
                    IN SelectSeq([k \in DOMAIN at |-> t.entries[at[k]]],
                                 LAMBDA e : e.type = type /\ e.enabled)
               ELSE << >>
  IN FlattenSeq([i \in DOMAIN fw.rsdt.tables |-> Of(fw.rsdt.tables[i])])

\* Whatever tables the firmware has left, the processors listed are the
\* first of those it means, no page is read before it is mapped, and the
\* pages of the heap keep their mapping, also when a table ends where they
\* begin.  (Root tables of more than a page, and tables that are asked for
\* later and cross a page, are read before they are mapped.)
AcpiSound ==
  /\ apc = "done" =>
       /\ cpus = LET m == Meant(0) IN
                 [k \in 1 .. (IF Len(m) < ACPI_MAX_CPUS THEN Len(m) ELSE ACPI_MAX_CPUS) |-> m[k].id]
       /\ ioapic = IF Meant(1) = << >> THEN -1 ELSE Meant(1)[1].id
  /\ Len(cpus) <= ACPI_MAX_CPUS
  /\ mapped \cap HeapPages = {}
  /\ touched \subseteq mapped

\* The walk through the tables ends, as long as no entry says that it is
\* zero bytes long.
AcpiEnds ==
  (\A i \in DOMAIN fw.rsdt.tables : \A o \in DOMAIN fw.rsdt.tables[i].entries :
      fw.rsdt.tables[i].entries[o].len > 0) ~> apc \in {"done", "failed"}
=============================================================================
