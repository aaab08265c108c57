-------------------------------- MODULE Boot --------------------------------
(***************************************************************************)
(* The start of the machine: interrupts and their controllers, the first   *)
(* page tables, and kernel_main.                                           *)
(***************************************************************************)
EXTENDS Integers, FiniteSets, Sequences, TLC

(***************************************************************************)
(* Interrupts: the gates and handlers of kernel/arch/x86/idt.c, the stubs  *)
(* of isr.asm, and the two interrupt controllers as the hardware that      *)
(* idt.c programs.  Lines 8 to 15 are those of the second controller,      *)
(* which reaches the CPU through line 2 of the first.                      *)
(***************************************************************************)

CONSTANT Lines   \* the lines that devices raise, a subset of 0 .. 15

VARIABLES
  gates,     \* black_idt_entries: vector -> the number its stub pushes
  handlers,  \* black_handlers: the vectors that have one
  irr,       \* controllers: lines raised and not yet taken by the CPU
  isr,       \* controllers: lines in service
  iflag,     \* the CPU takes interrupts
  frame      \* the number black_isr_dispatch works on, or NoFrame

intvars == <<gates, handlers, irr, isr, iflag, frame>>

NoFrame == -1
Cascade == 2
Vector(n) == 32 + n

InterruptsInit ==
  /\ gates = << >> /\ handlers = {} /\ frame = NoFrame
  /\ irr = {} /\ isr = {} /\ iflag = FALSE

\* black_idt_init: a stub pushes its own number, and gate 128 has stub 19.
StubOf(v) == IF v = 128 THEN 19 ELSE v
IdtInit ==
  /\ gates' = [v \in 0 .. 19 \cup 32 .. 47 \cup {128} |-> StubOf(v)]
  /\ handlers' = {}
  /\ isr' = {}
  /\ UNCHANGED <<irr, iflag, frame>>

\* black_idt_set_handler
SetHandler(v) ==
  /\ handlers' = handlers \cup {v}
  /\ UNCHANGED <<gates, irr, isr, iflag, frame>>
-----------------------------------------------------------------------------
\* The controllers.  A line waits while one of its own or a higher priority
\* is in service; the second controller stands at line 2 of the first.
Blocked(n) ==
  \/ \E k \in isr : k < 8 /\ k <= (IF n < 8 THEN n ELSE Cascade)
  \/ n >= 8 /\ \E k \in isr : 8 <= k /\ k <= n

Raise(n) ==
  /\ irr' = irr \cup {n}
  /\ UNCHANGED <<gates, handlers, isr, iflag, frame>>

Enter(v) == v \in DOMAIN gates /\ frame' = gates[v] /\ iflag' = FALSE

Accept(n) ==
  /\ iflag /\ frame = NoFrame
  /\ n \in irr /\ ~Blocked(n)
  /\ irr' = irr \ {n}
  /\ isr' = isr \cup {n} \cup (IF n < 8 THEN {} ELSE {Cascade})
  /\ Enter(Vector(n))
  /\ UNCHANGED <<gates, handlers>>

\* A line that has dropped again is reported as the controller's last one
\* and is not in service there; the first controller believes the second.
Spurious(n) ==
  /\ iflag /\ frame = NoFrame
  /\ n \in {7, 15} /\ ~Blocked(n)
  /\ isr' = isr \cup (IF n < 8 THEN {} ELSE {Cascade})
  /\ Enter(Vector(n))
  /\ UNCHANGED <<gates, handlers, irr>>

\* An end of interrupt ends the service of the highest priority.
Ended(s, ctrl) == {k \in s : k \in ctrl /\ \A j \in s \cap ctrl : k <= j}
-----------------------------------------------------------------------------
\* The end of black_isr_dispatch, after the handler, and the iret.
EoiOneController(v, s) ==
  IF v \in 32 .. 47 THEN s \ Ended(s, IF v >= 40 THEN 8 .. 15 ELSE 0 .. 7) ELSE s
Eoi(v, s) ==
  IF v \in 32 .. 47
  THEN s \ (Ended(s, 0 .. 7) \cup (IF v >= 40 THEN Ended(s, 8 .. 15) ELSE {}))
  ELSE s

Return ==
  /\ frame # NoFrame
  /\ isr' = Eoi(frame, isr)
  /\ frame' = NoFrame /\ iflag' = TRUE
  /\ UNCHANGED <<gates, handlers, irr>>

Devices == \E n \in Lines : Raise(n)

-----------------------------------------------------------------------------
\* Between interrupts nothing is in service, so no line is shut out, also
\* after a spurious interrupt and after one of the second controller: the
\* dispatcher ends exactly what the controllers have begun.
NothingLeftInService == frame = NoFrame => isr = {}
-----------------------------------------------------------------------------
(***************************************************************************)
(* From the boot loader's jump to the running desktop: the first page      *)
(* tables of boot/multiboot.asm, then black_kernel_main of kernel.c, with  *)
(* interrupts from the moment it turns them on.                            *)
(***************************************************************************)

CONSTANTS
  ENTRIES,   \* the entries of a page table, 1024 in the code
  KDIR,      \* BLACK_KERNEL_PAGE_INDEX: where the kernel's range begins
  SELF,      \* BLACK_RECURSIVE_PD_INDEX
  WAIT       \* the ticks of the four seconds before the desktop opens

ASSUME BootAssumption ==
  /\ ENTRIES \in Nat \ {0} /\ KDIR \in Nat \ {0} /\ WAIT \in Nat
  /\ SELF > KDIR + 1

VARIABLES
  bstep,      \* the next step of Script
  magic,      \* the boot loader passed its magic number
  paging,     \* CR0.PG
  pdir,       \* black_boot_page_directory: index -> the table it points to
  high,       \* code, or code and stack, that run at the kernel's addresses
  ready,      \* the parts that are initialised
  entries,    \* what parts have registered: mounts, the keyboard's callback
  elapsed,    \* ticks since the wait began, as far as WAIT
  asleep      \* the CPU is in hlt

bootvars == <<intvars, bstep, magic, paging, pdir, high, ready, entries, elapsed, asleep>>

\* The straight line of _start and black_kernel_main.
Script ==
  <<"tables", "paging", "jump", "unmap", "stack",
    "vga", "serial", "check", "gdt", "idt", "pmm", "vmm", "heap", "pit", "gui",
    "acpi", "pci", "keyboard", "mouse", "vfs", "ramfs", "devfs", "procfs",
    "mkdir", "syscall", "smp", "scheduler", "security", "isolation", "sti",
    "shell", "wait", "terminal", "enable", "run", "halt">>

Step == Script[bstep]
At(s) == CHOOSE i \in DOMAIN Script : Script[i] = s

\* The parts that the code of a step, or a handler, calls into.
Uses ==
  [s \in {Script[i] : i \in DOMAIN Script} |->
     CASE s = "heap" -> {"pmm", "vmm"}
       [] s \in {"pit", "keyboard", "mouse"} -> {"idt"}
       [] s = "gui" -> {"heap", "vmm"}
       [] s = "acpi" -> {"pmm", "vmm"}
       [] s \in {"ramfs", "scheduler"} -> {"heap"}
       [] s \in {"devfs", "procfs", "mkdir"} -> {"vfs", "ramfs", "heap"}
       [] s = "security" -> {"pit"}
       [] s = "sti" -> {"gdt", "idt"}
       [] s = "shell" -> {"keyboard"}
       [] s = "wait" -> {"pit"}
       [] s = "terminal" -> {"gui"}
       [] s = "run" -> {"gui", "mouse", "pit"}
       [] OTHER -> {}]
HandlerUses(v) ==
  CASE v = Vector(1) -> {"keyboard"} \cup (IF "callback" \in entries THEN {"gui"} ELSE {})
    [] v = Vector(12) -> {"mouse"}
    [] v = Vector(0) -> {"pit"}
    [] OTHER -> {}

BootInit ==
  /\ InterruptsInit
  /\ bstep = 1 /\ magic \in BOOLEAN /\ paging = FALSE
  /\ pdir = << >> /\ high = {} /\ ready = {} /\ entries = {}
  /\ elapsed = 0 /\ asleep = FALSE
-----------------------------------------------------------------------------
\* The page that a virtual page is mapped to, or -1: the entries of the
\* tables that _start fills, and of the directory seen as a table.
Table(t, i) ==
  CASE t \in {"identity", "kernel"} -> i
    [] t = "kernel2" -> ENTRIES + i
    [] OTHER -> -1
Translate(v) ==
  LET d == v \div ENTRIES
  IN IF ~paging THEN v
     ELSE IF d \in DOMAIN pdir THEN Table(pdir[d], v % ENTRIES) ELSE -1

\* _start: lines 61 to 106 fill the tables, 108 to 116 turn paging on and
\* jump, 120 to 130 drop the low mapping and change the stack.
StartTables == pdir' = (0 :> "identity") @@ (KDIR :> "kernel") @@ (KDIR + 1 :> "kernel2")
               /\ UNCHANGED <<paging, high>>
StartPaging == paging' = TRUE /\ UNCHANGED <<pdir, high>>
StartJump == high' = {"code"} /\ UNCHANGED <<pdir, paging>>
StartUnmap == pdir' = [d \in DOMAIN pdir \ {0} |-> pdir[d]] /\ UNCHANGED <<paging, high>>
StartStack == high' = {"code", "stack"} /\ UNCHANGED <<pdir, paging>>

StartStep ==
  /\ bstep <= At("stack")
  /\ CASE Step = "tables" -> StartTables
       [] Step = "paging" -> StartPaging
       [] Step = "jump" -> StartJump
       [] Step = "unmap" -> StartUnmap
       [] OTHER -> StartStack
  /\ bstep' = bstep + 1
  /\ UNCHANGED <<intvars, magic, ready, entries, elapsed, asleep>>
-----------------------------------------------------------------------------
\* black_kernel_main: what each initialisation registers or clears.  The
\* others only set up their own part.
Registers(s) ==
  /\ CASE s = "idt" -> IdtInit
       [] s = "pit" -> SetHandler(Vector(0))
       [] s = "keyboard" -> SetHandler(Vector(1))
       [] s = "mouse" -> SetHandler(Vector(12))
       [] s = "sti" -> iflag' = TRUE /\ UNCHANGED <<gates, handlers, irr, isr, frame>>
       [] OTHER -> UNCHANGED intvars
  /\ entries' = CASE s = "vfs" -> entries \ {"/dev", "/proc"}
                  [] s = "devfs" -> entries \cup {"/dev"}
                  [] s = "procfs" -> entries \cup {"/proc"}
                  [] s = "shell" -> entries \cup {"callback"}
                  [] OTHER -> entries
  /\ pdir' = IF s = "vmm" THEN (SELF :> "self") @@ pdir ELSE pdir

Running == bstep > At("stack") /\ frame = NoFrame /\ ~asleep

InitStep ==
  /\ Running
  /\ Step \notin {"check", "wait", "run", "halt"}
  /\ Registers(Step)
  /\ ready' = ready \cup {Step}
  /\ bstep' = bstep + 1
  /\ UNCHANGED <<magic, paging, high, elapsed, asleep>>

\* The test of the magic number, the wait for the clock, the desktop's loop
\* and the halt.
ControlStep ==
  /\ Running
  /\ \/ Step = "check" /\ bstep' = (IF magic THEN bstep + 1 ELSE At("halt"))
        /\ UNCHANGED asleep
     \/ Step = "wait" /\ elapsed >= WAIT /\ bstep' = bstep + 1 /\ UNCHANGED asleep
     \/ Step = "wait" /\ elapsed < WAIT /\ asleep' = TRUE /\ UNCHANGED bstep
     \/ Step \in {"run", "halt"} /\ asleep' = TRUE /\ UNCHANGED bstep
  /\ UNCHANGED <<intvars, magic, paging, pdir, high, ready, entries, elapsed>>

MainStep == StartStep \/ InitStep \/ ControlStep

\* An interrupt ends hlt; the clock's handler counts.
Interrupt(a) ==
  /\ a
  /\ asleep' = FALSE
  /\ UNCHANGED <<bstep, magic, paging, pdir, high, ready, entries, elapsed>>

IrqDone ==
  /\ Return
  /\ elapsed' = IF /\ frame = Vector(0) /\ frame \in handlers
                   /\ Step = "wait" /\ elapsed < WAIT
                THEN elapsed + 1 ELSE elapsed
  /\ UNCHANGED <<bstep, magic, paging, pdir, high, ready, entries, asleep>>

BootNext ==
  \/ MainStep \/ IrqDone
  \/ \E n \in Lines : Interrupt(Accept(n))
  \/ \E n \in {7, 15} : Interrupt(Spurious(n))
  \/ Devices /\ UNCHANGED <<bstep, magic, paging, pdir, high, ready, entries, elapsed, asleep>>

\* The CPU goes on between interrupts, which are rarer than instructions;
\* handlers return; the clock keeps ticking and is not shut out for ever.
ClockRaises ==
  /\ Raise(0)
  /\ UNCHANGED <<bstep, magic, paging, pdir, high, ready, entries, elapsed, asleep>>
ClockTaken == Interrupt(Accept(0))

BootFairness ==
  /\ SF_bootvars(MainStep) /\ WF_bootvars(IrqDone)
  /\ WF_bootvars(ClockRaises) /\ SF_bootvars(ClockTaken)

BootSpec == BootInit /\ [][BootNext]_bootvars /\ BootFairness
-----------------------------------------------------------------------------
\* Wherever the CPU is, its code is mapped to the page it was loaded to:
\* through the identity until the jump, through the kernel's two tables
\* after it, and in black_kernel_main nothing is left of the low mapping.
KernelMapped ==
  /\ "code" \notin high => \A p \in 0 .. ENTRIES - 1 : bstep = 1 \/ Translate(p) = p
  /\ "code" \in high => \A p \in 0 .. 2 * ENTRIES - 1 : Translate(KDIR * ENTRIES + p) = p
  /\ "stack" \in high => Translate(0) = -1

\* No code runs before the parts it calls into are ready, neither a step of
\* black_kernel_main nor a handler that interrupts it, and no later
\* initialisation wipes out what an earlier one has registered.
PartsReady ==
  /\ Running => Uses[Step] \subseteq ready
  /\ frame # NoFrame => "gdt" \in ready
  /\ frame \in handlers => HandlerUses(frame) \subseteq ready
  /\ "pit" \in ready => Vector(0) \in handlers
  /\ "keyboard" \in ready => Vector(1) \in handlers
  /\ "mouse" \in ready => Vector(12) \in handlers
  /\ "procfs" \in ready => {"/dev", "/proc"} \subseteq entries

\* The start-up is sound at every moment, with interrupts between its steps.
BootSound == NothingLeftInService /\ KernelMapped /\ PartsReady

\* With the right magic number the machine reaches the desktop: the clock
\* ends the wait.  With a wrong one it stops for good.
BootCompletes ==
  /\ magic ~> Step = "run"
  /\ ~magic ~> [](Step = "halt" /\ asleep)
=============================================================================
