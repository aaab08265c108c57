------------------------------ MODULE Spinlock ------------------------------
(***************************************************************************)
(* The ticket lock of kernel/sync/spinlock.c and the condition variable    *)
(* kernel/sync/condvar.c builds on it, for processes whose atomic          *)
(* instructions interleave in any way.  Tickets are counters of            *)
(* TICKETS = 2^32 values and wrap.                                         *)
(*                                                                         *)
(* A process is out, waiting with a ticket, inside, or, in                 *)
(* black_condvar_wait, between the release and the new ticket.             *)
(***************************************************************************)
EXTENDS Integers, FiniteSets

CONSTANTS Procs, TICKETS

ASSUME SpinlockAssumption ==
  /\ TICKETS \in Nat \ {0}
  /\ IsFiniteSet(Procs)
  /\ Cardinality(Procs) <= TICKETS

VARIABLES
  ticket,    \* black_ticket
  serving,   \* black_serving
  my,        \* black_my_ticket of each process
  pc         \* "out", "wait", "in" or "pause"

vars == <<ticket, serving, my, pc>>

Inc(n) == (n + 1) % TICKETS

Init ==
  /\ ticket = 0
  /\ serving = 0
  /\ my = [p \in Procs |-> 0]
  /\ pc = [p \in Procs |-> "out"]

\* The fetch-and-add at the start of black_spinlock_acquire.
Take(p) ==
  /\ my' = [my EXCEPT ![p] = ticket]
  /\ ticket' = Inc(ticket)
  /\ pc' = [pc EXCEPT ![p] = "wait"]
  /\ UNCHANGED serving

Acquire(p) == pc[p] = "out" /\ Take(p)

\* The compare-and-swap that ends the spin loop; while the ticket is not the
\* one served it changes nothing.
SpinCompares(p) ==
  /\ pc[p] = "wait" /\ serving >= my[p]
  /\ pc' = [pc EXCEPT ![p] = "in"]
  /\ UNCHANGED <<ticket, serving, my>>
Spin(p) ==
  /\ pc[p] = "wait" /\ serving = my[p]
  /\ pc' = [pc EXCEPT ![p] = "in"]
  /\ UNCHANGED <<ticket, serving, my>>

Leave(p, to) ==
  /\ pc[p] = "in"
  /\ serving' = Inc(serving)
  /\ pc' = [pc EXCEPT ![p] = to]
  /\ UNCHANGED <<ticket, my>>

Release(p) == Leave(p, "out")

\* black_condvar_wait releases the lock and queues for it again at once;
\* black_condvar_signal does nothing.
CondvarWait(p) == Leave(p, "pause")
CondvarReacquire(p) == pc[p] = "pause" /\ Take(p)

Next ==
  \E p \in Procs :
    \/ Acquire(p) \/ Spin(p) \/ Release(p)
    \/ CondvarWait(p) \/ CondvarReacquire(p)

Spec == Init /\ [][Next]_vars

\* A waiting process keeps spinning, nobody stays inside for ever, and
\* black_condvar_wait does not stop half way.  Nobody has to ask.
Fairness ==
  \A p \in Procs :
    WF_vars(Spin(p)) /\ WF_vars(Release(p)) /\ WF_vars(CondvarReacquire(p))

-----------------------------------------------------------------------------
\* Tickets stay below TICKETS.
TypeOK ==
  /\ ticket \in 0 .. TICKETS - 1
  /\ serving \in 0 .. TICKETS - 1
  /\ my \in [Procs -> 0 .. TICKETS - 1]
  /\ pc \in [Procs -> {"out", "wait", "in", "pause"}]

Holding == {p \in Procs : pc[p] \in {"wait", "in"}}

\* At most one process is between acquire and release, through any number
\* of wrap-arounds of the 32-bit ticket.
MutualExclusion == \A p, q \in Procs : pc[p] = "in" /\ pc[q] = "in" => p = q

\* The line: those with a ticket, by the distance of their tickets from the
\* one that is served.
Distance(p) == (my[p] - serving) % TICKETS
Ahead(p) == {q \in Holding : Distance(q) < Distance(p)}
Line == [i \in 1 .. Cardinality(Holding) |->
           CHOOSE p \in Holding : Cardinality(Ahead(p)) = i - 1]

Fifo == INSTANCE FifoLock
          WITH line <- Line, inside <- \E p \in Procs : pc[p] = "in"

\* The ticket lock is a fair lock: it implements FifoLock, so processes enter
\* in the order of their fetch-and-add.  black_condvar_wait leaves the line
\* and goes to its end.
ImplementsFifoLock == Fifo!Spec

\* A process that waits, in black_spinlock_acquire or in black_condvar_wait,
\* gets the lock.
EveryoneGetsIn ==
  \A p \in Procs : pc[p] \in {"wait", "pause"} ~> pc[p] = "in"
-----------------------------------------------------------------------------
(***************************************************************************)
(* black_spinlock_irq_save and black_spinlock_irq_restore on one CPU, where *)
(* the interrupted code and an interrupt handler use the same lock, as the *)
(* ready queues' lock is used by black_schedule and by                     *)
(* black_scheduler_tick.  A handler that spun on a lock held by the code it*)
(* interrupted would spin for ever.                                        *)
(*                                                                         *)
(* All gates of the IDT are interrupt gates (flags 0x8E): the CPU clears IF*)
(* on entry, so handlers do not nest, and iret restores it.                *)
(***************************************************************************)

CONSTANT SECTIONS   \* bound: critical sections of one handler run

\* The two users of the lock that run on this CPU.
Contexts == {"task", "irq"}

ASSUME ContextsAssumption == Contexts \subseteq Procs

VARIABLES
  interrupts,               \* IF
  cpu,                      \* the context the CPU executes
  saved,                    \* IF in the frame the interrupt pushed
  flags,                    \* black_flags of each context
  step,                     \* where a context is around the lock: "idle",
                            \* "pushed", "masked" or "unmask"
  sections                  \* critical sections the handler has begun

irq == <<interrupts, cpu, saved, flags, step, sections>>
irqvars == <<vars, irq>>

IrqInit ==
  /\ Init
  /\ interrupts = TRUE
  /\ cpu = "task"
  /\ saved = FALSE
  /\ flags = [c \in Contexts |-> FALSE]
  /\ step = [c \in Contexts |-> "idle"]
  /\ sections = 0

\* black_spinlock_irq_save: pushf and pop, then cli, then the acquire.
SavePushf(c) ==
  /\ cpu = c /\ step[c] = "idle"
  /\ c = "irq" => sections < SECTIONS
  /\ sections' = IF c = "irq" THEN sections + 1 ELSE sections
  /\ flags' = [flags EXCEPT ![c] = interrupts]
  /\ step' = [step EXCEPT ![c] = "pushed"]
  /\ UNCHANGED <<vars, interrupts, cpu, saved>>

SaveNoCli(c) ==
  /\ cpu = c /\ step[c] = "pushed"
  /\ step' = [step EXCEPT ![c] = "masked"]
  /\ UNCHANGED <<vars, interrupts, cpu, saved, flags, sections>>
SaveCli(c) ==
  /\ cpu = c /\ step[c] = "pushed"
  /\ interrupts' = FALSE
  /\ step' = [step EXCEPT ![c] = "masked"]
  /\ UNCHANGED <<vars, cpu, saved, flags, sections>>

SaveAcquire(c) ==
  /\ cpu = c /\ step[c] = "masked"
  /\ Acquire(c) \/ Spin(c)
  /\ UNCHANGED <<interrupts, cpu, saved, flags, step, sections>>

\* black_spinlock_irq_restore: the release, then popf.
RestoreRelease(c) ==
  /\ cpu = c
  /\ Release(c)
  /\ step' = [step EXCEPT ![c] = "unmask"]
  /\ UNCHANGED <<interrupts, cpu, saved, flags, sections>>

RestorePopf(c) ==
  /\ cpu = c /\ step[c] = "unmask"
  /\ interrupts' = flags[c]
  /\ step' = [step EXCEPT ![c] = "idle"]
  /\ UNCHANGED <<vars, cpu, saved, flags, sections>>

\* black_cli and black_sti in the interrupted code.
SetInterrupts ==
  /\ cpu = "task" /\ step["task"] = "idle"
  /\ interrupts' = ~interrupts
  /\ UNCHANGED <<vars, cpu, saved, flags, step, sections>>

Interrupt ==
  /\ cpu = "task" /\ interrupts
  /\ cpu' = "irq"
  /\ saved' = interrupts
  /\ interrupts' = FALSE
  /\ sections' = 0
  /\ UNCHANGED <<vars, flags, step>>

Iret ==
  /\ cpu = "irq" /\ step["irq"] = "idle"
  /\ cpu' = "task"
  /\ interrupts' = saved
  /\ UNCHANGED <<vars, saved, flags, step, sections>>

\* What a context does once it is in irq_save or irq_restore.
Run(c) == SaveCli(c) \/ SaveAcquire(c) \/ RestoreRelease(c) \/ RestorePopf(c)

IrqNext ==
  \/ SetInterrupts \/ Interrupt \/ Iret
  \/ \E c \in Contexts : SavePushf(c) \/ Run(c)

\* The CPU executes the code it is in.
IrqFairness == WF_irqvars(Iret) /\ \A c \in Contexts : WF_irqvars(Run(c))
-----------------------------------------------------------------------------
\* The lock's own type, the CPU's flag and the places in the code.
IrqTypeOK ==
  /\ TypeOK
  /\ interrupts \in BOOLEAN /\ saved \in BOOLEAN
  /\ cpu \in Contexts
  /\ flags \in [Contexts -> BOOLEAN]
  /\ step \in [Contexts -> {"idle", "pushed", "masked", "unmask"}]
  /\ sections \in 0 .. SECTIONS

\* An interrupt handler that uses the lock always returns.
HandlerReturns == cpu = "irq" ~> cpu = "task"
=============================================================================
