------------------------------- MODULE Context ------------------------------
(***************************************************************************)
(* Stacks and registers: black_context_switch, the interrupt stubs and     *)
(* black_isr_common of kernel/arch/x86/isr.asm, and the first stack of a   *)
(* task that black_task_create lays out.  A stack is a sequence, its top   *)
(* the last element; code addresses and register values are small numbers. *)
(***************************************************************************)
EXTENDS Integers, Sequences, SequencesExt, TLC

CONSTANTS
  Threads,   \* the tasks, 0 the one that runs first
  Vals,      \* the values that registers are computed from
  Vectors    \* the vectors with a gate that occur

VARIABLES
  regs,      \* the CPU's registers, pc among them
  sp,        \* the stack of the running task
  running,   \* black_current
  saved,     \* black_esp of every task: the stack it was left with
  inside,    \* the interrupts the running task is in, the latest last
  expected   \* the registers of every task as it last had them: not in the code

ctxvars == <<regs, sp, running, saved, inside, expected>>

Kept == {"ebx", "esi", "edi", "ebp"}      \* a callee must give these back
Others == {"eax", "ecx", "edx", "ds"}
Entry == 10   \* where the code of a new task begins
Exit == 11    \* black_task_exit
Site == 12    \* the return address of the call of black_context_switch
Body == 13    \* any other place

Top(s, k) == s[Len(s) - k]
Pop(s, k) == SubSeq(s, 1, Len(s) - k)

ContextInit ==
  /\ regs = [r \in Kept \cup Others |-> 0] @@ [pc |-> Body]
  /\ sp = << >> /\ running = 0 /\ saved = [t \in {0} |-> << >>]
  /\ inside = << >> /\ expected = [t \in {0} |-> regs]

\* The task computes: every register gets a value of its own.
Compute ==
  /\ \E v \in Vals :
       regs' = [ebx |-> v + 1, esi |-> v + 2, edi |-> v + 3, ebp |-> v + 4,
                eax |-> v + 5, pc |-> Body] @@ regs
  /\ expected' = [expected EXCEPT ![running] = regs']
  /\ UNCHANGED <<sp, running, saved, inside>>

\* The end of black_task_create.
TaskFrame == <<Exit, Entry, 0, 0, 0, 0>>
CreateTask(t) ==
  /\ t \notin DOMAIN saved
  /\ saved' = (t :> TaskFrame) @@ saved
  /\ expected' = (t :> ([r \in Kept |-> 0] @@ [pc |-> Entry])) @@ expected
  /\ UNCHANGED <<regs, sp, running, inside>>
-----------------------------------------------------------------------------
\* black_context_switch: push four registers above the return address, swap
\* the stacks, pop four and return.  The scheduler is called from no
\* interrupt handler, so the task is in no interrupt.
Pushed(r) == <<Site, r.ebx, r.esi, r.edi, r.ebp>>
PoppedSwapped(s) ==
  [ebp |-> Top(s, 0), esi |-> Top(s, 1), edi |-> Top(s, 2), ebx |-> Top(s, 3), pc |-> Top(s, 4)]
Popped(s) ==
  [ebp |-> Top(s, 0), edi |-> Top(s, 1), esi |-> Top(s, 2), ebx |-> Top(s, 3), pc |-> Top(s, 4)]

Switch(t) ==
  /\ t \in DOMAIN saved \ {running} /\ inside = << >>
  /\ saved' = [saved EXCEPT ![running] = sp \o Pushed(regs)]
  /\ regs' = Popped(saved[t]) @@ regs
  /\ sp' = Pop(saved[t], 5)
  /\ expected' = [expected EXCEPT ![running] = [r \in Kept |-> regs[r]] @@ [pc |-> Site]]
  /\ running' = t
  /\ UNCHANGED inside

\* A task's function returns: into black_task_exit, which switches away.
TaskReturns(t) ==
  /\ inside = << >> /\ Len(sp) = 1 /\ t \in DOMAIN saved \ {running}
  /\ Top(sp, 0) = Exit
  /\ saved' = [u \in DOMAIN saved \ {running} |-> saved[u]]
  /\ expected' = [u \in DOMAIN saved \ {running} |-> expected[u]]
  /\ regs' = Popped(saved[t]) @@ regs
  /\ sp' = Pop(saved[t], 5)
  /\ running' = t
  /\ UNCHANGED inside
-----------------------------------------------------------------------------
\* An interrupt or exception: the CPU pushes flags, segment and address, for
\* some vectors an error code; the stub a zero where the CPU did not, and
\* its number (gate 128 has stub 19); black_isr_common all registers.
CpuPushesError == {8} \cup 10 .. 14 \cup {17}
StubPushesZero(v) == v \notin {8, 10, 11, 12, 13, 14, 17}
Number(v) == IF v = 128 THEN 19 ELSE v

IsrEnter(v) ==
  /\ Len(inside) < 2
  /\ sp' = sp \o <<0, 0, regs.pc>>
              \o (IF v \in CpuPushesError THEN <<1>> ELSE << >>)
              \o (IF StubPushesZero(v) THEN <<0>> ELSE << >>)
              \o <<Number(v), regs.eax, regs.ecx, regs.edx, regs.ebx, 0, regs.ebp,
                   regs.esi, regs.edi, regs.ds>>
  /\ inside' = Append(inside, [vector |-> v, regs |-> regs])
  /\ regs' = [r \in Others |-> 2] @@ [pc |-> Body] @@ regs
  /\ expected' = [expected EXCEPT ![running] = regs']
  /\ UNCHANGED <<running, saved>>

\* black_isr_common after the handler: the data segment, popa, two words
\* dropped, iret.
IsrLeave ==
  /\ inside # << >>
  /\ regs' = [ds |-> Top(sp, 0), edi |-> Top(sp, 1), esi |-> Top(sp, 2), ebp |-> Top(sp, 3),
              ebx |-> Top(sp, 5), edx |-> Top(sp, 6), ecx |-> Top(sp, 7), eax |-> Top(sp, 8),
              pc |-> Top(sp, 11)]
  /\ sp' = Pop(sp, 14)
  /\ expected' = [expected EXCEPT ![running] = Last(inside).regs]
  /\ inside' = Front(inside)
  /\ UNCHANGED <<running, saved>>

ContextNext ==
  \/ Compute \/ IsrLeave
  \/ \E t \in Threads : CreateTask(t) \/ Switch(t) \/ TaskReturns(t)
  \/ \E v \in Vectors : IsrEnter(v)
-----------------------------------------------------------------------------
\* A task that runs again, after other tasks have run or after interrupts
\* and exceptions inside one another, goes on where it was and finds the
\* registers it counts on: after a switch those a callee gives back, after an
\* interrupt all of them.
RegistersKept ==
  \A r \in DOMAIN expected[running] : regs[r] = expected[running][r]
=============================================================================
