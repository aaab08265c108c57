----------------------------- MODULE KernelTasks -----------------------------
(***************************************************************************)
(* The scheduler as the booted kernel drives it.  Two parts act on it      *)
(* besides the tasks' own calls: the system monitor window, which writes   *)
(* into the task table directly, and the timer interrupt, whose handler    *)
(* counts and does not call black_scheduler_tick.                          *)
(***************************************************************************)
EXTENDS Scheduler

CONSTANT TICKS     \* bound: black_pit_ticks counts modulo TICKS

ASSUME TicksAssumption == TICKS \in Nat \ {0}

VARIABLE pit_ticks

kvars == <<vars, pit_ticks>>

KInit == Init /\ pit_ticks = 0

\* A click on a row of the monitor's task list, handled by the GUI loop,
\* which runs in the kernel task.  Rows are the slots in use.
MonitorKillReaps(t) ==
  /\ ~halted /\ current = Kernel /\ t # Kernel
  /\ state' = [state EXCEPT ![t] = "UNUSED"]
  /\ UNCHANGED <<level, slice, used, queue, current, enabled, halted>>
MonitorKill(t) ==
  /\ ~halted /\ current = Kernel
  /\ state[t] # "UNUSED"
  /\ state' = [state EXCEPT ![t] = "ZOMBIE"]
  /\ UNCHANGED <<level, slice, used, queue, current, enabled, halted>>

\* black_pit_irq_handler
PitIrq ==
  /\ pit_ticks' = (pit_ticks + 1) % TICKS
  /\ UNCHANGED vars

\* What a task does by calling the scheduler.
TaskCalls ==
  \/ Schedule \/ TaskBlock \/ TaskSleep \/ TaskExit
  \/ \E t \in Tasks : TaskCreate(t) \/ TaskUnblock(t) \/ EnqueueCpu(t)
  \/ \E b \in BOOLEAN : SchedulerEnable(b)

KNext ==
  \/ PitIrq
  \/ /\ TaskCalls \/ \E t \in Tasks : MonitorKill(t)
     /\ UNCHANGED pit_ticks

KSpec == KInit /\ [][KNext]_kvars

\* Timer interrupts keep coming; a task may compute and never call in.
KFairSpec == KSpec /\ WF_kvars(PitIrq)
-----------------------------------------------------------------------------
\* The scheduler's variables and the timer's.
KTypeOK == TypeOK /\ pit_ticks \in 0 .. TICKS - 1

\* However often the monitor marks tasks behind the scheduler's back, the
\* lists stay lists: every task is linked once, every ready task is linked,
\* and what is linked is ready or was killed while it waited.
ListsSurviveKill ==
  /\ KTypeOK
  /\ QueuedOnce
  /\ \A t \in Tasks : state[t] = "READY" => Queued(queue, t)
  /\ \A t \in Tasks : Queued(queue, t) => state[t] \in {"READY", "ZOMBIE"}

\* The scheduler's NoResurrection, now with the monitor: a task that was
\* killed with a click does not run again.
KilledStaysKilled == NoResurrection

\* Preemption: while timer interrupts arrive and the scheduler is on, a
\* ready task gets the CPU, is taken off, or the scheduler is turned off.
ReadyTaskRuns ==
  \A t \in Tasks :
    (enabled /\ state[t] = "READY") ~> (~enabled \/ halted \/ state[t] # "READY")
=============================================================================
