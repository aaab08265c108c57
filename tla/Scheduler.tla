------------------------------ MODULE Scheduler ------------------------------
(***************************************************************************)
(* The multi-level feedback queue scheduler of kernel/sched/scheduler.c:   *)
(* the task table, the ready queues, and every entry point that changes    *)
(* them.  One CPU; an entry point runs to its context switch or its return *)
(* before the next one starts.                                             *)
(*                                                                         *)
(* Tasks are slots of black_tasks.  Slot 0 is the kernel task, the only    *)
(* one with tid 0.  Names, stacks, pids, priorities, affinity, wake times  *)
(* and CPU time take no part in any scheduling decision and are left out.  *)
(***************************************************************************)
EXTENDS Integers, Sequences

CONSTANTS
  MAX_TASKS,        \* BLACK_MAX_TASKS
  MLFQ_LEVELS,      \* BLACK_MLFQ_LEVELS
  TIMESLICE_BASE,   \* BLACK_MLFQ_TIMESLICE_BASE
  KERNEL_SLICE,     \* the time slice black_scheduler_init gives task 0
  USED_CAP          \* bound: black_time_used counts to USED_CAP and stays

Tasks  == 0 .. MAX_TASKS - 1
Levels == 0 .. MLFQ_LEVELS - 1
Kernel == 0
Idle   == 1         \* black_idle: the first slot black_task_create finds
NULL   == -1
States == {"UNUSED", "RUNNING", "READY", "BLOCKED", "SLEEPING", "ZOMBIE"}

\* BLACK_MLFQ_TIMESLICE_BASE * (1 << level)
SliceOf(l) == TIMESLICE_BASE * 2^l

\* The last conjunct makes the cap invisible: black_time_used is only ever
\* compared with a time slice, and no slice is above the cap.
ASSUME SchedulerAssumption ==
  /\ MAX_TASKS \in Nat /\ MAX_TASKS >= 2
  /\ MLFQ_LEVELS \in Nat \ {0}
  /\ KERNEL_SLICE \in 1 .. USED_CAP
  /\ USED_CAP \in Nat
  /\ \A l \in Levels : SliceOf(l) \in 1 .. USED_CAP
  /\ SliceOf(0) = TIMESLICE_BASE

VARIABLES
  state,     \* black_state of each slot
  level,     \* black_mlfq_level
  slice,     \* black_time_slice
  used,      \* black_time_used
  queue,     \* the list from black_mlfq_heads[l] to black_mlfq_tails[l]
  current,   \* black_current
  enabled,   \* black_sched_enabled
  halted     \* the CPU executes no kernel code any more

vars == <<state, level, slice, used, queue, current, enabled, halted>>

-----------------------------------------------------------------------------
\* black_enqueue's list insertion; black_mlfq_level never reaches MLFQ_LEVELS
\* (TypeOK), so the clamp of the level is not needed.
EnqueueForgetsTail(q, t, l) == [q EXCEPT ![l] = <<t>>]
Enqueue(q, t, l) == [q EXCEPT ![l] = Append(@, t)]

Occupied == {l \in Levels : queue[l] # <<>>}
TopLevel == CHOOSE l \in Occupied : \A m \in Occupied : l <= m

\* black_dequeue: the head of the first level that has one.
Dequeued == IF Occupied = {} THEN NULL ELSE Head(queue[TopLevel])
QueueAfterDequeue ==
  IF Occupied = {} THEN queue ELSE [queue EXCEPT ![TopLevel] = Tail(@)]

\* black_schedule_force falls back on the idle task when no task is queued.
Selected ==
  IF Dequeued # NULL THEN Dequeued
  ELSE IF current # Idle THEN Idle ELSE NULL

\* black_schedule_force, entered with the tasks' states st and times us: the
\* caller may have changed them just before.
Stay(st, us) ==
  /\ Selected \in {NULL, current}
  /\ state' = st
  /\ used' = us
  /\ queue' = QueueAfterDequeue
  /\ UNCHANGED <<level, slice, current>>

SwitchAway(st, us) ==
  /\ Selected \notin {NULL, current}
  /\ current' = Selected
  /\ state' = [st EXCEPT ![Selected] = "RUNNING"]
  /\ queue' = QueueAfterDequeue
  /\ used' = us
  /\ UNCHANGED <<level, slice>>

\* A task that has used up its slice goes one level down, if there is one.
DemotedUnclamped(l) == l + 1
DemotedWraps(l) == (l + 1) % MLFQ_LEVELS
Demoted(l) == IF l < MLFQ_LEVELS - 1 THEN l + 1 ELSE l

Requeue(st, us) ==
  LET expired == us[current] >= slice[current]
      l       == IF expired THEN Demoted(level[current]) ELSE level[current]
  IN /\ Selected \notin {NULL, current}
     /\ current' = Selected
     /\ state' = [st EXCEPT ![current] = "READY", ![Selected] = "RUNNING"]
     /\ queue' = Enqueue(QueueAfterDequeue, current, l)
     /\ level' = [level EXCEPT ![current] = l]
     /\ slice' = [slice EXCEPT ![current] = IF expired THEN SliceOf(l) ELSE @]
     /\ used' = [us EXCEPT ![current] = IF expired THEN 0 ELSE @]

ScheduleForceDropsCurrent(st, us) ==
  (Stay(st, us) \/ SwitchAway(st, us)) /\ UNCHANGED <<enabled, halted>>
ScheduleForce(st, us) ==
  LET requeues == st[current] = "RUNNING" /\ current # Idle
  IN /\ \/ Stay(st, us)
        \/ ~requeues /\ SwitchAway(st, us)
        \/ requeues /\ Requeue(st, us)
     /\ UNCHANGED <<enabled, halted>>
-----------------------------------------------------------------------------
\* The state black_scheduler_init leaves.  black_idle is created while the
\* new task's level is 0, so it waits in queue 0; its level becomes the
\* lowest only afterwards.  The boot allocation of its stack succeeds.
Init ==
  /\ state = [t \in Tasks |-> IF t = Kernel THEN "RUNNING"
                              ELSE IF t = Idle THEN "READY" ELSE "UNUSED"]
  /\ level = [t \in Tasks |-> IF t = Idle THEN MLFQ_LEVELS - 1 ELSE 0]
  /\ slice = [t \in Tasks |-> IF t = Kernel THEN KERNEL_SLICE
                              ELSE IF t = Idle THEN TIMESLICE_BASE ELSE 0]
  /\ used = [t \in Tasks |-> 0]
  /\ queue = [l \in Levels |-> IF l = 0 THEN <<Idle>> ELSE <<>>]
  /\ current = Kernel
  /\ enabled = FALSE
  /\ halted = FALSE

\* A call by the running task; black_idle_func makes none, it only halts.
Calls == ~halted /\ current # Idle

MakeReady(t) ==
  /\ state' = [state EXCEPT ![t] = "READY"]
  /\ level' = [level EXCEPT ![t] = 0]
  /\ slice' = [slice EXCEPT ![t] = TIMESLICE_BASE]
  /\ used' = [used EXCEPT ![t] = 0]
  /\ queue' = Enqueue(queue, t, 0)
  /\ UNCHANGED <<current, enabled, halted>>

\* black_task_create with memory for the stack; without it the slot is put
\* back to UNUSED and nothing has changed.
TaskCreate(t) ==
  /\ Calls
  /\ state[t] = "UNUSED"
  /\ \A u \in 0 .. t - 1 : state[u] # "UNUSED"
  /\ MakeReady(t)

\* black_schedule, and black_schedule_force which does not ask for enabled.
Schedule == Calls /\ ScheduleForce(state, used)

\* black_scheduler_tick, for a timer interrupt.  Task 0 is never preempted.
Tick ==
  LET us == [used EXCEPT ![current] = IF @ < USED_CAP THEN @ + 1 ELSE @]
  IN /\ ~halted /\ enabled
     /\ \/ /\ current # Kernel /\ us[current] >= slice[current]
           /\ ScheduleForce(state, us)
        \/ /\ current = Kernel \/ us[current] < slice[current]
           /\ used' = us
           /\ UNCHANGED <<state, level, slice, queue, current, enabled, halted>>

TaskBlock == Calls /\ ScheduleForce([state EXCEPT ![current] = "BLOCKED"], used)

\* black_task_unblock, by the running task or by an interrupt handler.
TaskUnblockUnguarded(t) == ~halted /\ state[t] # "UNUSED" /\ MakeReady(t)
TaskUnblock(t) == ~halted /\ state[t] = "BLOCKED" /\ MakeReady(t)

\* black_task_sleep: with the scheduler disabled the caller just goes on.
TaskSleep ==
  LET st == [state EXCEPT ![current] = "SLEEPING"]
  IN /\ Calls
     /\ \/ enabled /\ ScheduleForce(st, used)
        \/ /\ ~enabled /\ state' = st
           /\ UNCHANGED <<level, slice, used, queue, current, enabled, halted>>

\* black_task_exit.  A created task runs on the stack it frees, and kfree's
\* memset overwrites the frames of black_task_exit, kfree and memset itself:
\* what follows is undefined.  Both ends of the range are kept, the switch
\* the code asks for and a CPU that never comes back to the kernel.
TaskExit ==
  /\ Calls
  /\ \/ ScheduleForce([state EXCEPT ![current] = "ZOMBIE"], used)
     \/ /\ current # Kernel
        /\ halted' = TRUE
        /\ UNCHANGED <<state, level, slice, used, queue, current, enabled>>

SchedulerEnable(b) ==
  /\ Calls /\ enabled # b
  /\ enabled' = b
  /\ UNCHANGED <<state, level, slice, used, queue, current, halted>>

\* black_scheduler_enqueue_cpu on a parked task: it is the one entry point
\* that can bring a sleeping task back.
EnqueueCpu(t) ==
  /\ Calls /\ state[t] = "SLEEPING" /\ t # current
  /\ state' = [state EXCEPT ![t] = "READY"]
  /\ queue' = Enqueue(queue, t, level[t])
  /\ UNCHANGED <<level, slice, used, current, enabled, halted>>

Next ==
  \/ Schedule \/ Tick \/ TaskBlock \/ TaskSleep \/ TaskExit
  \/ \E t \in Tasks : TaskCreate(t) \/ TaskUnblock(t) \/ EnqueueCpu(t)
  \/ \E b \in BOOLEAN : SchedulerEnable(b)

Spec == Init /\ [][Next]_vars
-----------------------------------------------------------------------------
\* Every variable has the values its C type and the code's assignments allow.
TypeOK ==
  /\ state \in [Tasks -> States]
  /\ level \in [Tasks -> Levels]
  /\ slice \in [Tasks -> 0 .. USED_CAP]
  /\ used \in [Tasks -> 0 .. USED_CAP]
  /\ queue \in [Levels -> Seq(Tasks)]
  /\ current \in Tasks
  /\ enabled \in BOOLEAN
  /\ halted \in BOOLEAN

Queued(q, t) == \E l \in Levels : \E i \in DOMAIN q[l] : q[l][i] = t

NoneTwice(q) ==
  \A l, m \in Levels : \A i \in DOMAIN q[l], j \in DOMAIN q[m] :
    q[l][i] = q[m][j] => l = m /\ i = j

\* No task is lost and none is scheduled by mistake: the tasks in
\* the ready queues are exactly those in state READY.
\* A READY task in no queue is never picked by black_dequeue again; a queued
\* task in another state would run although it blocked, slept or exited.
ReadyIffQueued ==
  \A t \in Tasks : state[t] = "READY" <=> Queued(queue, t)

\* black_next links a task into one list: no task is queued twice, at two
\* levels or at two places of one.
QueuedOnce == NoneTwice(queue)

\* A task that is switched away from never keeps state RUNNING, except the
\* idle task, which black_schedule_force neither requeues nor marks.
OnlyCurrentRuns ==
  \A t \in Tasks : state[t] = "RUNNING" => t \in {current, Idle}

\* A step moves a task down only when it leaves the CPU with its slice used
\* up, by one level, and moves it up only by unblocking it, to the top.
LevelDiscipline ==
  [][\A t \in Tasks : level'[t] # level[t] =>
        \/ /\ level'[t] = level[t] + 1 /\ used'[t] = 0
           /\ t = current /\ t # current' /\ used[t] + 1 >= slice[t]
        \/ level'[t] = 0 /\ state[t] = "BLOCKED" /\ state'[t] = "READY"]_vars

\* A task that has exited stays a zombie: nothing queues or runs it again.
NoResurrection ==
  [][\A t \in Tasks : state[t] = "ZOMBIE" =>
        state'[t] = "ZOMBIE" /\ (t = current' => t = current)]_vars
=============================================================================
