--------------------------- MODULE SchedulerProofs ---------------------------
(***************************************************************************)
(* Proofs, for any number of tasks and levels, of the safety properties of *)
(* module Scheduler.  None of them is inductive alone: black_schedule_force*)
(* picks a task that is safe to run only because the queues hold exactly   *)
(* the READY tasks, each once, and it may forget about the task it leaves  *)
(* only because that one is never READY.  IInv puts these together.        *)
(***************************************************************************)
EXTENDS Scheduler, TLAPS, SequenceTheorems, WellFoundedInduction

\* What is known of the running task and of the idle task between two calls.
RunningTask ==
  /\ state[current] \in {"RUNNING", "SLEEPING"}
  /\ state[Idle] \in {"READY", "RUNNING"}
  /\ current = Idle => state[Idle] = "RUNNING"

IInv ==
  /\ TypeOK
  /\ ReadyIffQueued
  /\ QueuedOnce
  /\ OnlyCurrentRuns
  /\ RunningTask

QueueType == [Levels -> Seq(Tasks)]
-----------------------------------------------------------------------------
\* A non-empty set of levels has a least one, so the level that
\* black_dequeue's loop stops at exists and its list is not empty.
LEMMA TopLevelExists ==
  ASSUME TypeOK, Occupied # {}
  PROVE  TopLevel \in Levels /\ queue[TopLevel] # <<>>
<1> USE SchedulerAssumption
<1> DEFINE R == OpToRel(<, Nat)
<1>1. Occupied \subseteq Nat
  BY DEF Occupied, Levels
<1>2. \E x \in Occupied : \A y \in Occupied : ~ (<<y, x>> \in R)
  <2> HIDE DEF R
  <2>1. IsWellFoundedOn(R, Nat)
    BY NatLessThanWellFounded DEF R
  <2> QED BY <1>1, <2>1, WFMin
<1>3. \E x \in Occupied : \A y \in Occupied : x <= y
  <2>1. PICK x \in Occupied : \A y \in Occupied : ~ (<<y, x>> \in R)
    BY <1>2
  <2>2. \A y \in Occupied : ~ (y < x)
    BY <1>1, <2>1 DEF OpToRel
  <2> QED BY <1>1, <2>2
<1>4. TopLevel \in Occupied
  BY <1>3 DEF TopLevel
<1> QED BY <1>4 DEF Occupied

\* black_enqueue adds its task, and nothing else, to the queued tasks, and
\* keeps every task linked once if the new one was not linked before.
LEMMA EnqueueAdds ==
  ASSUME NEW q \in QueueType, NEW t \in Tasks, NEW l \in Levels,
         NoneTwice(q), ~ Queued(q, t)
  PROVE  /\ Enqueue(q, t, l) \in QueueType
         /\ NoneTwice(Enqueue(q, t, l))
         /\ \A u \in Tasks : Queued(Enqueue(q, t, l), u) <=> Queued(q, u) \/ u = t
<1> DEFINE r == Enqueue(q, t, l)
<1>1. r \in QueueType
  BY DEF QueueType, Enqueue
<1>2. \A m \in Levels : m # l => r[m] = q[m]
  BY DEF QueueType, Enqueue
<1>3. r[l] = Append(q[l], t)
  BY DEF QueueType, Enqueue
<1>4. /\ q[l] \in Seq(Tasks) /\ Len(q[l]) \in Nat
      /\ DOMAIN q[l] = 1 .. Len(q[l])
      /\ DOMAIN r[l] = 1 .. Len(q[l]) + 1
      /\ \A i \in 1 .. Len(q[l]) : r[l][i] = q[l][i]
      /\ r[l][Len(q[l]) + 1] = t
  BY <1>3 DEF QueueType
<1> HIDE DEF r
<1>5. \A u \in Tasks : Queued(r, u) <=> Queued(q, u) \/ u = t
  <2> TAKE u \in Tasks
  <2>1. Queued(r, u) => Queued(q, u) \/ u = t
    BY <1>2, <1>4 DEF Queued
  <2>2. Queued(q, u) => Queued(r, u)
    BY <1>2, <1>4 DEF Queued
  <2>3. Queued(r, t)
    BY <1>4 DEF Queued
  <2> QED BY <2>1, <2>2, <2>3
<1>6. NoneTwice(r)
  <2> SUFFICES ASSUME NEW a \in Levels, NEW b \in Levels,
                      NEW i \in DOMAIN r[a], NEW j \in DOMAIN r[b],
                      r[a][i] = r[b][j]
               PROVE  a = b /\ i = j
    BY DEF NoneTwice
  <2> DEFINE new(m, k) == m = l /\ k = Len(q[l]) + 1
  <2>1. \A m \in Levels : \A k \in DOMAIN r[m] :
          ~ new(m, k) => k \in DOMAIN q[m] /\ r[m][k] = q[m][k]
    BY <1>2, <1>4
  <2>2. \A m \in Levels : \A k \in DOMAIN r[m] :
          ~ new(m, k) => r[m][k] # t
    BY <2>1 DEF Queued
  <2>3. CASE new(a, i) /\ new(b, j)
    BY <2>3
  <2>4. CASE ~ new(a, i) /\ ~ new(b, j)
    BY <2>1, <2>4 DEF NoneTwice
  <2>5. CASE new(a, i) # new(b, j)
    BY <1>4, <2>2, <2>5
  <2> QED BY <2>3, <2>4, <2>5
<1> QED BY <1>1, <1>5, <1>6 DEF r

\* black_dequeue removes the task it returns, and nothing else; it returns
\* NULL only when no task is queued.
LEMMA DequeueRemoves ==
  ASSUME TypeOK, QueuedOnce
  PROVE  /\ QueueAfterDequeue \in QueueType
         /\ NoneTwice(QueueAfterDequeue)
         /\ Dequeued \in Tasks \cup {NULL}
         /\ Dequeued = NULL => \A u \in Tasks : ~ Queued(queue, u)
         /\ Dequeued # NULL => Queued(queue, Dequeued)
         /\ \A u \in Tasks :
              Queued(QueueAfterDequeue, u) <=> Queued(queue, u) /\ u # Dequeued
<1>1. CASE Occupied = {}
  <2>1. Dequeued = NULL /\ QueueAfterDequeue = queue
    BY <1>1 DEF Dequeued, QueueAfterDequeue
  <2>2. \A u \in Tasks : ~ Queued(queue, u) /\ u # NULL
    BY <1>1 DEF Occupied, Queued, Tasks, NULL, TypeOK
  <2> QED BY <2>1, <2>2 DEF TypeOK, QueuedOnce, QueueType
<1>2. CASE Occupied # {}
  <2> DEFINE l == TopLevel
             q == queue
             r == QueueAfterDequeue
             d == Dequeued
  <2>1. l \in Levels /\ q[l] # <<>> /\ q[l] \in Seq(Tasks)
    BY <1>2, TopLevelExists DEF TypeOK
  <2>2. d = Head(q[l]) /\ r = [q EXCEPT ![l] = Tail(q[l])]
    BY <1>2 DEF Dequeued, QueueAfterDequeue
  <2> HIDE DEF l, r, d
  <2>3. /\ Len(q[l]) \in Nat \ {0} /\ DOMAIN q[l] = 1 .. Len(q[l])
        /\ d = q[l][1] /\ d \in Tasks
        /\ Tail(q[l]) \in Seq(Tasks)
        /\ DOMAIN Tail(q[l]) = 1 .. Len(q[l]) - 1
        /\ \A i \in 1 .. Len(q[l]) - 1 : Tail(q[l])[i] = q[l][i + 1]
    BY <2>1, <2>2, HeadTailProperties
  <2>4. r \in QueueType
    BY <2>1, <2>2, <2>3 DEF TypeOK, QueueType
  <2>5. /\ \A m \in Levels : m # l => r[m] = q[m]
        /\ DOMAIN r[l] = 1 .. Len(q[l]) - 1
        /\ \A i \in 1 .. Len(q[l]) - 1 : r[l][i] = q[l][i + 1]
    BY <2>1, <2>2, <2>3 DEF TypeOK
  <2> DEFINE pos(m, i) == IF m = l THEN i + 1 ELSE i
  <2>6. \A m \in Levels : \A i \in DOMAIN r[m] :
          pos(m, i) \in DOMAIN q[m] /\ r[m][i] = q[m][pos(m, i)]
    <3> TAKE m \in Levels
    <3>1. CASE m = l
      <4> TAKE i \in DOMAIN r[m]
      <4>1. i \in 1 .. Len(q[l]) - 1
        BY <2>5, <3>1
      <4>2. i + 1 \in DOMAIN q[l] /\ r[l][i] = q[l][i + 1]
        BY <2>3, <2>5, <4>1
      <4> QED BY <3>1, <4>2
    <3>2. CASE m # l
      BY <2>5, <3>2
    <3> QED BY <3>1, <3>2
  <2>7. NoneTwice(r)
    <3> SUFFICES ASSUME NEW a \in Levels, NEW b \in Levels,
                        NEW i \in DOMAIN r[a], NEW j \in DOMAIN r[b],
                        r[a][i] = r[b][j]
                 PROVE  a = b /\ i = j
      BY DEF NoneTwice
    <3>1. a = b /\ pos(a, i) = pos(b, j)
      BY <2>6 DEF QueuedOnce, NoneTwice
    <3>2. i \in Int /\ j \in Int
      BY <2>1, <2>4 DEF QueueType
    <3> QED BY <3>1, <3>2
  <2>8. Queued(q, d)
    BY <2>1, <2>3 DEF Queued
  <2>9. ASSUME NEW u \in Tasks
        PROVE  Queued(r, u) <=> Queued(q, u) /\ u # d
    <3>1. ASSUME Queued(r, u) PROVE Queued(q, u) /\ u # d
      <4>1. PICK m \in Levels : \E i \in DOMAIN r[m] : r[m][i] = u
        BY <3>1 DEF Queued
      <4>11. PICK i \in DOMAIN r[m] : r[m][i] = u
        BY <4>1
      <4>2. pos(m, i) \in DOMAIN q[m] /\ q[m][pos(m, i)] = u
        BY <2>6, <4>11
      <4>3. ~ (m = l /\ pos(m, i) = 1)
        BY <2>5, <4>11
      <4>4. 1 \in DOMAIN q[l] /\ q[l][1] = d
        BY <2>3
      <4>5. u # d
        BY <2>1, <4>2, <4>3, <4>4 DEF QueuedOnce, NoneTwice
      <4> QED BY <4>2, <4>5 DEF Queued
    <3>2. ASSUME Queued(q, u), u # d PROVE Queued(r, u)
      <4>1. PICK m \in Levels : \E i \in DOMAIN q[m] : q[m][i] = u
        BY <3>2 DEF Queued
      <4>11. PICK i \in DOMAIN q[m] : q[m][i] = u
        BY <4>1
      <4>2. CASE m # l
        BY <2>5, <4>11, <4>2 DEF Queued
      <4>3. CASE m = l
        <5>1. i - 1 \in DOMAIN r[l] /\ r[l][i - 1] = u
          BY <2>3, <2>5, <3>2, <4>11, <4>3
        <5> QED BY <2>1, <5>1 DEF Queued
      <4> QED BY <4>2, <4>3
    <3> QED BY <3>1, <3>2
  <2>10. d # NULL
    BY <2>3 DEF Tasks, NULL
  <2> QED BY <2>3, <2>4, <2>7, <2>8, <2>9, <2>10 DEF l, r, d
<1> QED BY <1>1, <1>2
-----------------------------------------------------------------------------
\* The task black_schedule_force selects is a queued one, or the idle task
\* when none is queued.
LEMMA SelectedIsReady ==
  ASSUME IInv, Selected # NULL
  PROVE  /\ Selected \in Tasks
         /\ Selected # current
         /\ Selected # Dequeued => Selected = Idle /\ state[Idle] = "RUNNING"
         /\ Selected = Dequeued => state[Selected] = "READY"
<1> USE SchedulerAssumption
<1>1. Idle \in Tasks /\ Idle # NULL
  BY DEF Idle, Tasks, NULL
<1>2. CASE Dequeued # NULL
  <2>1. Selected = Dequeued
    BY <1>2 DEF Selected
  <2>2. Selected \in Tasks /\ Queued(queue, Selected)
    BY <1>2, <2>1, DequeueRemoves DEF IInv
  <2>3. state[Selected] = "READY"
    BY <2>2 DEF IInv, ReadyIffQueued
  <2> QED BY <2>1, <2>2, <2>3 DEF IInv, RunningTask
<1>3. CASE Dequeued = NULL
  <2>1. Selected = Idle /\ current # Idle
    BY <1>3 DEF Selected
  <2>2. ~ Queued(queue, Idle)
    BY <1>1, <1>3, DequeueRemoves DEF IInv
  <2>3. state[Idle] = "RUNNING"
    BY <1>1, <2>2 DEF IInv, ReadyIffQueued, RunningTask
  <2> QED BY <1>1, <1>3, <2>1, <2>3
<1> QED BY <1>2, <1>3

\* black_schedule_force keeps the invariant when its caller has only
\* parked the running task: BLOCKED, SLEEPING, ZOMBIE or left as it was.
LEMMA ScheduleForcePreserves ==
  ASSUME IInv,
         NEW s \in {"RUNNING", "BLOCKED", "SLEEPING", "ZOMBIE"},
         NEW us \in [Tasks -> 0 .. USED_CAP],
         current = Idle => s = "RUNNING",
         ScheduleForce([state EXCEPT ![current] = s], us)
  PROVE  IInv'
<1> DEFINE st == [state EXCEPT ![current] = s]
<1> USE SchedulerAssumption
<1>1. /\ TypeOK /\ ReadyIffQueued /\ QueuedOnce /\ OnlyCurrentRuns /\ RunningTask
      /\ current \in Tasks /\ Idle \in Tasks
  <2>1. TypeOK /\ ReadyIffQueued /\ QueuedOnce /\ OnlyCurrentRuns /\ RunningTask
    BY DEF IInv
  <2>2. current \in Tasks
    BY <2>1 DEF TypeOK
  <2>3. Idle \in Tasks
    BY DEF Idle, Tasks
  <2> QED BY <2>1, <2>2, <2>3
<1>2. /\ st \in [Tasks -> States] /\ st[current] = s
      /\ \A t \in Tasks : t # current => st[t] = state[t]
  BY <1>1 DEF TypeOK, States
<1>3. enabled' \in BOOLEAN /\ halted' \in BOOLEAN
  BY <1>1 DEF ScheduleForce, TypeOK
<1>4. ~ Queued(queue, current)
  BY <1>1 DEF ReadyIffQueued, RunningTask
<1>q. /\ QueueAfterDequeue \in QueueType /\ NoneTwice(QueueAfterDequeue)
      /\ Dequeued = NULL => \A u \in Tasks : ~ Queued(queue, u)
      /\ \A u \in Tasks :
           Queued(QueueAfterDequeue, u) <=> Queued(queue, u) /\ u # Dequeued
  BY <1>1, DequeueRemoves
<1> HIDE DEF st
<1>5. CASE Stay(st, us)
  <2>1. Selected = NULL
    BY <1>5, SelectedIsReady DEF Stay
  <2>2. current = Idle /\ Dequeued = NULL
    BY <1>1, <2>1 DEF Selected, Idle, NULL
  <2>3. s = "RUNNING" /\ state[current] = "RUNNING"
    BY <1>1, <2>2 DEF RunningTask
  <2>4. \A t \in Tasks : st[t] = state[t]
    BY <1>1, <1>2, <2>3
  <2>5. /\ state' = st /\ used' = us /\ queue' = QueueAfterDequeue
        /\ level' = level /\ slice' = slice /\ current' = current
    BY <1>5 DEF Stay
  <2>6. TypeOK'
    BY <1>1, <1>2, <1>3, <1>q, <2>5 DEF TypeOK, QueueType
  <2>7. \A u \in Tasks : Queued(queue', u) <=> Queued(queue, u)
    BY <1>q, <2>2, <2>5
  <2>8. ReadyIffQueued'
    BY <1>1, <2>4, <2>5, <2>7 DEF ReadyIffQueued
  <2>9. QueuedOnce'
    BY <1>q, <2>5 DEF QueuedOnce
  <2>10. OnlyCurrentRuns' /\ RunningTask'
    BY <1>1, <2>4, <2>5 DEF OnlyCurrentRuns, RunningTask
  <2> QED BY <2>6, <2>8, <2>9, <2>10 DEF IInv
<1>6. CASE st[current] # "RUNNING" \/ current = Idle
  <2>1. CASE SwitchAway(st, us)
    <3>1. /\ current' = Selected /\ state' = [st EXCEPT ![Selected] = "RUNNING"]
          /\ queue' = QueueAfterDequeue /\ used' = us
          /\ level' = level /\ slice' = slice /\ Selected # NULL
      BY <2>1 DEF SwitchAway
    <3>2. /\ Selected \in Tasks /\ Selected # current
          /\ Selected # Dequeued => Selected = Idle /\ state[Idle] = "RUNNING"
          /\ Selected = Dequeued => state[Selected] = "READY"
      BY <3>1, SelectedIsReady
    <3>3. /\ state'[Selected] = "RUNNING" /\ state'[current] = s
          /\ \A t \in Tasks \ {current, Selected} : state'[t] = state[t]
      BY <1>1, <1>2, <3>1, <3>2
    <3>4. TypeOK'
      BY <1>1, <1>2, <1>3, <1>q, <3>1, <3>2 DEF TypeOK, QueueType, States
    <3>5. \A u \in Tasks : Queued(queue', u) <=> Queued(queue, u) /\ u # Selected
      <4>1. CASE Selected = Dequeued
        BY <1>q, <3>1, <4>1
      <4>2. CASE Selected # Dequeued
        BY <1>1, <1>q, <3>1, <3>2, <4>2 DEF ReadyIffQueued, Selected
      <4> QED BY <4>1, <4>2
    <3>6. ReadyIffQueued'
      BY <1>1, <1>4, <3>2, <3>3, <3>5 DEF ReadyIffQueued
    <3>7. QueuedOnce'
      BY <1>q, <3>1 DEF QueuedOnce
    <3>8. OnlyCurrentRuns'
      BY <1>1, <1>2, <1>6, <3>1, <3>3 DEF OnlyCurrentRuns
    <3>9. RunningTask'
      BY <1>1, <3>1, <3>2, <3>3 DEF RunningTask
    <3> QED BY <3>4, <3>6, <3>7, <3>8, <3>9 DEF IInv
  <2> QED BY <1>5, <1>6, <2>1 DEF ScheduleForce, st
<1>7. CASE st[current] = "RUNNING" /\ current # Idle
  <2>1. CASE Requeue(st, us)
    <3> DEFINE expired == us[current] >= slice[current]
               l == IF expired THEN Demoted(level[current]) ELSE level[current]
    <3>1. /\ current' = Selected /\ Selected # NULL /\ Selected # current
          /\ state' = [st EXCEPT ![current] = "READY", ![Selected] = "RUNNING"]
          /\ queue' = Enqueue(QueueAfterDequeue, current, l)
          /\ level' = [level EXCEPT ![current] = l]
          /\ slice' = [slice EXCEPT ![current] = IF expired THEN SliceOf(l) ELSE @]
          /\ used' = [us EXCEPT ![current] = IF expired THEN 0 ELSE @]
      BY <2>1 DEF Requeue
    <3>2. l \in Levels
      <4>1. level[current] \in Levels
        BY <1>1 DEF TypeOK
      <4>2. Demoted(level[current]) \in Levels
        BY <4>1 DEF Levels, Demoted
      <4> QED BY <4>1, <4>2
    <3>3. SliceOf(l) \in 0 .. USED_CAP
      BY <3>2
    <3>4. level' \in [Tasks -> Levels]
      BY <1>1, <3>1, <3>2 DEF TypeOK
    <3>5. slice' \in [Tasks -> 0 .. USED_CAP]
      BY <1>1, <3>1, <3>3 DEF TypeOK
    <3>6. used' \in [Tasks -> 0 .. USED_CAP]
      BY <1>1, <3>1
    <3> HIDE DEF l, expired
    <3>7. /\ Selected \in Tasks /\ Selected # current
          /\ Selected # Dequeued => Selected = Idle /\ state[Idle] = "RUNNING"
          /\ Selected = Dequeued => state[Selected] = "READY"
      BY <3>1, SelectedIsReady
    <3>8. ~ Queued(QueueAfterDequeue, current)
      BY <1>1, <1>4, <1>q
    <3>9. /\ queue' \in QueueType /\ NoneTwice(queue')
          /\ \A u \in Tasks : Queued(queue', u) <=>
                               Queued(QueueAfterDequeue, u) \/ u = current
      BY <1>1, <1>q, <3>1, <3>2, <3>8, EnqueueAdds
    <3>10. /\ state' \in [Tasks -> States]
           /\ state'[Selected] = "RUNNING" /\ state'[current] = "READY"
           /\ \A t \in Tasks \ {current, Selected} : state'[t] = state[t]
      BY <1>1, <1>2, <3>1, <3>7 DEF States
    <3>11. TypeOK'
      BY <1>3, <3>1, <3>4, <3>5, <3>6, <3>7, <3>9, <3>10 DEF TypeOK, QueueType
    <3>12. \A u \in Tasks : Queued(queue', u) <=>
                 (Queued(queue, u) /\ u # Selected) \/ u = current
      <4>1. CASE Selected = Dequeued
        BY <1>q, <3>9, <4>1
      <4>2. CASE Selected # Dequeued
        BY <1>1, <1>q, <3>7, <3>9, <4>2 DEF ReadyIffQueued, Selected
      <4> QED BY <4>1, <4>2
    <3>13. ReadyIffQueued'
      BY <1>1, <3>7, <3>10, <3>12 DEF ReadyIffQueued
    <3>14. QueuedOnce'
      BY <3>9 DEF QueuedOnce
    <3>15. OnlyCurrentRuns'
      BY <1>1, <3>1, <3>10 DEF OnlyCurrentRuns
    <3>16. RunningTask'
      BY <1>1, <1>7, <3>1, <3>7, <3>10 DEF RunningTask
    <3> QED BY <3>11, <3>13, <3>14, <3>15, <3>16 DEF IInv
  <2> QED BY <1>5, <1>7, <2>1 DEF ScheduleForce, st
<1> QED BY <1>6, <1>7
-----------------------------------------------------------------------------
\* black_scheduler_init establishes the invariant.
LEMMA InitEstablishes == Init => IInv
<1> SUFFICES ASSUME Init PROVE IInv
  OBVIOUS
<1> USE SchedulerAssumption
<1>1. Kernel \in Tasks /\ Idle \in Tasks /\ Kernel # Idle /\ 0 \in Levels
  BY DEF Kernel, Idle, Tasks, Levels
<1>2. /\ DOMAIN queue[0] = {1} /\ queue[0][1] = Idle /\ queue[0] \in Seq(Tasks)
      /\ \A l \in Levels \ {0} : queue[l] = <<>> /\ DOMAIN queue[l] = {}
  BY <1>1 DEF Init
<1>3. TypeOK
  <2>1. TIMESLICE_BASE \in 0 .. USED_CAP /\ KERNEL_SLICE \in 0 .. USED_CAP
    BY <1>1
  <2>2. level \in [Tasks -> Levels]
    BY <1>1 DEF Init, Levels
  <2>3. state \in [Tasks -> States]
    BY DEF Init, States
  <2>4. slice \in [Tasks -> 0 .. USED_CAP] /\ used \in [Tasks -> 0 .. USED_CAP]
    BY <2>1 DEF Init
  <2>5. queue \in [Levels -> Seq(Tasks)]
    BY <1>1 DEF Init
  <2> QED BY <1>1, <2>2, <2>3, <2>4, <2>5 DEF TypeOK, Init
<1>4. \A t \in Tasks : Queued(queue, t) <=> t = Idle
  BY <1>1, <1>2 DEF Queued
<1>5. ReadyIffQueued
  BY <1>1, <1>4 DEF ReadyIffQueued, Init
<1>6. QueuedOnce
  BY <1>2 DEF QueuedOnce, NoneTwice
<1>7. OnlyCurrentRuns /\ RunningTask
  BY <1>1 DEF OnlyCurrentRuns, RunningTask, Init
<1> QED BY <1>3, <1>5, <1>6, <1>7 DEF IInv

\* A task that is neither queued nor running becomes READY in the step that
\* queues it: the common part of create, unblock and enqueue_cpu.
LEMMA MakeReadyPreserves ==
  ASSUME IInv, TypeOK',
         NEW t \in Tasks, NEW l \in Levels,
         t # current, t # Idle, state[t] # "READY",
         state' = [state EXCEPT ![t] = "READY"],
         queue' = Enqueue(queue, t, l),
         current' = current
  PROVE  IInv'
<1>1. TypeOK /\ ReadyIffQueued /\ QueuedOnce /\ OnlyCurrentRuns /\ RunningTask
  BY DEF IInv
<1>2. queue \in QueueType /\ NoneTwice(queue) /\ ~ Queued(queue, t)
  BY <1>1 DEF TypeOK, QueueType, QueuedOnce, ReadyIffQueued
<1>3. NoneTwice(queue') /\ \A u \in Tasks : Queued(queue', u) <=> Queued(queue, u) \/ u = t
  BY <1>2, EnqueueAdds
<1>4. state'[t] = "READY" /\ \A u : u # t => state'[u] = state[u]
  BY <1>1 DEF TypeOK
<1>5. ReadyIffQueued'
  BY <1>1, <1>3, <1>4 DEF ReadyIffQueued
<1>6. QueuedOnce'
  BY <1>3 DEF QueuedOnce
<1>7. OnlyCurrentRuns'
  BY <1>1, <1>4 DEF OnlyCurrentRuns
<1>8. RunningTask'
  BY <1>1, <1>4 DEF RunningTask
<1> QED BY <1>5, <1>6, <1>7, <1>8 DEF IInv

\* Every entry point of the scheduler preserves the invariant.
LEMMA NextPreserves == IInv /\ [Next]_vars => IInv'
<1> SUFFICES ASSUME IInv, [Next]_vars PROVE IInv'
  OBVIOUS
<1> USE SchedulerAssumption
<1>1. TypeOK /\ ReadyIffQueued /\ QueuedOnce /\ OnlyCurrentRuns /\ RunningTask
  BY DEF IInv
<1>2. /\ current \in Tasks /\ Idle \in Tasks /\ 0 \in Levels
      /\ TIMESLICE_BASE \in 0 .. USED_CAP
  <2>1. Idle \in Tasks /\ 0 \in Levels
    BY DEF Idle, Tasks, Levels
  <2> QED BY <1>1, <2>1 DEF TypeOK
<1>3. /\ used \in [Tasks -> 0 .. USED_CAP]
      /\ state = [state EXCEPT ![current] = state[current]]
      /\ state[current] \in {"RUNNING", "BLOCKED", "SLEEPING", "ZOMBIE"}
      /\ current = Idle => state[current] = "RUNNING"
  BY <1>1 DEF TypeOK, RunningTask
<1>4. CASE Schedule
  <2>1. ScheduleForce([state EXCEPT ![current] = state[current]], used)
    BY <1>3, <1>4 DEF Schedule
  <2> QED BY <1>3, <2>1, ScheduleForcePreserves
<1>5. CASE Tick
  <2> DEFINE us == [used EXCEPT ![current] = IF @ < USED_CAP THEN @ + 1 ELSE @]
  <2>1. us \in [Tasks -> 0 .. USED_CAP]
    BY <1>2, <1>3
  <2> HIDE DEF us
  <2>2. CASE ScheduleForce(state, us)
    <3>1. ScheduleForce([state EXCEPT ![current] = state[current]], us)
      BY <1>3, <2>2
    <3> QED BY <1>3, <2>1, <3>1, ScheduleForcePreserves
  <2>3. CASE /\ used' = us
             /\ UNCHANGED <<state, level, slice, queue, current, enabled, halted>>
    <3>1. TypeOK'
      BY <1>1, <2>1, <2>3 DEF TypeOK
    <3>2. ReadyIffQueued' /\ QueuedOnce' /\ OnlyCurrentRuns' /\ RunningTask'
      BY <1>1, <2>3 DEF ReadyIffQueued, QueuedOnce, OnlyCurrentRuns, RunningTask
    <3> QED BY <3>1, <3>2 DEF IInv
  <2> QED BY <1>5, <2>2, <2>3 DEF Tick, us
<1>6. CASE TaskBlock
  BY <1>3, <1>6, ScheduleForcePreserves DEF TaskBlock, Calls
<1>7. CASE TaskSleep
  <2>1. CASE enabled /\ ScheduleForce([state EXCEPT ![current] = "SLEEPING"], used)
    BY <1>3, <1>7, <2>1, ScheduleForcePreserves DEF TaskSleep, Calls
  <2>2. CASE /\ ~ enabled /\ state' = [state EXCEPT ![current] = "SLEEPING"]
             /\ UNCHANGED <<level, slice, used, queue, current, enabled, halted>>
    <3>1. current # Idle
      BY <1>7 DEF TaskSleep, Calls
    <3>2. /\ state'[current] = "SLEEPING" /\ state' \in [Tasks -> States]
          /\ \A t \in Tasks : t # current => state'[t] = state[t]
      BY <1>1, <1>2, <2>2 DEF TypeOK, States
    <3>3. TypeOK'
      BY <1>1, <2>2, <3>2 DEF TypeOK
    <3>4. ReadyIffQueued'
      BY <1>1, <1>2, <2>2, <3>2 DEF ReadyIffQueued, RunningTask
    <3>5. QueuedOnce' /\ OnlyCurrentRuns' /\ RunningTask'
      BY <1>1, <1>2, <2>2, <3>1, <3>2 DEF QueuedOnce, OnlyCurrentRuns, RunningTask
    <3> QED BY <3>3, <3>4, <3>5 DEF IInv
  <2> QED BY <1>7, <2>1, <2>2 DEF TaskSleep
<1>8. CASE TaskExit
  <2>1. CASE ScheduleForce([state EXCEPT ![current] = "ZOMBIE"], used)
    BY <1>3, <1>8, <2>1, ScheduleForcePreserves DEF TaskExit, Calls
  <2>2. CASE /\ halted' = TRUE
             /\ UNCHANGED <<state, level, slice, used, queue, current, enabled>>
    BY <1>1, <2>2
    DEF IInv, TypeOK, ReadyIffQueued, QueuedOnce, OnlyCurrentRuns, RunningTask
  <2> QED BY <1>8, <2>1, <2>2 DEF TaskExit
<1>9. CASE \E t \in Tasks : TaskCreate(t) \/ TaskUnblock(t)
  <2>1. PICK t \in Tasks : TaskCreate(t) \/ TaskUnblock(t)
    BY <1>9
  <2>2. /\ state[t] \in {"UNUSED", "BLOCKED"}
        /\ state' = [state EXCEPT ![t] = "READY"]
        /\ level' = [level EXCEPT ![t] = 0]
        /\ slice' = [slice EXCEPT ![t] = TIMESLICE_BASE]
        /\ used' = [used EXCEPT ![t] = 0]
        /\ queue' = Enqueue(queue, t, 0)
        /\ UNCHANGED <<current, enabled, halted>>
    BY <2>1 DEF TaskCreate, TaskUnblock, MakeReady
  <2>3. t # current /\ t # Idle /\ state[t] # "READY"
    BY <1>1, <2>2 DEF RunningTask
  <2>4. TypeOK'
    <3>1. state' \in [Tasks -> States] /\ level' \in [Tasks -> Levels]
      BY <1>1, <1>2, <2>2 DEF TypeOK, States
    <3>2. slice' \in [Tasks -> 0 .. USED_CAP] /\ used' \in [Tasks -> 0 .. USED_CAP]
      BY <1>1, <1>2, <2>2 DEF TypeOK
    <3>3. queue' \in [Levels -> Seq(Tasks)]
      BY <1>1, <1>2, <2>2 DEF TypeOK, Enqueue
    <3> QED BY <1>1, <2>2, <3>1, <3>2, <3>3 DEF TypeOK
  <2> QED BY <1>2, <2>2, <2>3, <2>4, MakeReadyPreserves
<1>10. CASE \E t \in Tasks : EnqueueCpu(t)
  <2>1. PICK t \in Tasks : EnqueueCpu(t)
    BY <1>10
  <2>2. t # current /\ t # Idle /\ state[t] # "READY" /\ level[t] \in Levels
    BY <1>1, <2>1 DEF EnqueueCpu, RunningTask, TypeOK
  <2>3. TypeOK'
    BY <1>1, <2>1, <2>2 DEF EnqueueCpu, TypeOK, States, Enqueue
  <2> QED BY <2>1, <2>2, <2>3, MakeReadyPreserves DEF EnqueueCpu
<1>11. CASE \E b \in BOOLEAN : SchedulerEnable(b)
  BY <1>1, <1>11 DEF SchedulerEnable, IInv, TypeOK, ReadyIffQueued, QueuedOnce,
                     OnlyCurrentRuns, RunningTask
<1>12. CASE UNCHANGED vars
  BY <1>1, <1>12 DEF vars, IInv, TypeOK, ReadyIffQueued, QueuedOnce,
                     OnlyCurrentRuns, RunningTask
<1> QED BY <1>4, <1>5, <1>6, <1>7, <1>8, <1>9, <1>10, <1>11, <1>12 DEF Next

\* IInv holds in every reachable state.
THEOREM Invariance == Spec => []IInv
BY InitEstablishes, NextPreserves, PTL DEF Spec

\* Every reachable state of the scheduler is well typed.
THEOREM TypeCorrect == Spec => []TypeOK
<1>1. IInv => TypeOK
  BY DEF IInv
<1> QED BY <1>1, Invariance, PTL

\* No task is lost and none is queued by mistake, whatever sequence of
\* create, schedule, tick, block, unblock, sleep and exit calls is made.
THEOREM NoTaskLost == Spec => []ReadyIffQueued
<1>1. IInv => ReadyIffQueued
  BY DEF IInv
<1> QED BY <1>1, Invariance, PTL

\* The ready lists never share or repeat a task.
THEOREM NeverQueuedTwice == Spec => []QueuedOnce
<1>1. IInv => QueuedOnce
  BY DEF IInv
<1> QED BY <1>1, Invariance, PTL

\* Only the running task, and the idle task, are marked RUNNING.
THEOREM OneRuns == Spec => []OnlyCurrentRuns
<1>1. IInv => OnlyCurrentRuns
  BY DEF IInv
<1> QED BY <1>1, Invariance, PTL
-----------------------------------------------------------------------------
\* A step of the scheduler never takes a task out of state ZOMBIE, and never
\* gives it the CPU.
ZombieStays ==
  \A t \in Tasks : state[t] = "ZOMBIE" =>
    state'[t] = "ZOMBIE" /\ (t = current' => t = current)

\* black_schedule_force selects a READY task or the idle task, and the task
\* it leaves is no zombie yet when its caller is entered.
LEMMA ScheduleForceKeepsZombies ==
  ASSUME IInv, NEW s, NEW us,
         ScheduleForce([state EXCEPT ![current] = s], us)
  PROVE  ZombieStays
<1> DEFINE st == [state EXCEPT ![current] = s]
<1> SUFFICES ASSUME NEW t \in Tasks, state[t] = "ZOMBIE"
             PROVE  state'[t] = "ZOMBIE" /\ (t = current' => t = current)
  BY DEF ZombieStays
<1>1. TypeOK /\ RunningTask
  BY DEF IInv
<1>2. t # current /\ st[t] = "ZOMBIE" /\ DOMAIN st = Tasks
  BY <1>1 DEF TypeOK, RunningTask
<1>3. Selected # NULL => Selected # t
  BY <1>1, SelectedIsReady DEF RunningTask
<1> HIDE DEF st
<1>4. CASE Stay(st, us)
  BY <1>2, <1>4 DEF Stay
<1>5. CASE SwitchAway(st, us)
  BY <1>2, <1>3, <1>5 DEF SwitchAway
<1>6. CASE Requeue(st, us)
  BY <1>2, <1>3, <1>6 DEF Requeue
<1> QED BY <1>4, <1>5, <1>6 DEF ScheduleForce, st

\* An exited task stays a zombie for ever: no call, tick or wakeup of the
\* scheduler's own interface brings it back.
THEOREM ExitedStaysExited == Spec => NoResurrection
<1>1. ASSUME IInv, [Next]_vars PROVE ZombieStays \/ UNCHANGED vars
  <2>1. TypeOK /\ RunningTask /\ state = [state EXCEPT ![current] = state[current]]
    BY <1>1 DEF IInv, TypeOK
  <2>2. CASE \E us : ScheduleForce(state, us)
    BY <1>1, <2>1, <2>2, ScheduleForceKeepsZombies
  <2>3. CASE Schedule
    BY <2>2, <2>3 DEF Schedule
  <2>4. CASE Tick
    BY <2>2, <2>4 DEF Tick, ZombieStays
  <2>5. CASE TaskBlock
    BY <1>1, <2>5, ScheduleForceKeepsZombies DEF TaskBlock
  <2>6. CASE TaskSleep
    <3>1. CASE ScheduleForce([state EXCEPT ![current] = "SLEEPING"], used)
      BY <1>1, <3>1, ScheduleForceKeepsZombies
    <3>2. CASE /\ state' = [state EXCEPT ![current] = "SLEEPING"]
               /\ current' = current
      BY <2>1, <3>2 DEF ZombieStays, TypeOK, RunningTask
    <3> QED BY <2>6, <3>1, <3>2 DEF TaskSleep
  <2>7. CASE TaskExit
    <3>1. CASE ScheduleForce([state EXCEPT ![current] = "ZOMBIE"], used)
      BY <1>1, <3>1, ScheduleForceKeepsZombies
    <3>2. CASE UNCHANGED <<state, current>>
      BY <3>2 DEF ZombieStays
    <3> QED BY <2>7, <3>1, <3>2 DEF TaskExit
  <2>8. CASE \E t \in Tasks : TaskCreate(t) \/ TaskUnblock(t) \/ EnqueueCpu(t)
    BY <2>1, <2>8 DEF TaskCreate, TaskUnblock, MakeReady, EnqueueCpu, ZombieStays, TypeOK
  <2>9. CASE \E b \in BOOLEAN : SchedulerEnable(b)
    BY <2>9 DEF SchedulerEnable, ZombieStays
  <2> QED BY <1>1, <2>3, <2>4, <2>5, <2>6, <2>7, <2>8, <2>9 DEF Next
<1>2. NoResurrection <=> [][ZombieStays]_vars
  BY DEF NoResurrection, ZombieStays
<1> QED BY <1>1, <1>2, Invariance, PTL DEF Spec
-----------------------------------------------------------------------------
\* A slot that was never used is still at the top level, where
\* black_task_create puts its task: creation changes no level.
UnusedAtTop == \A t \in Tasks : state[t] = "UNUSED" => level[t] = 0

\* What a step may do to the levels: the action of LevelDiscipline.
LevelStep ==
  \A t \in Tasks : level'[t] # level[t] =>
    \/ /\ level'[t] = level[t] + 1 /\ used'[t] = 0
       /\ t = current /\ t # current' /\ used[t] + 1 >= slice[t]
    \/ level'[t] = 0 /\ state[t] = "BLOCKED" /\ state'[t] = "READY"

\* black_schedule_force changes the level of the task it requeues and of no
\* other: one down, with its slice used up.  It leaves unused slots alone.
LEMMA ScheduleForceLevels ==
  ASSUME IInv, UnusedAtTop,
         NEW s \in States \ {"UNUSED"}, NEW us \in [Tasks -> 0 .. USED_CAP],
         us[current] <= used[current] + 1,
         ScheduleForce([state EXCEPT ![current] = s], us)
  PROVE  LevelStep /\ UnusedAtTop'
<1> DEFINE st == [state EXCEPT ![current] = s]
<1> USE SchedulerAssumption
<1>1. TypeOK /\ current \in Tasks
  BY DEF IInv, TypeOK
<1>2. \A t \in Tasks : st[t] = "UNUSED" => state[t] = "UNUSED" /\ level[t] = 0
  BY <1>1 DEF TypeOK, UnusedAtTop
<1>3. DOMAIN st = Tasks
  BY <1>1 DEF TypeOK
<1> HIDE DEF st
<1>4. CASE Stay(st, us)
  BY <1>2, <1>4 DEF Stay, LevelStep, UnusedAtTop
<1>5. CASE SwitchAway(st, us)
  BY <1>2, <1>3, <1>5 DEF SwitchAway, LevelStep, UnusedAtTop
<1>6. CASE Requeue(st, us)
  <2> DEFINE expired == us[current] >= slice[current]
             l == IF expired THEN Demoted(level[current]) ELSE level[current]
  <2>1. /\ current' = Selected /\ Selected # current
        /\ state' = [st EXCEPT ![current] = "READY", ![Selected] = "RUNNING"]
        /\ level' = [level EXCEPT ![current] = l]
        /\ used' = [us EXCEPT ![current] = IF expired THEN 0 ELSE @]
    BY <1>6 DEF Requeue
  <2>2. \A t \in Tasks : t # current => level'[t] = level[t]
    BY <1>1, <2>1 DEF TypeOK
  <2>3. level'[current] = l /\ (expired => used'[current] = 0)
    BY <1>1, <2>1 DEF TypeOK
  <2>4. expired => used[current] + 1 >= slice[current]
    BY <1>1 DEF TypeOK
  <2>5. l # level[current] => expired /\ l = level[current] + 1
    BY <1>1 DEF Demoted
  <2>6. LevelStep
    BY <2>1, <2>2, <2>3, <2>4, <2>5 DEF LevelStep
  <2>7. state'[current] # "UNUSED"
    BY <1>1, <1>3, <2>1
  <2>8. \A t \in Tasks : t # current /\ state'[t] = "UNUSED" => st[t] = "UNUSED"
    BY <1>3, <2>1
  <2> QED BY <1>2, <2>2, <2>6, <2>7, <2>8 DEF UnusedAtTop
<1> QED BY <1>4, <1>5, <1>6 DEF ScheduleForce, st

\* Every entry point respects the levels.
LEMMA NextLevels ==
  IInv /\ UnusedAtTop /\ [Next]_vars => (LevelStep \/ UNCHANGED vars) /\ UnusedAtTop'
<1> SUFFICES ASSUME IInv, UnusedAtTop, [Next]_vars
             PROVE  (LevelStep \/ UNCHANGED vars) /\ UnusedAtTop'
  OBVIOUS
<1> USE SchedulerAssumption
<1>1. /\ TypeOK /\ current \in Tasks /\ used \in [Tasks -> 0 .. USED_CAP]
      /\ used[current] <= used[current] + 1
  BY DEF IInv, TypeOK
<1>2. /\ state = [state EXCEPT ![current] = state[current]]
      /\ state[current] \in States \ {"UNUSED"}
      /\ {"BLOCKED", "SLEEPING", "ZOMBIE"} \subseteq States \ {"UNUSED"}
  BY <1>1 DEF IInv, TypeOK, RunningTask, States
<1>3. CASE Schedule
  BY <1>1, <1>2, <1>3, ScheduleForceLevels DEF Schedule
<1>4. CASE Tick
  <2> DEFINE us == [used EXCEPT ![current] = IF @ < USED_CAP THEN @ + 1 ELSE @]
  <2>1. us \in [Tasks -> 0 .. USED_CAP] /\ us[current] <= used[current] + 1
    BY <1>1
  <2> HIDE DEF us
  <2>2. CASE ScheduleForce(state, us)
    BY <1>2, <2>1, <2>2, ScheduleForceLevels
  <2>3. CASE UNCHANGED <<state, level>>
    BY <2>3 DEF LevelStep, UnusedAtTop
  <2> QED BY <1>4, <2>2, <2>3 DEF Tick, us
<1>5. CASE TaskBlock
  BY <1>1, <1>2, <1>5, ScheduleForceLevels DEF TaskBlock
<1>6. CASE TaskSleep
  <2>1. CASE ScheduleForce([state EXCEPT ![current] = "SLEEPING"], used)
    BY <1>1, <1>2, <2>1, ScheduleForceLevels
  <2>2. CASE state' = [state EXCEPT ![current] = "SLEEPING"] /\ UNCHANGED level
    BY <1>1, <2>2 DEF LevelStep, UnusedAtTop, TypeOK
  <2> QED BY <1>6, <2>1, <2>2 DEF TaskSleep
<1>7. CASE TaskExit
  <2>1. CASE ScheduleForce([state EXCEPT ![current] = "ZOMBIE"], used)
    BY <1>1, <1>2, <2>1, ScheduleForceLevels
  <2>2. CASE UNCHANGED <<state, level>>
    BY <2>2 DEF LevelStep, UnusedAtTop
  <2> QED BY <1>7, <2>1, <2>2 DEF TaskExit
<1>8. CASE \E t \in Tasks : TaskCreate(t) \/ TaskUnblock(t)
  <2>1. PICK t \in Tasks : TaskCreate(t) \/ TaskUnblock(t)
    BY <1>8
  <2>2. /\ state[t] \in {"UNUSED", "BLOCKED"}
        /\ state' = [state EXCEPT ![t] = "READY"]
        /\ level' = [level EXCEPT ![t] = 0]
    BY <2>1 DEF TaskCreate, TaskUnblock, MakeReady
  <2> QED BY <1>1, <2>2 DEF LevelStep, UnusedAtTop, TypeOK
<1>9. CASE \E t \in Tasks : EnqueueCpu(t)
  BY <1>1, <1>9 DEF EnqueueCpu, LevelStep, UnusedAtTop, TypeOK
<1>10. CASE \E b \in BOOLEAN : SchedulerEnable(b)
  BY <1>10 DEF SchedulerEnable, LevelStep, UnusedAtTop
<1>11. CASE UNCHANGED vars
  BY <1>11 DEF vars, UnusedAtTop
<1> QED BY <1>3, <1>4, <1>5, <1>6, <1>7, <1>8, <1>9, <1>10, <1>11 DEF Next

\* The feedback queue keeps its rules whatever is called in whatever order: a
\* task sinks only by using up its slice and rises only by being unblocked.
THEOREM LevelsFollowTheRules == Spec => LevelDiscipline
<1>1. Init => UnusedAtTop
  BY SchedulerAssumption DEF Init, UnusedAtTop
<1>2. LevelDiscipline <=> [][LevelStep]_vars
  BY DEF LevelDiscipline, LevelStep
<1> QED BY <1>1, <1>2, NextLevels, Invariance, PTL DEF Spec
=============================================================================
