------------------------------ MODULE BusyWait ------------------------------
(***************************************************************************)
(* The two primitives of kernel/sync that are a loop on one word.          *)
(***************************************************************************)
EXTENDS Integers, FiniteSets

(***************************************************************************)
(* The mutex of kernel/sync/mutex.c: a test-and-set spin on black_locked.  *)
(* black_lock and black_owner are initialised and never used.              *)
(***************************************************************************)

CONSTANT MutexProcs

VARIABLES
  locked,  \* black_locked
  pc       \* "out", "spin" or "in"

mutexvars == <<locked, pc>>

MutexInit == locked = 0 /\ pc = [p \in MutexProcs |-> "out"]

Call(p) == pc[p] = "out" /\ pc' = [pc EXCEPT ![p] = "spin"] /\ UNCHANGED locked

\* One round of black_mutex_lock's loop: black_locked is set either way.
TestAndSet(p) ==
  /\ pc[p] = "spin"
  /\ locked' = 1
  /\ pc' = [pc EXCEPT ![p] = IF locked = 0 THEN "in" ELSE "spin"]

Unlock(p) ==
  /\ pc[p] = "in"
  /\ locked' = 0
  /\ pc' = [pc EXCEPT ![p] = "out"]

MutexNext == \E p \in MutexProcs : Call(p) \/ TestAndSet(p) \/ Unlock(p)

-----------------------------------------------------------------------------
\* Only the two values the code stores.
MutexTypeOK == locked \in {0, 1} /\ pc \in [MutexProcs -> {"out", "spin", "in"}]

\* At most one process is between black_mutex_lock and black_mutex_unlock,
\* and the flag says whether one is: a spinning process that stores 1 over
\* the 1 it finds never hides a release.
LockedIffHeld ==
  /\ \A p, q \in MutexProcs : pc[p] = "in" /\ pc[q] = "in" => p = q
  /\ locked = 1 <=> \E p \in MutexProcs : pc[p] = "in"
-----------------------------------------------------------------------------
(***************************************************************************)
(* The wait queue of kernel/sync/waitqueue.c.  It is one counter: a sleeper*)
(* adds one and spins while the counter is positive, a waker stores zero.  *)
(***************************************************************************)

CONSTANT SleepProcs

VARIABLES
  count,    \* black_count
  asleep,   \* the processes in the loop of black_waitqueue_sleep
  woken     \* those of them that a black_waitqueue_wake has found asleep

waitvars == <<count, asleep, woken>>

WaitInit == count = 0 /\ asleep = {} /\ woken = {}

Sleep(p) ==
  /\ p \notin asleep
  /\ count' = count + 1
  /\ asleep' = asleep \cup {p}
  /\ UNCHANGED woken

\* The loop of black_waitqueue_sleep ends.
Leave(p) ==
  /\ p \in asleep /\ count <= 0
  /\ asleep' = asleep \ {p}
  /\ woken' = woken \ {p}
  /\ UNCHANGED count

Wake ==
  /\ count' = 0
  /\ woken' = asleep
  /\ UNCHANGED asleep

WaitNext == Wake \/ \E p \in SleepProcs : Sleep(p) \/ Leave(p)

\* A sleeper keeps spinning.
WaitFairness == \A p \in SleepProcs : WF_waitvars(Leave(p))
-----------------------------------------------------------------------------
\* The counter never exceeds the number of processes: between two wakes each
\* process goes to sleep at most once.
WaitTypeOK ==
  /\ count \in 0 .. Cardinality(SleepProcs)
  /\ asleep \subseteq SleepProcs
  /\ woken \subseteq asleep

\* A wake reaches everybody who was asleep when it was called, unless a
\* later sleeper has raised the counter again before they look at it.
WakeReachesSleepers ==
  \A p \in SleepProcs : p \in woken ~> (p \notin woken \/ count > 0)
=============================================================================
