------------------------------- MODULE MCSync -------------------------------
(***************************************************************************)
(* The synchronization primitives of kernel/sync for TLC.  They share no   *)
(* state, so each behaviour exercises the one that part names and leaves   *)
(* the others in their initial states.                                     *)
(***************************************************************************)
EXTENDS Spinlock

CONSTANTS
  MutexProcs, SleepProcs, Readers, Writers,
  INITIAL, MAX_SIGNALS

VARIABLES
  part,  \* the primitive that is exercised
  mx_locked, mx_pc,
  rw_readers, rw_writer, rw_pc,
  sm_count, sm_old, sm_pc, sm_given, sm_taken,
  wq_count, wq_asleep, wq_woken

mx == <<mx_locked, mx_pc>>
rw == <<rw_readers, rw_writer, rw_pc>>
sm == <<sm_count, sm_old, sm_pc, sm_given, sm_taken>>
wq == <<wq_count, wq_asleep, wq_woken>>

Bw == INSTANCE BusyWait WITH
        locked <- mx_locked, pc <- mx_pc,
        count <- wq_count, asleep <- wq_asleep, woken <- wq_woken
Rw == INSTANCE RWLock WITH readers <- rw_readers, writer <- rw_writer, pc <- rw_pc
Sm == INSTANCE Semaphore WITH
        count <- sm_count, old <- sm_old, pc <- sm_pc, given <- sm_given, taken <- sm_taken

SyncInit ==
  /\ part \in {"spinlock", "mutex", "rwlock", "semaphore", "waitqueue", "irq"}
  /\ IrqInit /\ Bw!MutexInit /\ Rw!Init /\ Sm!Init /\ Bw!WaitInit

SyncNext ==
  /\ part' = part
  /\ \/ part = "spinlock" /\ Next /\ UNCHANGED irq
     \/ part = "irq" /\ IrqNext
     \/ part \notin {"spinlock", "irq"} /\ UNCHANGED irqvars
  /\ \/ part = "mutex" /\ Bw!MutexNext
     \/ part # "mutex" /\ UNCHANGED mx
  /\ \/ part = "rwlock" /\ Rw!Next
     \/ part # "rwlock" /\ UNCHANGED rw
  /\ \/ part = "semaphore" /\ Sm!Next
     \/ part # "semaphore" /\ UNCHANGED sm
  /\ \/ part = "waitqueue" /\ Bw!WaitNext
     \/ part # "waitqueue" /\ UNCHANGED wq

SyncVars == <<part, irqvars, mx, rw, sm, wq>>

SyncSpec ==
  /\ SyncInit /\ [][SyncNext]_SyncVars
  /\ IrqFairness /\ Sm!Fairness /\ Bw!WaitFairness
  /\ part = "spinlock" => Fairness
-----------------------------------------------------------------------------
\* Mutex: one holder at most, and black_locked says whether there is one.
\* Read-write lock: once everybody has left it is free.  Every primitive is
\* well typed.
LocksMatchHolders ==
  /\ Bw!LockedIffHeld /\ Rw!FreeWhenIdle
  /\ IrqTypeOK /\ Bw!MutexTypeOK /\ Rw!TypeOK /\ Sm!TypeOK /\ Bw!WaitTypeOK

\* Semaphore: a unit does not stay unclaimed while a process waits.  Wait
\* queue: a wake reaches the sleepers, unless a later one hides it.
WaitersAreWoken == Sm!NoUnitUnclaimed /\ Bw!WakeReachesSleepers

\* Spinlock: every process that wants the lock gets it, and an interrupt
\* handler that needs it returns to the task.
LockWaitsEnd == EveryoneGetsIn /\ HandlerReturns
=============================================================================
