------------------------------ MODULE Semaphore ------------------------------
(***************************************************************************)
(* The counting semaphore of kernel/sync/semaphore.c.                      *)
(* black_semaphore_wait reads the count and takes a unit with a            *)
(* compare-and-swap on the value it read.                                  *)
(***************************************************************************)
EXTENDS Integers, FiniteSets

CONSTANTS
  Procs,
  INITIAL,      \* black_val of black_semaphore_init
  MAX_SIGNALS   \* bound: how often black_semaphore_signal is called

VARIABLES
  count,   \* black_count
  old,     \* black_old of each process
  pc,      \* "out", "read" or "swap"
  given,   \* signals so far
  taken    \* waits that have returned

vars == <<count, old, pc, given, taken>>

Init ==
  /\ count = INITIAL
  /\ old = [p \in Procs |-> 0]
  /\ pc = [p \in Procs |-> "out"]
  /\ given = 0
  /\ taken = 0

Wait(p) ==
  /\ pc[p] = "out"
  /\ pc' = [pc EXCEPT ![p] = "read"]
  /\ UNCHANGED <<count, old, given, taken>>

Read(p) ==
  /\ pc[p] = "read"
  /\ old' = [old EXCEPT ![p] = count]
  /\ pc' = [pc EXCEPT ![p] = "swap"]
  /\ UNCHANGED <<count, given, taken>>

Succeeds(p) == old[p] > 0 /\ count = old[p]

Swap(p) ==
  /\ pc[p] = "swap" /\ Succeeds(p)
  /\ count' = old[p] - 1
  /\ taken' = taken + 1
  /\ pc' = [pc EXCEPT ![p] = "out"]
  /\ UNCHANGED <<old, given>>

RetryWithoutRead(p) == pc[p] = "swap" /\ ~Succeeds(p) /\ UNCHANGED vars
Retry(p) ==
  /\ pc[p] = "swap" /\ ~Succeeds(p)
  /\ pc' = [pc EXCEPT ![p] = "read"]
  /\ UNCHANGED <<count, old, given, taken>>

Signal ==
  /\ given < MAX_SIGNALS
  /\ count' = count + 1
  /\ given' = given + 1
  /\ UNCHANGED <<old, pc, taken>>

Next ==
  \/ \E p \in Procs : Wait(p) \/ Read(p) \/ Swap(p) \/ Retry(p)
  \/ Signal

Spec == Init /\ [][Next]_vars

\* A process in black_semaphore_wait keeps running its loop.
Fairness ==
  \A p \in Procs : WF_vars(Read(p)) /\ WF_vars(Swap(p) \/ Retry(p))
-----------------------------------------------------------------------------
\* The count never goes below zero.
TypeOK ==
  /\ count \in 0 .. INITIAL + MAX_SIGNALS
  /\ old \in [Procs -> 0 .. INITIAL + MAX_SIGNALS]
  /\ pc \in [Procs -> {"out", "read", "swap"}]
  /\ given \in 0 .. MAX_SIGNALS
  /\ taken \in 0 .. INITIAL + MAX_SIGNALS

\* A unit does not stay unclaimed while a process waits: a signal is never
\* lost on a process that read zero just before it.
NoUnitUnclaimed ==
  (count > 0 /\ \E p \in Procs : pc[p] # "out")
     ~> (count = 0 \/ \A p \in Procs : pc[p] = "out")
=============================================================================
