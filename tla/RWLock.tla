------------------------------- MODULE RWLock -------------------------------
(***************************************************************************)
(* The read-write lock of kernel/sync/rwlock.c.  black_rwlock_read_lock    *)
(* looks at black_writer with a test-and-set that stores 0, so every round *)
(* of its loop also clears the flag.                                       *)
(***************************************************************************)
EXTENDS Integers, FiniteSets

CONSTANTS Readers, Writers

Users == Readers \cup Writers

VARIABLES
  readers,  \* black_readers
  writer,   \* black_writer
  pc        \* "out", "spin", "count" (a reader past its loop), "drain" (a
            \* writer waiting for the readers) or "in"

vars == <<readers, writer, pc>>

Init ==
  /\ readers = 0
  /\ writer = 0
  /\ pc = [p \in Users |-> "out"]

Call(p) ==
  /\ pc[p] = "out"
  /\ pc' = [pc EXCEPT ![p] = "spin"]
  /\ UNCHANGED <<readers, writer>>

\* One round of the loop of black_rwlock_read_lock, then the increment.
ReadTry(r) ==
  /\ pc[r] = "spin"
  /\ writer' = 0
  /\ pc' = [pc EXCEPT ![r] = IF writer = 0 THEN "count" ELSE "spin"]
  /\ UNCHANGED readers

ReadCount(r) ==
  /\ pc[r] = "count"
  /\ readers' = readers + 1
  /\ pc' = [pc EXCEPT ![r] = "in"]
  /\ UNCHANGED writer

ReadUnlock(r) ==
  /\ pc[r] = "in"
  /\ readers' = readers - 1
  /\ pc' = [pc EXCEPT ![r] = "out"]
  /\ UNCHANGED writer

\* The two loops of black_rwlock_write_lock.
WriteTry(w) ==
  /\ pc[w] = "spin"
  /\ writer' = 1
  /\ pc' = [pc EXCEPT ![w] = IF writer = 0 THEN "drain" ELSE "spin"]
  /\ UNCHANGED readers

WriteDrain(w) ==
  /\ pc[w] = "drain" /\ readers <= 0
  /\ pc' = [pc EXCEPT ![w] = "in"]
  /\ UNCHANGED <<readers, writer>>

WriteUnlockKeepsFlag(w) ==
  pc[w] = "in" /\ pc' = [pc EXCEPT ![w] = "out"] /\ UNCHANGED <<readers, writer>>
WriteUnlock(w) ==
  /\ pc[w] = "in"
  /\ writer' = 0
  /\ pc' = [pc EXCEPT ![w] = "out"]
  /\ UNCHANGED readers

Next ==
  \/ \E p \in Users : Call(p)
  \/ \E r \in Readers : ReadTry(r) \/ ReadCount(r) \/ ReadUnlock(r)
  \/ \E w \in Writers : WriteTry(w) \/ WriteDrain(w) \/ WriteUnlock(w)

Spec == Init /\ [][Next]_vars
-----------------------------------------------------------------------------
\* The counter stays between zero and the number of readers.
TypeOK ==
  /\ readers \in 0 .. Cardinality(Readers)
  /\ writer \in {0, 1}
  /\ pc \in [Users -> {"out", "spin", "count", "drain", "in"}]

\* A reader and a writer are never inside together, and neither are two
\* writers.
ReadWriteExclusion ==
  \A w \in Writers : pc[w] = "in" =>
    \A p \in Users \ {w} : pc[p] # "in"

\* Whatever readers and writers did to each other's flag, the lock is free
\* again once all have left: it never locks everybody out.
FreeWhenIdle ==
  (\A p \in Users : pc[p] = "out") => readers = 0 /\ writer = 0
=============================================================================
