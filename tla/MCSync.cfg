CONSTANTS
  Procs = {"task", "irq", "other"}
  TICKETS = 3
  MutexProcs = {p1, p2, p3, p4, p5}
  SleepProcs = {p1, p2, p3, p4, p5}
  Readers = {r1, r2}
  Writers = {w1, w2}
  INITIAL = 1
  MAX_SIGNALS = 2
  SECTIONS = 2
SPECIFICATION SyncSpec
INVARIANTS
  MutualExclusion
  LocksMatchHolders
PROPERTIES
  ImplementsFifoLock LockWaitsEnd
  
