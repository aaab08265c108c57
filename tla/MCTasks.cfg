CONSTANTS
  MAX_TASKS = 4
  MLFQ_LEVELS = 2
  TIMESLICE_BASE = 1
  KERNEL_SLICE = 2
  USED_CAP = 2
  TICKS = 2
  MAX_PROCESSES = 4
  PID_MOD = 5
  Signals = {KILL, TERM, OTHER}
  SIGKILL = KILL
  SIGTERM = TERM
SPECIFICATION TasksSpec
INVARIANTS
  
  ProcessFamilyTree
