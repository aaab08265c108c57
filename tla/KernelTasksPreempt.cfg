CONSTANTS
  MAX_TASKS = 3
  MLFQ_LEVELS = 2
  TIMESLICE_BASE = 1
  KERNEL_SLICE = 2
  USED_CAP = 2
  TICKS = 2
SPECIFICATION KFairSpec
PROPERTY ReadyTaskRuns
