CONSTANTS
  MAX_TASKS = 4
  MLFQ_LEVELS = 2
  TIMESLICE_BASE = 1
  KERNEL_SLICE = 2
  USED_CAP = 2
SPECIFICATION Spec
INVARIANTS TypeOK   OnlyCurrentRuns
PROPERTIES LevelDiscipline 
CHECK_DEADLOCK FALSE
