CONSTANTS
  Procs = {p1, p2}
  Bytes = {1, 2}
  PIPE_BUF_SIZE = 3
  OVERLAP = FALSE
  Senders = {s1}
  Receivers = {r1}
  MAX_MESSAGES = 3
  COUNT_MOD = 8
  SENT_CAP = 12
  ShmProcs = {p1, p2, p3}
  MAX_SHM = 2
  Addresses = {1, 2}
  Names = {"dev", "null"}
  FixedDir = 999
  FixedEntries <- MCFixedEntries
  FixedPath <- DevPath
  MAX_NODES = 4
  MAX_CHILDREN = 2
  MAX_MOUNTS = 2
  MAX_FDS = 1
  FileFds = {0, 1}
  MAX_FILESIZE = 3
  FIRST_CAP = 1
  MAX_IO = 2
  OFFSET_MOD = 4
  BITS = 8
  LATEST = 11
  TOTAL = 100
  PieceSizes = {1, 2, 9}
SPECIFICATION ObjectsSpec
INVARIANTS
  QueueReliable
  ShmSegmentsLiveWhileUsed
  
PROPERTIES
  ImplementsChannel
  LookupStable
