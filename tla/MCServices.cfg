SPECIFICATION ServicesSpec
CONSTANTS
  NUM_RX = 3
  NUM_TX = 3
  FRAMES = 5
  RING_SIZE = 3
  RingBytes = {1, 2}
  SLAB_ENTRIES = 4
  SLAB_BASE = 16
  OBJ_SIZE = 8
  BLOCK = 4
  LEN_FIELD = 2
  RADIX = 16
  Chunk = 5
  MAX_MESSAGE = 7
  MAX_USERS = 3
  MAX_GROUPS = 4
  UserNames = {"root", "u"}
  Passwords = {"black", "x", "y"}
  Uids = {0, 1, 2}
  Gids = {0, 10}
  Hash <- MCHash
  Addresses <- MCAddresses
  Gateways = {0, 7}
  Macs = {1, 2}
  MAX_ROUTES = 3
  MAX_ARP_CACHE = 3
  MAX_ENV = 5
  EnvKeys = {"PATH", "A", "AB"}
  EnvValues = {"/bin", "v"}
  Cut <- MCCut
  HEADER = 2
  PH_SIZE = 2
  LOW_VADDR = 1
  ElfFiles <- MCElfFiles
  SIZE_MOD = 1048576
  WORD = 8
  FrameInputs <- MCFrames
  HeaderInputs <- MCHeaders
  MEMORY = 7
  Chars = {0, 1, 2}
  BITS = 8
  Words = {"", "help", "clear", "echo", "date", "calc", "ls", "mkdir", "uname", "meminfo", "tasks",
           "uptime", "whoami", "matrix", "version", "halt", "ps", "shutdown", "unknown"}
  CalcLines <- MCCalcLines
  Seconds = {0, 59, 60, 3599, 3600, 86399, 86400, 359999, 360000}
  WORD_BITS = 2
  WORDS = 2
  SetSizes = {0, 3, 4, 5}
  AllocSizes = {1, 3}
  ALLOCS = 3
INVARIANTS
  RingsInOrder
  DigestOfPaddedMessage
  
  
PROPERTIES
  SlabImplementsAllocator
  AnswersStable
CHECK_DEADLOCK FALSE
