CONSTANTS
  HEAP_START = 16
  HEAP_SIZE = 240
  HDR = 20
  MIN_BLOCK = 32
  ALIGN = 16
  Sizes = {1, 17, 40, 64}
  MAX_FRAMES = 8
  WORD = 2
  KERNEL_END = 2
  MAX_COUNT = 3
  VM_FRAMES = 5
  TABLES = 2
  ENTRIES = 2
  Lines = {0, 1, 12}
  KDIR = 2
  SELF = 4
  WAIT = 2
  Threads = {0, 1, 2}
  Vals = {20, 30}
  Vectors = {14, 32, 128}
  PAGE = 4
  SDT_HDR = 2
  MADT_HDR = 3
  LIMIT = 24
  LowPages = {0}
  HeapPages = {8, 9}
  ACPI_MAX_CPUS = 2
  Firmwares <- MCFirmwares
  Units = {1, 2}
  Sectors = {0, 1}
  Counts = {1, 2}
  SectorData = {"a", "b"}
  FIELDS = 2
  PERIODS = 12
  NOTICE = 2
  DateInputs <- MCDates
  SLOTS = 3
  FUNCS = 2
  PCI_MAX_DEVICES = 4
SPECIFICATION MachineSpec
INVARIANTS
  HeapConsistent
  
  BootSound
  RegistersKept
  
  DiskKeepsData
  ClockTrue
PROPERTIES
  ImplementsAllocator
  PagesOthersUndisturbed
  MachineGetsReady
