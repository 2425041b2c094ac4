SPECIFICATION StorageSpec
CONSTANTS
  \* the heap
  PAGE_SIZE = 8
  HEAP_START_LOCATION = 1
  HEAP_MAX_LOCATION = 25
  INITIAL_SIZE = 16
  Requests = {2, 4, 9}
  \* the address spaces
  p1 = p1
  p2 = p2
  p3 = p3
  FRAME_SIZE = 2
  ENTRIES = 7
  BITS_IN_INTEGER = 4
  ONE_MEGABYTE = 4
  SIXTEEN_MEG = 40
  memory_low = 36
  memory_hi = 104
  KERNEL_SIZE = 3
  RESERVED_LO = 7
  KERNEL_PAGE_DIR_INDEX = 2
  HEAP_START = 27
  HEAP_MAX = 35
  Procs = {p1, p2, p3}
  initproc = p1
  Programs <- MCPrograms
  INITPROC <- MCInitproc
  USER_STACK_LOCATION = 10
  USER_STACK_PAGES = 1
  HEAP_INITIAL_PAGES = 1
  MESSAGE_LOCATION_START = 12
  RAMDISK_PHYS = 32
  RAMDISK_VIRT = 35
  RAMDISK_PAGES = 4
  MaxMessages = 1
  GrowBy = {1, 7}
  MaxHeapPages = 10
  MaxCalls = 4
  \* the file system
  BLOCK_SIZE = 4
  DIRECT_BLOCKS = 2
  PER_INDIRECT = 2
  blocks_count = 18
  inodes_count = 8
  inodes_per_group = 8
  SKEW = 4
  WORD = 64
  ROOT = 2
  Image <- MCImage
  Paths <- MCPaths
  Starts = {0, 3, 4, 6, 12}
  Counts = {2, 3, 7}
  Bytes = {99}
  AnyRequest = FALSE
  MaxWrites = 2
PROPERTIES RestIsZero
CHECK_DEADLOCK FALSE
