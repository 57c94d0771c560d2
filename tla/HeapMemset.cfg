SPECIFICATION Spec
CONSTANTS
  PAGE_SIZE = 512  MM_PAGE_NUM = 3  NUM_SIZES = 12  SizeMax = 65536
  Sizes <- MixedSizes  BootSize = 96  MaxCalls = 6
INVARIANTS MemsetStaysInChunk
CHECK_DEADLOCK FALSE
