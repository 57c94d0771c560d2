SPECIFICATION Spec
CONSTANTS
  PAGE_SIZE = 512  MM_PAGE_NUM = 3  NUM_SIZES = 12  SizeMax = 65536
  Sizes <- MixedSizes  BootSize = 96  MaxCalls = 7
INVARIANTS NoAdjacentUnused FreeListsExact ChunksHoldNodes
PROPERTIES IsAllocator
CHECK_DEADLOCK FALSE
