SPECIFICATION FairExecSpec
CONSTANTS
  p = p  q = q
  Lba = {}
  MaxFaults = 1
  BootSector <- Floppy144
  RootDir <- Root
  Fat <- Table
  Names <- NamesMC
  Proc = {p, q}
  Frame = {1, 2, 3, 4, 5, 6, 7, 8, 9, 10, 11, 12, 13, 14, 15, 16, 17, 18, 19}
  KernelTree <- KernelPathsMC
  PAGE_SIZE = 2  ENTRY_NUM = 4
  Elf <- ElfMC
  StackStart = 252
  StackPages = 2
  Touched = {4, 5, 126, 127}
INVARIANTS
  ReadGivesSector
  FileIsRead
  
  LockedWhileWorking
  PagesHoldSegments
PROPERTIES
  ExecEnds
CHECK_DEADLOCK FALSE
