SPECIFICATION Spec
CONSTANTS
  o1 = o1  o2 = o2  o3 = o3
  Owner <- Owners
  MemoryMap <- MemoryMapMC  mbd <- MbdMC
  InitRam = 1053576  KernelEnd = 1060576
  MaxRun = 4
INVARIANTS FramesInMemory
PROPERTIES AllocIsFirstFit
