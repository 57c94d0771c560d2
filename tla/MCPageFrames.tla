---------------------------- MODULE MCPageFrames -----------------------------
(* Small instance of the page-frame allocator for TLC.                      *)
EXTENDS PageFrames

CONSTANTS o1, o2, o3

Owners == {o1, o2, o3}

\* The kernel lies at 1 MB and has 440 kB behind it.
MemoryMapMC ==
  << [addr |-> 0,       len |-> 654336, type |-> MULTIBOOT_MEMORY_AVAILABLE],
     [addr |-> 983040,  len |-> 65536,  type |-> 2],
     [addr |-> 1048576, len |-> 450000, type |-> MULTIBOOT_MEMORY_AVAILABLE] >>

\* The Multiboot specification places the flags at 0, the length of the map at 44
\* and its address at 48; entries are 24 bytes apart.
MbdMC == [o \in {0, 44, 48} |->
            CASE o = 0  -> MULTIBOOT_INFO_MEM_MAP + 1
              [] o = 44 -> 24 * Len(MemoryMapMC)
              [] o = 48 -> 32768]
=============================================================================
