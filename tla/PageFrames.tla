----------------------------- MODULE PageFrames ------------------------------
(***************************************************************************)
(* The page-frame allocator of kernel/arch/x86_64/mm/pagemanager.c: a      *)
(* bitmap over npages frames and first-fit search for a run of frames.     *)
(* Callers run it with the scheduler locked, or at boot: a call is atomic. *)
(***************************************************************************)
EXTENDS BootPages, Sequences, FiniteSetsExt

CONSTANTS
  mbd,        \* the words that the boot loader leaves, by their offset
  MemoryMap,  \* the ranges that it tells of, in order
  InitRam,    \* the address of the function init_ram
  KernelEnd,  \* the address _kernel_end
  Owner,      \* callers: each keeps one page_alloc record
  MaxRun      \* bound: the largest run a caller asks for

\* multiboot.h: the fields of a structure and their widths in bytes.  Those of
\* what follows the frame buffer's type are one.
multiboot_info == <<
  <<"flags", 4>>, <<"mem_lower", 4>>, <<"mem_upper", 4>>, <<"boot_device", 4>>,
  <<"cmdline", 4>>, <<"mods_count", 4>>, <<"mods_addr", 4>>, <<"u", 16>>,
  <<"mmap_length", 4>>, <<"mmap_addr", 4>>, <<"drives_length", 4>>, <<"drives_addr", 4>>,
  <<"config_table", 4>>, <<"boot_loader_name", 4>>, <<"apm_table", 4>>,
  <<"vbe_control_info", 4>>, <<"vbe_mode_info", 4>>, <<"vbe_mode", 2>>,
  <<"vbe_interface_seg", 2>>, <<"vbe_interface_off", 2>>, <<"vbe_interface_len", 2>>,
  <<"framebuffer_addr", 8>>, <<"framebuffer_pitch", 4>>, <<"framebuffer_width", 4>>,
  <<"framebuffer_height", 4>>, <<"framebuffer_bpp", 1>>, <<"framebuffer_type", 1>>,
  <<"framebuffer_color", 6>> >>
multiboot_mmap_entry == << <<"size", 4>>, <<"addr", 8>>, <<"len", 8>>, <<"type", 4>> >>

FieldBefore(struct, name) ==
  {i \in DOMAIN struct : \E j \in DOMAIN struct : i < j /\ struct[j][1] = name}
OffsetOf(struct, name) == MapThenSumSet(LAMBDA i : struct[i][2], FieldBefore(struct, name))
SizeOf(struct)         == MapThenSumSet(LAMBDA i : struct[i][2], DOMAIN struct)

MULTIBOOT_INFO_MEM_MAP     == 64
MULTIBOOT_MEMORY_AVAILABLE == 1
multiboot_memory_map_t == [addr : Nat, len : Nat, type : 1..5]

\* All addresses are physical, HIGHER_HALF_OFFSET is taken off.
PAGE_SIZE   == 4096
ENTRY_NUM   == 512
UINT64_BITS == 64
WORD        == 8

-----------------------------------------------------------------------------
(* kalloc_frame_init: how memory is laid out at boot.                       *)

\* init_ram looks at the entries up to mmap_length, takes each to be of the size
\* of its structure, and takes the first range of free memory that it lies in
\* itself.
Looked == {j \in 1..Len(MemoryMap) :
             (j - 1) * SizeOf(multiboot_mmap_entry) < mbd[OffsetOf(multiboot_info, "mmap_length")]}
Holds(range) == /\ range.type = MULTIBOOT_MEMORY_AVAILABLE
                /\ range.addr < InitRam /\ InitRam < range.addr + range.len
Found == {j \in Looked : Holds(MemoryMap[j])}
HasMap == (mbd[OffsetOf(multiboot_info, "flags")] \div MULTIBOOT_INFO_MEM_MAP) % 2 = 1

ram_end == MemoryMap[Min(Found)].addr + MemoryMap[Min(Found)].len

\* The bitmap lies behind the kernel; Estimate is the number of frames it has
\* room for.
BitmapStart == KernelEnd + WORD
Estimate    == (ram_end - BitmapStart) \div (PAGE_SIZE + 1)

\* The first frame, after the words of the bitmap.
startframe ==
  LET behind == BitmapStart + WORD * (Estimate \div UINT64_BITS)
  IN  IF behind % PAGE_SIZE = 0 THEN behind ELSE (behind \div PAGE_SIZE + 1) * PAGE_SIZE

\* Mutant: the loop compares with the end of memory as if pages were bytes.
npagesByBytes == Min({Estimate, (ram_end - PAGE_SIZE - startframe) \div (PAGE_SIZE \div WORD)})

\* What the loop counts down to: startframe + PAGE_SIZE * npages is arithmetic
\* on word pointers.
npages == Min({Estimate, (ram_end - PAGE_SIZE - startframe) \div (WORD * PAGE_SIZE)})

\* Without a map or a range ram_end is 0, and without room for a page unsigned
\* arithmetic wraps.
ASSUME PageFramesAssumption ==
  /\ MaxRun \in Nat /\ KernelEnd \in Nat /\ InitRam \in Nat
  /\ MemoryMap \in Seq(multiboot_memory_map_t)
  /\ HasMap /\ Found # {}
  /\ startframe + PAGE_SIZE <= ram_end
  /\ KernelEnd <= ENTRY_NUM * ENTRY_NUM * PAGE_SIZE

Frame == 0..(npages - 1)

\* The frames of remap_lower_kernel_range: the directory pointer table, the
\* directories and the page tables for the addresses up to KernelEnd.  A table
\* is taken when the one before it is full, needed or not.
RemapFrames ==
  LET tables(bytes) == (KernelEnd + PAGE_SIZE) \div bytes + 1
  IN  1 + tables(ENTRY_NUM * ENTRY_NUM * PAGE_SIZE) + tables(ENTRY_NUM * PAGE_SIZE)

\* page_alloc: the first frame of a run and its length, 0 for no run.
PageAlloc == [page : Frame, npages : 0..npages]
NoPages   == [page |-> 0, npages |-> 0]

VARIABLES
  frame_map,   \* 1 marks a frame in use
  pa           \* pa[o]: the record owner o was given

vars == <<frame_map, pa>>

FramesOf(p) == p.page .. (p.page + p.npages - 1)

\* The boot goes on only when the remapping finds its frames.
Init == /\ RemapFrames < npages
        /\ frame_map = [f \in Frame |-> IF f < RemapFrames THEN 1 ELSE 0]
        /\ pa = [o \in Owner |-> NoPages]

\* Mutant: the first frame is not tested.
ContinuousFreeNotFirst(start, count) ==
  /\ start + count < npages
  /\ \A i \in 1..(count - 1) : frame_map[start + i] = 0

\* check_continuous_free_page, which also refuses the run that ends with the
\* last frame.
ContinuousFree(start, count) ==
  /\ start + count < npages
  /\ \A i \in 0..(count - 1) : frame_map[start + i] = 0

\* The runs the loop of alloc_pages accepts.
Candidates(count) ==
  IF count >= npages \/ count = 0 THEN {}
  ELSE {i \in 0..(npages - count) : ContinuousFree(i, count)}

SetFrameMap(run, val) ==
  frame_map' = [f \in Frame |-> IF f \in run THEN val ELSE frame_map[f]]

AllocPages(o, count) ==
  /\ pa[o] = NoPages
  /\ \E i \in Candidates(count) :
       /\ \A j \in Candidates(count) : i <= j
       /\ SetFrameMap(i..(i + count - 1), 1)
       /\ pa' = [pa EXCEPT ![o] = [page |-> i, npages |-> count]]

AllocFails(o, count) ==
  /\ pa[o] = NoPages /\ Candidates(count) = {}
  /\ UNCHANGED vars

\* free_pages: page - startframe is a difference of uint64_t pointers, which
\* counts 8-byte words, so that the division by PAGE_SIZE yields an eighth of
\* the frame's index.
FreeIndex(p) == p.page \div 8

FreePages(o) ==
  /\ pa[o].npages # 0
  /\ SetFrameMap(FreeIndex(pa[o])..(FreeIndex(pa[o]) + pa[o].npages - 1), 0)
  /\ pa' = [pa EXCEPT ![o] = NoPages]

Next == \E o \in Owner :
          \/ \E count \in 0..MaxRun : AllocPages(o, count) \/ AllocFails(o, count)
          \/ FreePages(o)

Spec == Init /\ [][Next]_vars

-----------------------------------------------------------------------------
(* Properties.                                                              *)

TypeOK == frame_map \in [Frame -> {0, 1}] /\ pa \in [Owner -> PageAlloc]

\* pagemanager.c 109-117: the words of the bitmap end before the first frame,
\* and every frame lies before the last page of memory, for memory of 64 pages
\* or more behind the kernel.  With memory of up to 4 GB and a kernel that ends
\* below 256 MB, each byte of a frame is reached at its kernel address.
FramesInMemory ==
  \A f \in DOMAIN frame_map :
    /\ ram_end \div 8 <= HugePage \div 2 /\ KernelEnd <= HugePage \div 4 =>
         Reached(startframe + f * PAGE_SIZE) /\ Reached(startframe + (f + 1) * PAGE_SIZE - 1)
    /\ startframe + (f + 1) * PAGE_SIZE <= ram_end - PAGE_SIZE
    /\ Estimate >= UINT64_BITS => BitmapStart + WORD * (f \div UINT64_BITS + 1) <= startframe

\* Reference for the search: the runs of free frames below the last frame.
FreeRuns(count) ==
  {run \in SUBSET (0..(npages - 2)) :
     /\ Cardinality(run) = count
     /\ \A f \in run : frame_map[f] = 0
     /\ \A f, g \in run : f..g \subseteq run}

\* alloc_pages hands out the lowest run of free frames whenever there is one
\* below the last frame, and marks exactly that run.
AllocIsFirstFit ==
  [][\A o \in Owner : pa[o].npages = 0 /\ pa'[o].npages # 0 =>
       LET run == FramesOf(pa'[o]) IN
         /\ run \in FreeRuns(pa'[o].npages)
         /\ \A other \in FreeRuns(pa'[o].npages) : \A f \in other : pa'[o].page <= f
         /\ frame_map' = [f \in Frame |-> IF f \in run THEN 1 ELSE frame_map[f]]]_vars

\* The bitmap says which frames are in use: a frame is marked exactly while
\* some caller has it, the remapping at boot included.
MapMarksUse ==
  \A f \in Frame : frame_map[f] = 1 <=> f < RemapFrames \/ \E o \in Owner : f \in FramesOf(pa[o])
=============================================================================
