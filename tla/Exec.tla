--------------------------------- MODULE Exec ---------------------------------
(***************************************************************************)
(* kernel_exec and load_elf (kernel/arch/x86_64/fs/exec.c, elfloader.c):   *)
(* an ELF file is read from the floppy into the heap, its segments become  *)
(* areas, the stack is mapped, and the task goes to ring 3, where pages    *)
(* are filled when they are touched; the clean task takes the address      *)
(* space apart.  kernel_exec runs under lock_scheduler, so that one task   *)
(* is in it at a time; init_fs mounts first, under the same lock.          *)
(***************************************************************************)
EXTENDS Fat12, AddressSpace

CONSTANTS
  Elf,         \* Elf[lba]: the headers of the file that starts at sector lba
  StackStart, StackPages,  \* the area of the user stack
  Touched      \* bound: the pages that programs touch

\* Of an ELF file, what _do_load_elf looks at; e_phdr is the table at e_phoff.
Elf64_Phdr ==
  [p_type : Nat, p_vaddr : Nat, p_memsz : Nat, p_filesz : Nat, p_offset : Nat]
Elf64_Half == 0..65535
Elf64_Ehdr ==
  [e_ident : [1..4 -> Byte], e_type : Elf64_Half, e_machine : Elf64_Half,
   e_phdr : Seq(Elf64_Phdr)]

ELFMAG    == <<127, 69, 76, 70>>
ET_EXEC   == 2
EM_X86_64 == 62
PT_LOAD   == 1

ASSUME ExecAssumption ==
  /\ Proc \cap {"boot", "init_fs", "none"} = {}
  /\ StackStart \in Nat /\ StackPages \in Nat \ {0} /\ Touched \subseteq Nat
  /\ \A lba \in DOMAIN Elf : Elf[lba] \in Elf64_Ehdr

VARIABLES
  owner,     \* the task that has locked the scheduler, or "none"
  epc,       \* where each task is
  heap       \* heap[p]: how many blocks p has from kmalloc and not freed

tasks    == <<owner, epc, heap>>
execVars == <<floppy, fatVars, mem, tasks>>

Working  == {"mm", "size", "content", "file", "elf", "stack"}
EpcLabel == Working \cup {"none", "user", "dead", "failed", "wild"}

NoBlocks == [mm |-> 0, content |-> 0, vma |-> 0]

\* kernel_main: init_fs runs first and mounts.
ExecInit ==
  /\ FatInit /\ AddressSpaceInit
  /\ owner = "boot"
  /\ epc = [p \in Proc |-> "none"]
  /\ heap = [p \in Proc |-> NoBlocks]

\* Nothing is followed after a task ran into undefined behaviour.
At(p, l)   == epc[p] = l /\ \A q \in Proc : epc[q] # "wild"
Goto(p, l) == epc' = [epc EXCEPT ![p] = l]
Malloc(p, b) == heap' = [heap EXCEPT ![p][b] = @ + 1]

\* init_fs; panic returns with the next interrupt when the mount failed.
InitFs ==
  /\ owner = "boot" /\ MountCall /\ owner' = "init_fs"
  /\ UNCHANGED <<mem, epc, heap>>

InitFsDone ==
  /\ owner = "init_fs" /\ Return /\ owner' = "none"
  /\ UNCHANGED <<mem, epc, heap>>

\* kernel_exec locks the scheduler and allocates the mm_struct.
ExecCall(p) ==
  /\ owner = "none" /\ At(p, "none")
  /\ \/ owner' = p /\ Goto(p, "mm") /\ Malloc(p, "mm")
     \/ Goto(p, "failed") /\ UNCHANGED <<owner, heap>>
  /\ UNCHANGED <<floppy, fatVars, mem>>

\* mm_dup_pgd; when it fails, the kernel may have lost tables to it.
Copy(p) ==
  /\ At(p, "mm") /\ CopyAll(p) /\ Goto(p, "size")
  /\ \E n \in Names : FindCall("size", n)
  /\ UNCHANGED <<owner, heap>>

\* Mutant: the early return leaves the scheduler locked.
CopyFailedLocked(p) ==
  /\ At(p, "mm") /\ CopyFails(p)
  /\ Goto(p, IF spoiled' # spoiled THEN "wild" ELSE "failed")
  /\ heap' = [heap EXCEPT ![p].mm = 0]
  /\ UNCHANGED <<floppy, fatVars, owner>>

CopyFailed(p) ==
  /\ At(p, "mm") /\ CopyFails(p)
  /\ Goto(p, IF spoiled' # spoiled THEN "wild" ELSE "failed")
  /\ heap' = [heap EXCEPT ![p].mm = 0] /\ owner' = "none"
  /\ UNCHANGED <<floppy, fatVars>>

\* The error paths of load_elf and kernel_exec: the areas stay in the heap.
Fail(p) ==
  /\ DropFailed(p) /\ Goto(p, "failed") /\ owner' = "none"
  /\ heap' = [heap EXCEPT ![p].mm = 0, ![p].content = 0]

Returned(p, l) == At(p, l) /\ Return

\* fat12_get_file_size gave no size, or kmalloc has no room for it.
SizeFails(p) == Returned(p, "size") /\ Fail(p)

SizeKnown(p) ==
  /\ Returned(p, "size") /\ result /\ filesize > 0
  /\ Goto(p, "content") /\ Malloc(p, "content")
  /\ UNCHANGED <<mem, owner>>

ReadFile(p) ==
  /\ At(p, "content") /\ FindCall("file", name) /\ Goto(p, "file")
  /\ UNCHANGED <<mem, owner, heap>>

\* _do_load_elf looks at the first bytes of the buffer.
HasHeader == out # << >> /\ out[1][1] \in DOMAIN Elf
elf_hdr   == Elf[out[1][1]]

IsExecutable ==
  /\ HasHeader
  /\ elf_hdr.e_ident = ELFMAG /\ elf_hdr.e_type = ET_EXEC /\ elf_hdr.e_machine = EM_X86_64

\* The places of the PT_LOAD headers in the table.
Segments == {i \in DOMAIN elf_hdr.e_phdr : elf_hdr.e_phdr[i].p_type = PT_LOAD}

FileFails(p) == Returned(p, "file") /\ (~result \/ ~IsExecutable) /\ Fail(p)

FileRead(p) ==
  /\ Returned(p, "file") /\ result /\ IsExecutable /\ Goto(p, "elf")
  /\ UNCHANGED <<mem, owner, heap>>

\* One PT_LOAD header after the other; kmalloc may have no room for its area.
MoreSegments(p) == Len(mm[p].mmap) < Cardinality(Segments)

AddSegment(p) ==
  /\ At(p, "elf")
  /\ \E i \in Segments :
       /\ Cardinality({j \in Segments : j < i}) = Len(mm[p].mmap)
       /\ LET s == elf_hdr.e_phdr[i] IN
            AddArea(p, s.p_vaddr, s.p_vaddr + s.p_memsz, s.p_type, s.p_offset)
  /\ Malloc(p, "vma")
  /\ UNCHANGED <<floppy, fatVars, owner, epc>>

SegmentFails(p) ==
  /\ At(p, "elf") /\ MoreSegments(p) /\ Fail(p)
  /\ UNCHANGED <<floppy, fatVars>>

\* The area of the stack, whose kmalloc is not tested.
StackEnd == StackStart + StackPages * PAGE_SIZE

AddStack(p) ==
  /\ At(p, "elf") /\ ~MoreSegments(p)
  /\ \/ AddArea(p, StackStart, StackEnd, 0, StackPages * PAGE_SIZE)
        /\ Malloc(p, "vma") /\ Goto(p, "stack")
     \/ Goto(p, "wild") /\ UNCHANGED <<mem, heap>>
  /\ UNCHANGED <<floppy, fatVars, owner>>

\* The stack's pages are mapped in order while mm->elf_content is still NULL;
\* hlt returns with the next interrupt, and a missing frame is used as one.
NextStackPage(p) ==
  StackStart + PAGE_SIZE * Cardinality({v \in DOMAIN loaded[p] : v >= Page(StackStart)})

MapStack(p) ==
  /\ At(p, "stack") /\ NextStackPage(p) < StackEnd
  /\ \/ MapPage(p, NextStackPage(p)) /\ UNCHANGED epc
     \/ ~HasFrames(p, NextStackPage(p)) /\ Goto(p, "wild") /\ UNCHANGED mem
  /\ UNCHANGED <<floppy, fatVars, owner, heap>>

ToRing3(p) ==
  /\ At(p, "stack") /\ NextStackPage(p) = StackEnd
  /\ mm' = [mm EXCEPT ![p].rsp = StackEnd, ![p].elf_content = "content"]
  /\ Goto(p, "user") /\ owner' = "none"
  /\ UNCHANGED <<floppy, fatVars, used, tree, loaded, spoiled, heap>>

\* page_fault_handler for an address that is not present: interrupts are off in
\* it, so that hlt and panic do not return.
PageFault(p) ==
  /\ owner = "none" /\ At(p, "user")
  /\ \E v \in Touched, b \in 0..(PAGE_SIZE - 1) :
       LET a == v * PAGE_SIZE + b IN
       /\ virtaddr2page(a) \notin DOMAIN tree[p]
       /\ \/ MapPage(p, a) /\ UNCHANGED epc
          \/ /\ AreasOf(p, a) = {} \/ ~HasFrames(p, a)
             /\ Goto(p, "wild") /\ UNCHANGED mem
  /\ UNCHANGED <<floppy, fatVars, owner, heap>>

\* terminate_task, and the round of kernel_clean_work for the task.
Exit(p) ==
  /\ owner = "none" /\ At(p, "user") /\ Goto(p, "dead")
  /\ UNCHANGED <<floppy, fatVars, mem, owner, heap>>

CleanTask(p) ==
  /\ owner = "none" /\ At(p, "dead")
  /\ Unmap(p) /\ Goto(p, "none")
  /\ heap' = [heap EXCEPT ![p] = NoBlocks]
  /\ UNCHANGED <<floppy, fatVars, owner>>

-----------------------------------------------------------------------------
ExecStep(p) ==
  \/ Copy(p) \/ CopyFailed(p) \/ SizeFails(p) \/ SizeKnown(p) \/ ReadFile(p)
  \/ FileFails(p) \/ FileRead(p) \/ AddSegment(p) \/ SegmentFails(p)
  \/ AddStack(p) \/ MapStack(p) \/ ToRing3(p)

DiskStep ==
  /\ FatStep \/ (FloppyStep /\ UNCHANGED fatVars)
  /\ UNCHANGED <<mem, tasks>>

ExecNext ==
  \/ InitFs \/ InitFsDone \/ DiskStep
  \/ \E p \in Proc : ExecCall(p) \/ ExecStep(p) \/ PageFault(p) \/ Exit(p) \/ CleanTask(p)

ExecSpec == ExecInit /\ [][ExecNext]_execVars

\* The thread that holds the lock: only the clean task would run beside it.
LockedStep ==
  \/ InitFs \/ InitFsDone \/ DiskStep
  \/ \E p \in Proc : ExecStep(p)

\* While the scheduler is locked the thread goes on, or waits for the drive,
\* which ends what it was told to do.
FairExecSpec == ExecSpec /\ WF_execVars(LockedStep)

-----------------------------------------------------------------------------
(* Properties.                                                              *)

\* exec.c: whatever path kernel_exec leaves by, the lock is given back then and
\* only then.
LockedWhileWorking ==
  \A p \in Proc : epc[p] # "wild" => (owner = p <=> epc[p] \in Working)

\* elfloader.c, do_mmap: each byte of a mapped page is the one of the file that
\* its segment says, and zero behind the end of the segment, for pages with one
\* segment on them that begins on a page boundary or before the page.
Overlaps(area, v) == area.vm_start < (v + 1) * PAGE_SIZE /\ v * PAGE_SIZE < area.vm_end
PagesHoldSegments ==
  \A p \in Proc : \A v \in DOMAIN loaded[p] : \A i \in 1..Len(mm[p].mmap) :
    LET area == mm[p].mmap[i]
    IN  /\ area.vm_flags = PT_LOAD
        /\ \A j \in 1..Len(mm[p].mmap) : Overlaps(mm[p].mmap[j], v) <=> j = i
        /\ area.vm_start <= v * PAGE_SIZE
        => \A b \in 0..(PAGE_SIZE - 1) :
             LET a == v * PAGE_SIZE + b IN
             loaded[p][v][b + 1] = IF a < area.vm_end
                                   THEN <<"content", area.vm_pgoff + a - area.vm_start>>
                                   ELSE Zero

\* floppy.c, exec.c: kernel_exec does not hold the scheduler for ever, unless the
\* driver waits for a controller whose last answer it did not take.
Hung == fdpc = "seek" /\ command \in {"read", "result"}
ExecEnds ==
  \A p \in Proc : owner = p ~> owner # p \/ Hung \/ epc[p] = "wild"
=============================================================================
