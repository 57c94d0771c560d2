----------------------------- MODULE AddressSpace -----------------------------
(***************************************************************************)
(* User address spaces: mm_dup_pgd, mm_clean_pgd and mm_clean of           *)
(* kernel/arch/x86_64/mm/mm.c, do_mmap and do_ummap_user of                *)
(* mm/pagemanager.c.  A table or page is named by its path, the indices    *)
(* that lead to it from the PML4, whose own path is << >>.  An address     *)
(* space maps the paths that are present to frames.  Entries for huge      *)
(* pages are only copied as numbers and are left out.                      *)
(*                                                                         *)
(* Frames are taken and given back by alloc_pages(1) and free_pages as     *)
(* their comments promise, the lowest free frame first; what free_pages    *)
(* does to the bitmap is the subject of PageFrames.                        *)
(***************************************************************************)
EXTENDS Integers, Sequences, FiniteSets, SequencesExt, Strings

CONSTANTS
  Proc,        \* tasks that call kernel_exec
  Frame,       \* the frames of the pool that are free at boot, numbers
  KernelTree,  \* the kernel's tables and pages below the PML4, as the
               \* sequence of their paths in the order of the loops
  PAGE_SIZE,
  ENTRY_NUM    \* entries of a table

ASSUME AddressSpaceAssumption ==
  /\ Frame \subseteq Nat /\ \E last \in Frame : \A f \in Frame : f <= last
  /\ PAGE_SIZE \in Nat \ {0} /\ ENTRY_NUM \in Nat \ {0}
  /\ KernelTree \in Seq(Seq(0..(ENTRY_NUM - 1)) \ {<< >>})
  /\ \A i \in 1..Len(KernelTree) : Len(KernelTree[i]) > 1 =>
       \E j \in 1..(i - 1) : KernelTree[j] = Front(KernelTree[i])

VARIABLES
  used,      \* frames that alloc_pages will not give
  tree,      \* tree[p]: what the PML4 of p leads to, path by path
  mm,        \* the mm_struct of p, whose pgd is tree[p]
  loaded,    \* loaded[p]: what the mapped user pages of p were filled with
  spoiled    \* tables and pages of the kernel that were zeroed and freed

mem == <<used, tree, mm, loaded, spoiled>>

NoMap == [x \in {} |-> 0]

\* An area of the address space, and of an mm_struct the fields that are set:
\* the areas in the order of their list, what elf_content points to, with low
\* memory behind NULL, and the stack pointer to start with.
vm_area_struct == [vm_start : Nat, vm_end : Nat, vm_flags : Nat, vm_pgoff : Nat]
mm_struct ==
  [mmap : Seq(vm_area_struct), elf_content : {"low_memory", "content"}, rsp : Nat]

ZeroedMm == [mmap |-> << >>, elf_content |-> "low_memory", rsp |-> 0]

AddressSpaceInit ==
  /\ used = {} /\ spoiled = {}
  /\ tree = [p \in Proc |-> NoMap]
  /\ mm = [p \in Proc |-> ZeroedMm]
  /\ loaded = [p \in Proc |-> NoMap]

FreeCount == Cardinality(Frame \ used)

\* The i-th frame that alloc_pages(1) will give.
FreeFrame(i) ==
  CHOOSE f \in Frame \ used : Cardinality({g \in Frame \ used : g < f}) = i - 1

KernelPaths == {KernelTree[i] : i \in 1..Len(KernelTree)}
Position(x) == CHOOSE i \in 1..Len(KernelTree) : KernelTree[i] = x

\* The frames of the kernel's own tree, not in the pool or taken at boot.
KernelFrame(x) == -Position(x)

-----------------------------------------------------------------------------
(* mm_dup_pgd.                                                               *)

\* Mutant: the pages of the kernel are shared, only the tables are copied.
CopiedSharesPages(x) == IF Len(x) = 4 THEN KernelFrame(x) ELSE FreeFrame(Position(x) + 1)

\* The frame of the copy of x; the first frame is taken for the PML4.
Copied(x) == FreeFrame(Position(x) + 1)

CopyAll(p) ==
  /\ FreeCount > Len(KernelTree)
  /\ tree' = [tree EXCEPT ![p] = [x \in KernelPaths \cup {<< >>} |->
                                   IF x = << >> THEN FreeFrame(1) ELSE Copied(x)]]
  /\ used' = used \cup {FreeFrame(i) : i \in 1..(Len(KernelTree) + 1)}
  /\ UNCHANGED <<mm, loaded, spoiled>>

LowerHalf(x) == x # << >> /\ x[1] < ENTRY_NUM \div 2

\* A frame is missing after n copies: mm_clean_pgd and the free_pages of the
\* PML4.  A table is copied as it is before its entries are replaced one by
\* one, so that those not reached still lead to what the kernel uses, and
\* mm_clean_pgd frees that as well; it leaves the copies in the upper half.
CopyFails(p) ==
  /\ FreeCount <= Len(KernelTree)
  /\ LET n == FreeCount - 1 IN
       /\ spoiled' = spoiled \cup
            {x \in KernelPaths : LowerHalf(x) /\ Position(x) > n
                                 /\ Len(x) > 1 /\ Position(SubSeq(x, 1, 1)) <= n}
       /\ used' = used \cup
            {Copied(x) : x \in {y \in KernelPaths : ~LowerHalf(y) /\ Position(y) <= n}}
  /\ UNCHANGED <<tree, mm, loaded>>

\* A new area at the tail of mm->mmap.
AddArea(p, start, end, flags, pgoff) ==
  /\ mm' = [mm EXCEPT ![p].mmap =
       Append(@, [vm_start |-> start, vm_end |-> end, vm_flags |-> flags,
                  vm_pgoff |-> pgoff])]
  /\ UNCHANGED <<used, tree, loaded, spoiled>>

-----------------------------------------------------------------------------
(* do_mmap.                                                                  *)

\* The last area of the list that holds address a.
AreasOf(p, a) == {i \in 1..Len(mm[p].mmap) :
                    mm[p].mmap[i].vm_start <= a /\ a < mm[p].mmap[i].vm_end}
AreaOf(p, a)  == mm[p].mmap[CHOOSE i \in AreasOf(p, a) : \A j \in AreasOf(p, a) : j <= i]

Page(a)      == a \div PAGE_SIZE
PageStart(a) == Page(a) * PAGE_SIZE

\* The indices in the four levels of tables.
virtaddr2page(a) == [n \in 1..4 |-> (Page(a) \div ENTRY_NUM^(4 - n)) % ENTRY_NUM]

\* The page of a and the tables on the way to it, by their level.
Path(a, n) == SubSeq(virtaddr2page(a), 1, n)

\* The levels that are not present yet.
Missing(p, a) == {n \in 1..4 : Path(a, n) \notin DOMAIN tree[p]}

\* A byte is named by where it was copied from.
Zero == <<"zero", 0>>
From(p, offset) == [i \in 1..PAGE_SIZE |-> <<mm[p].elf_content, offset + i - 1>>]

FillLength(vma, a) ==
  IF PageStart(a) + PAGE_SIZE > vma.vm_end THEN vma.vm_end - PageStart(a) ELSE PAGE_SIZE

\* Mutant: the offset of the page in its area is forgotten.
FillFromStart(p, a) ==
  LET vma == AreaOf(p, a)
  IN  memcpy(memset(Zero, PAGE_SIZE), From(p, vma.vm_pgoff), FillLength(vma, a))

\* What the page of address a is filled with.
Fill(p, a) ==
  LET vma == AreaOf(p, a)
      src == vma.vm_pgoff + (IF PageStart(a) > vma.vm_start
                             THEN PageStart(a) - vma.vm_start ELSE 0)
  IN  memcpy(memset(Zero, PAGE_SIZE), From(p, src), FillLength(vma, a))

HasFrames(p, a) == Cardinality(Missing(p, a)) <= FreeCount

\* The tables and the page are made from the top.
MapPage(p, a) ==
  /\ AreasOf(p, a) # {} /\ HasFrames(p, a)
  /\ LET new   == {Path(a, n) : n \in Missing(p, a)}
         at(x) == FreeFrame(Cardinality({n \in Missing(p, a) : n <= Len(x)}))
     IN  /\ used' = used \cup {at(x) : x \in new}
         /\ tree' = [tree EXCEPT ![p] =
              [x \in DOMAIN @ \cup new |-> IF x \in new THEN at(x) ELSE @[x]]]
         /\ loaded' = IF virtaddr2page(a) \notin new THEN loaded
                      ELSE [loaded EXCEPT ![p] =
                             [v \in DOMAIN @ \cup {Page(a)} |->
                               IF v = Page(a) THEN Fill(p, a) ELSE @[v]]]
  /\ UNCHANGED <<mm, spoiled>>

-----------------------------------------------------------------------------
(* The end of an address space.                                              *)

\* free_pages of a set of frames, zeroing them.
Free(fs) ==
  /\ used' = used \ fs
  /\ spoiled' = spoiled \cup {x \in KernelPaths : KernelFrame(x) \in fs}

\* do_ummap_user, mm_clean: the kernel's table addresses it compares with are
\* never NULL, as HIGHER_HALF_OFFSET is added to every entry, so that nothing
\* below PML4[511], the last entry, is freed; the copy of that entry's table and
\* the PML4 are.
Unmapped(t) == {t[x] : x \in DOMAIN t \cap {<< >>, <<ENTRY_NUM - 1>>}}

Forget(p) ==
  /\ tree' = [tree EXCEPT ![p] = NoMap]
  /\ mm' = [mm EXCEPT ![p] = ZeroedMm]
  /\ loaded' = [loaded EXCEPT ![p] = NoMap]

Unmap(p) == Free(Unmapped(tree[p])) /\ Forget(p)

\* mm_clean_pgd: what lies below the lower half of the PML4.
Cleaned(t) == {t[x] : x \in {y \in DOMAIN t : LowerHalf(y)}}

\* The error path of kernel_exec.
DropFailed(p) == Free(Cleaned(tree[p]) \cup {tree[p][<< >>]}) /\ Forget(p)

-----------------------------------------------------------------------------
(* Properties.                                                               *)

FramesOf(t) == {t[x] : x \in DOMAIN t}

\* mm.c, pagemanager.c: no frame is the table or the page of two paths, in one
\* address space or in two, none of them is the kernel's own, and alloc_pages
\* cannot give one away while it is mapped.
PrivateFrames ==
  /\ \A p, q \in Proc : \A x \in DOMAIN tree[p], y \in DOMAIN tree[q] :
       tree[p][x] = tree[q][y] => p = q /\ x = y
  /\ \A p \in Proc : FramesOf(tree[p]) \subseteq Frame \cap used
=============================================================================
