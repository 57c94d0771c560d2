------------------------------- MODULE BootPages ------------------------------
(***************************************************************************)
(* The page tables that boot/boot.s sets up, and where they lead.  The     *)
(* numbers of a 64-bit address are too large for TLC: an address is what   *)
(* mm/pgtable.h takes it apart into, its indices and the rest.             *)
(***************************************************************************)
EXTENDS Integers

SmallPage == 4096
LargePage == 512 * SmallPage
HugePage  == 512 * LargePage

\* set_page: the first gigabyte of memory appears at 0 and behind
\* HIGHER_HALF_OFFSET, its first two megabytes once more behind that.
page_map_level4           == {0, 511}
kernel_page_directory_ptr == {0, 510}
vga_page_directory        == {0}

\* pml4_index .. pd_index of HIGHER_HALF_OFFSET + x.
HigherHalf(x) ==
  [pml4  |-> 511, pdptr |-> 510 + x \div HugePage,
   pd    |-> (x % HugePage) \div LargePage, rest |-> x % LargePage]

\* The address in memory that the CPU finds by the tables.
Mapped(va) ==
  /\ va.pml4 \in page_map_level4
  /\ \/ va.pdptr \in kernel_page_directory_ptr
     \/ va.pdptr = 511 /\ va.pd \in vga_page_directory
Physical(va) ==
  IF va.pdptr \in kernel_page_directory_ptr THEN va.pd * LargePage + va.rest ELSE va.rest

\* The kernel reaches the byte of memory at x.
Reached(x) == Mapped(HigherHalf(x)) /\ Physical(HigherHalf(x)) = x
===============================================================================
