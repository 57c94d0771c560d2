--------------------------------- MODULE MCExec -------------------------------
(* A 1.44 MB floppy and a small page-table tree for TLC.                      *)
EXTENDS Exec

CONSTANTS p, q

\* As mkfs.fat -F 12 lays it out: the root directory at 19, data from 33 on.
Floppy144 ==
  [bytes_per_sector |-> 512, boot_signature |-> 43605, table_size_16 |-> 9,
   total_sectors_16 |-> 2880, total_sectors_32 |-> 0,
   reserved_sector_count |-> 1, table_count |-> 2, root_entry_count |-> 224,
   sectors_per_cluster |-> 1]

\* Names in ASCII, and the same in capitals and blanks: SHELL_~1, SHELL, LATE,
\* ELF and no extension.
shell_user == <<115, 104, 101, 108, 108, 95, 117, 115, 101, 114, 46, 101, 108, 102, 0>>
shell      == <<115, 104, 101, 108, 108, 0>>
late       == <<108, 97, 116, 101, 46, 101, 108, 102, 0>>
none       == <<110, 111, 110, 101, 46, 101, 108, 102, 0>>

SHELL_1 == <<83, 72, 69, 76, 76, 95, 126, 49>>
SHELL   == <<83, 72, 69, 76, 76, 32, 32, 32>>
LATE    == <<76, 65, 84, 69, 32, 32, 32, 32>>
ELF     == <<69, 76, 70>>
NOEXT   == <<32, 32, 32>>

NamesMC == {shell_user, shell, late, none}

\* shell_user.elf: 700 bytes in clusters 3 and 340, found by its long name only.
\* shell: its chain goes on at cluster 341, whose entry straddles
\* two sectors, and another file differs in the extension only.  late.elf has a
\* long name whose short entry lies in the next sector of the directory.
Deleted == [kind |-> "unused"]
Short(n, e, c, s) ==
  [kind |-> "short", name |-> n, ext |-> e,
   first_cluster_number_low |-> c, size |-> s]
Long(k, chars) == [kind |-> "long", order |-> k, chars |-> chars]

Root == [s \in 1..224 |->
  CASE s = 2  -> Long(66, <<102, 0, 255, 255, 255, 255, 255, 255, 255, 255, 255, 255, 255>>)
    [] s = 3  -> Long(1, <<115, 104, 101, 108, 108, 95, 117, 115, 101, 114, 46, 101, 108>>)
    [] s = 4  -> Short(SHELL_1, ELF, 3, 700)
    [] s = 5  -> Short(SHELL, ELF, 7, 200)
    [] s = 16 -> Long(65, <<108, 97, 116, 101, 46, 101, 108, 102, 0, 255, 255, 255, 255>>)
    [] s = 17 -> Short(LATE, ELF, 5, 100)
    [] s = 18 -> Short(SHELL, NOEXT, 341, 1000)
    [] s = 19 -> [kind |-> "end"]
    [] OTHER  -> Deleted]

Table == [c \in 0..3071 |->
  CASE c = 3   -> 340
    [] c = 340 -> 4095
    [] c = 5   -> 4088
    [] c = 341 -> 342
    [] c = 342 -> 4095
    [] OTHER   -> 0]

\* Tables have four entries: PML4[3] stands for PML4[511].  The kernel maps its
\* low pages one by one; the last entry leads to huge pages and to the directory
\* of the VGA memory.
KernelPathsMC ==
  << <<0>>, <<0, 0>>, <<0, 0, 0>>, <<0, 0, 0, 0>>, <<3>>, <<3, 3>> >>

Segment(t, a, m, o) ==
  [p_type |-> t, p_vaddr |-> a, p_memsz |-> m, p_filesz |-> m, p_offset |-> o]
Image(type, headers) ==
  [e_ident |-> <<127, 69, 76, 70>>, e_type |-> type, e_machine |-> EM_X86_64,
   e_phdr |-> headers]

\* The segment of shell_user.elf ends in the middle of its second page, and a
\* note comes before it; late.elf is not executable; shell has two segments that
\* share a page.
ElfMC == [lba \in {34, 36, 372} |->
  CASE lba = 34  -> Image(ET_EXEC, <<Segment(4, 0, 1, 9), Segment(PT_LOAD, 8, 3, 10)>>)
    [] lba = 36  -> Image(1, << >>)
    [] lba = 372 -> Image(ET_EXEC, <<Segment(PT_LOAD, 8, 3, 10), Segment(PT_LOAD, 11, 1, 13)>>)]
=============================================================================
