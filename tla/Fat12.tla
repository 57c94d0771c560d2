--------------------------------- MODULE Fat12 --------------------------------
(***************************************************************************)
(* The FAT12 reader of kernel/arch/x86_64/fs/fat.c on top of the floppy:   *)
(* mounting, the search of the root directory by short or long name, and   *)
(* the walk along the cluster chain of a file.  A sector's bytes are those *)
(* of the disk image given by the constants; where the code looks at bytes *)
(* that are not the ones it takes them for, what follows is not tracked    *)
(* and sound is FALSE.                                                     *)
(***************************************************************************)
EXTENDS Floppy, Strings, SequencesExt

CONSTANTS
  BootSector,  \* the fields of sector 0 that fat12_mount reads
  RootDir,     \* the entries of the root directory, slot by slot
  Fat,         \* the file allocation table: a 12-bit value for each cluster
  Names        \* the file names that are looked up

BYTES_PER_SECTOR == 512
PER_SECTOR       == BYTES_PER_SECTOR \div 32

uint16_t == 0..65535

\* Of the boot sector, the fields that fat12_mount uses.
fat_BS_t ==
  [bytes_per_sector : uint16_t, sectors_per_cluster : Byte, table_count : Byte,
   reserved_sector_count : uint16_t, root_entry_count : uint16_t,
   total_sectors_16 : uint16_t, total_sectors_32 : Nat,
   table_size_16 : uint16_t, boot_signature : uint16_t]

\* A slot of the directory is the end mark, unused, a short entry, or a part of
\* a long name in 13 characters.
dirent_t ==
  [kind : {"short"}, name : [1..8 -> Byte], ext : [1..3 -> Byte],
   first_cluster_number_low : uint16_t, size : Nat]
long_file_name_ent_t == [kind : {"long"}, order : Byte, chars : [1..13 -> Byte]]
Slot == [kind : {"end", "unused"}] \cup dirent_t \cup long_file_name_ent_t

\* The order of the last part of a long name, which comes first, tells how many
\* there are.
LAST_LONG_ENTRY == 64
IsLastPart(e) == e.kind = "long" /\ (e.order \div LAST_LONG_ENTRY) % 2 = 1
Parts(e)      == e.order - LAST_LONG_ENTRY

ASSUME FatAssumption ==
  /\ BootSector \in fat_BS_t
  /\ \A s \in 1..Len(RootDir) :
       /\ RootDir[s] \in Slot
       /\ IsLastPart(RootDir[s]) =>
            \A i \in 1..(Parts(RootDir[s]) - 1) : RootDir[s + i].kind = "long"
  /\ Names # {} /\ \A n \in Names : n \in Seq(Byte) /\ \E i \in 1..Len(n) : n[i] = 0
  /\ DOMAIN Fat = 0..(Cardinality(DOMAIN Fat) - 1)
  /\ \A c \in DOMAIN Fat : Fat[c] \in 0..4095

\* What fat12_mount writes to the fat12_t: numbers of the boot sector, and the
\* layout computed from them.
fat_start_sector == BootSector.reserved_sector_count
root_start_lba   == fat_start_sector + BootSector.table_count * BootSector.table_size_16
root_dir_sectors == (BootSector.root_entry_count * 32 + BYTES_PER_SECTOR - 1)
                      \div BYTES_PER_SECTOR
data_start_lba   == root_start_lba + root_dir_sectors

fat12_t ==
  [bytes_per_sector    |-> BootSector.bytes_per_sector,
   sectors_per_cluster |-> BootSector.sectors_per_cluster,
   reserved_sectors    |-> BootSector.reserved_sector_count,
   num_fats            |-> BootSector.table_count,
   root_entry_count    |-> BootSector.root_entry_count,
   total_sectors       |-> IF BootSector.total_sectors_16 # 0
                           THEN BootSector.total_sectors_16
                           ELSE BootSector.total_sectors_32,
   sectors_per_fat     |-> BootSector.table_size_16,
   fat_start_sector    |-> fat_start_sector,
   root_start_lba      |-> root_start_lba,
   data_start_lba      |-> data_start_lba,
   root_dir_sectors    |-> root_dir_sectors]

VARIABLES
  fs,           \* the fat12_t of the kernel, all zero until a mount succeeds
  job,          \* the function under way: mount, size or file
  awaits,       \* what the sector being read is read for
  name, n83,    \* the name searched, and its 8 and 3 capitals
  dir,          \* the root sector it is searched in
  cl, remaining, pos, out,  \* of fat12_read_file; out: sectors and byte counts
  filesize,     \* what fat12_get_file_size returned: the max_len of the read
  result,       \* what the last function returned, FALSE for failure
  sound         \* only bytes that are what they are taken for were used

chain   == <<cl, remaining, pos, out>>
search  == <<name, n83, dir>>
fatVars == <<fs, job, awaits, search, chain, filesize, result, sound>>

-----------------------------------------------------------------------------
(* Names.                                                                   *)

Blank == 32
Dot == 46

Upper(c) == IF c \in 97..122 THEN c - 32 ELSE c
Padded(chars, k) ==
  SubSeq([i \in 1..Len(chars) |-> Upper(chars[i])] \o [i \in 1..k |-> Blank], 1, k)

\* Eight characters at most up to the first dot, and three of what follows if
\* the dot is the next one.
upper_padding(in) ==
  LET i == Min({9, strlen(in) + 1} \cup {j \in 1..strlen(in) : in[j] = Dot})
  IN  [name8 |-> Padded(SubSeq(in, 1, i - 1), 8),
       ext3  |-> IF in[i] # Dot THEN Padded(<< >>, 3)
                 ELSE Padded(SubSeq(in, i + 1, Min({i + 3, strlen(in)})), 3)]

Entry(i, j) == RootDir[i * PER_SECTOR + j + 1]

\* The name whose last part is in slot s: the characters of all parts, from the
\* part that comes last, up to a zero.
LongName == [s \in {t \in 1..Len(RootDir) : IsLastPart(RootDir[t])} |->
  LET buffer == FlattenSeq(Reverse([x \in 1..Parts(RootDir[s]) |-> RootDir[s + x - 1].chars]))
  IN  SubSeq(buffer, 1, strlen(buffer \o <<0>>))]

\* check_long_file_name = 0
LongNameIs(i, j, n) == LongName[i * PER_SECTOR + j + 1] = SubSeq(n, 1, strlen(n))

\* The entry in slot j of root sector i is the one searched; a long name whose
\* parts go on behind the buffer may be anything.
Match(i, j) ==
  LET e == Entry(i, j) IN
  \/ /\ e.kind = "short"
     /\ memcmp(e.name, n83.name8, 8) = 0
     /\ memcmp(e.ext, n83.ext3, 3) = 0
  \/ IsLastPart(e) /\ (j + Parts(e) > PER_SECTOR \/ LongNameIs(i, j, name))

\* Where the search of root sector i stops: the end mark or a match.
Stops(i) == {j \in 0..(PER_SECTOR - 1) : Entry(i, j).kind = "end" \/ Match(i, j)}

\* The slot that is returned: the short entry that follows the parts of a
\* long name, which may lie behind the end of the sector.
FoundAt(i, j) ==
  IF Entry(i, j).kind = "long" THEN j + Parts(Entry(i, j)) ELSE j

-----------------------------------------------------------------------------
FatInit ==
  /\ FloppyInit
  /\ fs = [field \in DOMAIN fat12_t |-> 0] /\ job = "none" /\ awaits = "none"
  /\ name = (CHOOSE n \in Names : TRUE) /\ n83 = upper_padding(name) /\ dir = 0
  /\ cl = 0 /\ remaining = 0 /\ pos = 0 /\ out = << >>
  /\ filesize = 0 /\ result = FALSE /\ sound = TRUE

-----------------------------------------------------------------------------
(* read_fat_entry and the geometry.                                         *)

cluster_to_lba(c) == fs.data_start_lba + (c - 2) * fs.sectors_per_cluster

FatOffset(c) == c + (c \div 2)
FatSector(c) == fs.fat_start_sector + FatOffset(c) \div BYTES_PER_SECTOR

\* The entry's two bytes lie in two sectors: the second one is read from
\* behind the buffer.
Straddles(c) == FatOffset(c) % BYTES_PER_SECTOR = BYTES_PER_SECTOR - 1

\* Byte o of the table: two entries share three bytes.
FatByte(o) ==
  LET even == 2 * (o \div 3)
  IN  CASE o % 3 = 0 -> Fat[even] % 256
        [] o % 3 = 1 -> (Fat[even] \div 256) + 16 * (Fat[even + 1] % 16)
        [] OTHER     -> Fat[even + 1] \div 16

\* Mutant: even and odd clusters are taken for each other.
PickSwapped(c, low, high) ==
  LET val == low + 256 * high IN IF c % 2 = 0 THEN val \div 16 ELSE val % 4096

Pick(c, low, high) ==
  LET val == low + 256 * high IN IF c % 2 = 1 THEN val \div 16 ELSE val % 4096

\* The values read_fat_entry may give for cluster c.  Bytes that are not of
\* the table are 0 or 255 (a bound).
FatEntry(c) ==
  LET o == FatOffset(c)
  IN  {Pick(c, low, high) :
         low \in IF c \in DOMAIN Fat THEN {FatByte(o)} ELSE {0, 255},
         high \in IF c \in DOMAIN Fat /\ ~Straddles(c) THEN {FatByte(o + 1)} ELSE {0, 255}}

-----------------------------------------------------------------------------
(* The steps.  Each one deals with the sector that has arrived and asks for  *)
(* the next.                                                                 *)

Arrived(what) == awaits = what /\ fdpc = "idle"
AskFor(lba, what) == FloppyRead(lba) /\ awaits' = what
Finish(r) == awaits' = "none" /\ result' = r /\ UNCHANGED floppy

\* Bytes that are not what they are taken for: any outcome.
Astray ==
  /\ \E r \in BOOLEAN : Finish(r)
  /\ sound' = FALSE
  /\ UNCHANGED <<fs, job, search, chain, filesize>>

\* fat12_mount
MountCall ==
  /\ job = "none" /\ job' = "mount" /\ AskFor(0, "boot") /\ sound' = TRUE
  /\ UNCHANGED <<fs, search, chain, filesize, result>>

IsFat12 == /\ BootSector.bytes_per_sector = BYTES_PER_SECTOR
           /\ BootSector.boot_signature = 43605     \* 0xAA55
           /\ BootSector.table_size_16 # 0

\* A buffer that is not the boot sector does not pass the tests.
BootRead ==
  /\ Arrived("boot")
  /\ LET mounted == ok /\ buffer512 = 0 /\ IsFat12 IN
       /\ fs' = IF mounted THEN fat12_t ELSE fs
       /\ Finish(mounted)
  /\ UNCHANGED <<job, search, chain, filesize, sound>>

\* fat12_get_file_size and fat12_read_file start with find_by_name; with an
\* fs that was never mounted, root_dir_sectors is zero.
FindCall(j, n) ==
  /\ job = "none" /\ job' = j /\ name' = n /\ n83' = upper_padding(n) /\ dir' = 0
  /\ sound' = (j = "size" \/ sound)
  /\ pos' = 0 /\ out' = << >>
  /\ \/ fs.root_dir_sectors > 0 /\ AskFor(fs.root_start_lba, "dir") /\ UNCHANGED result
     \/ fs.root_dir_sectors = 0 /\ Finish(FALSE)
  /\ UNCHANGED <<fs, cl, remaining, filesize>>

\* The head of the loop of fat12_read_file.
Follow(c, rem, p) ==
  \/ /\ c \in 2..4087 /\ rem > 0 /\ p < filesize
     /\ AskFor(cluster_to_lba(c), "data") /\ UNCHANGED result
  \/ ~(c \in 2..4087 /\ rem > 0 /\ p < filesize) /\ Finish(TRUE)

DirAstray ==
  /\ Arrived("dir") /\ ok
  /\ \/ buffer512 # fs.root_start_lba + dir
     \/ /\ Stops(dir) # {}
        /\ LET j == Min(Stops(dir)) IN
             Entry(dir, j).kind # "end" /\ FoundAt(dir, j) >= PER_SECTOR
  /\ Astray

DirNext ==
  /\ Arrived("dir") /\ ok /\ buffer512 = fs.root_start_lba + dir
  /\ Stops(dir) = {} /\ dir + 1 < fs.root_dir_sectors
  /\ dir' = dir + 1 /\ AskFor(fs.root_start_lba + dir + 1, "dir")
  /\ UNCHANGED <<fs, job, name, n83, chain, filesize, result, sound>>

DirFails ==
  /\ Arrived("dir")
  /\ \/ ~ok
     \/ /\ buffer512 = fs.root_start_lba + dir
        /\ \/ Stops(dir) = {} /\ dir + 1 >= fs.root_dir_sectors
           \/ Stops(dir) # {} /\ Entry(dir, Min(Stops(dir))).kind = "end"
  /\ Finish(FALSE)
  /\ UNCHANGED <<fs, job, search, chain, filesize, sound>>

DirFound ==
  /\ Arrived("dir") /\ ok /\ buffer512 = fs.root_start_lba + dir
  /\ Stops(dir) # {}
  /\ LET j == Min(Stops(dir))
         k == FoundAt(dir, j)
         e == Entry(dir, k)
     IN  /\ Entry(dir, j).kind # "end" /\ k < PER_SECTOR
         /\ \/ job = "size" /\ filesize' = e.size /\ Finish(TRUE)
               /\ UNCHANGED <<cl, remaining>>
            \/ job = "file" /\ cl' = e.first_cluster_number_low /\ remaining' = e.size
               /\ Follow(e.first_cluster_number_low, e.size, 0) /\ UNCHANGED filesize
  /\ UNCHANGED <<fs, job, search, pos, out, sound>>

ReadFails ==
  /\ (Arrived("data") \/ Arrived("fat")) /\ ~ok
  /\ Finish(FALSE)
  /\ UNCHANGED <<fs, job, search, chain, filesize, sound>>

DataRead ==
  /\ Arrived("data") /\ ok
  /\ LET tocpy == Min({remaining, BYTES_PER_SECTOR, filesize - pos}) IN
       /\ out' = Append(out, <<buffer512, tocpy>>)
       /\ pos' = pos + tocpy /\ remaining' = remaining - tocpy
  /\ sound' = (sound /\ buffer512 = want)
  /\ AskFor(FatSector(cl), "fat")
  /\ UNCHANGED <<fs, job, search, cl, filesize, result>>

FatRead ==
  /\ Arrived("fat") /\ ok /\ buffer512 = want
  /\ cl' \in FatEntry(cl)
  /\ sound' = (sound /\ ~Straddles(cl))
  /\ Follow(cl', remaining, pos)
  /\ UNCHANGED <<fs, job, search, remaining, pos, out, filesize>>

FatAstray == Arrived("fat") /\ ok /\ buffer512 # want /\ Astray

\* The caller takes the result.
Return ==
  /\ job # "none" /\ awaits = "none" /\ job' = "none"
  /\ UNCHANGED <<floppy, fs, awaits, search, chain, filesize, result, sound>>

FatStep ==
  \/ BootRead \/ DirAstray \/ DirNext \/ DirFails \/ DirFound
  \/ ReadFails \/ DataRead \/ FatRead \/ FatAstray

-----------------------------------------------------------------------------
(* Properties.                                                              *)

\* The file called n: a short entry with that name and extension, the blanks
\* behind them left out, or one behind the parts of that long name.
Chars(n) == SubSeq(n, 1, strlen(n))
Trimmed(chars) == SubSeq(chars, 1, Max({0} \cup {i \in DOMAIN chars : chars[i] # Blank}))
Written(e) ==
  Trimmed(e.name) \o (IF Trimmed(e.ext) = << >> THEN << >> ELSE <<Dot>> \o Trimmed(e.ext))

HasShortName(s, n) == Written(RootDir[s]) = [i \in 1..strlen(n) |-> Upper(n[i])]
HasLongName(s, n) ==
  \E k \in 1..(s - 1) :
    /\ RootDir[s - k].kind = "long" /\ RootDir[s - k].order = LAST_LONG_ENTRY + k
    /\ LET all == [x \in 1..(13 * k) |->
                    RootDir[s - 1 - ((x - 1) \div 13)].chars[((x - 1) % 13) + 1]]
       IN  Chars(Append(all, 0)) = Chars(n)

Called(n) == {s \in 1..Len(RootDir) :
                RootDir[s].kind = "short" /\ (HasShortName(s, n) \/ HasLongName(s, n))}
FileOf(n) == RootDir[Min(Called(n))]

\* The i-th cluster of the file, and how many sectors it fills.
ClusterOf(n, i) ==
  LET c[k \in 1..i] == IF k = 1 THEN FileOf(n).first_cluster_number_low ELSE Fat[c[k - 1]] IN c[i]
Sectors(size) == (size + BYTES_PER_SECTOR - 1) \div BYTES_PER_SECTOR

\* A name that a short entry can have: up to eight characters and up to three
\* behind a dot, with no blank before the dot or at the end.
IsShortName(n) ==
  \E d \in 1..9 :
    /\ \A i \in 1..(d - 1) : n[i] # Dot
    /\ d > 1 => n[d - 1] # Blank
    /\ \/ strlen(n) = d - 1
       \/ n[d] = Dot /\ strlen(n) \in (d + 1)..(d + 3) /\ n[strlen(n)] # Blank

\* A disk as mkfs.fat lays it out and as drivers with long names leave it, with
\* clusters of one sector, which is all that fat12_read_file reads of them: the
\* directory fills its sectors, a short entry follows the parts of a long name,
\* each file has the clusters its size takes, and no entry has the name that
\* upper_padding cuts a longer name to.
DirectoryIsWhole ==
  /\ RootDir \in Seq(Slot) /\ Len(RootDir) = root_dir_sectors * PER_SECTOR
  /\ \A s \in 1..Len(RootDir) :
       /\ RootDir[s].kind = "short" => \A i \in 1..8 : RootDir[s].name[i] # Dot
       /\ RootDir[s].kind = "long" =>
            RootDir[s].order \in 1..20 \cup (LAST_LONG_ENTRY + 1)..(LAST_LONG_ENTRY + 20)
       /\ IsLastPart(RootDir[s]) =>
            /\ s + Parts(RootDir[s]) <= Len(RootDir)
            /\ RootDir[s + Parts(RootDir[s])].kind = "short"
NothingCut ==
  \A n \in Names : IsShortName(n) \/
    \A s \in 1..Len(RootDir) :
      RootDir[s].kind = "short" =>
        \/ RootDir[s].name # upper_padding(n).name8
        \/ RootDir[s].ext # upper_padding(n).ext3
ChainsAreWhole ==
  /\ \A c \in DOMAIN Fat : (IF c % 2 = 0 THEN c + 1 ELSE c - 1) \in DOMAIN Fat
  /\ \A n \in Names : Called(n) # {} =>
       \A i \in 1..Sectors(FileOf(n).size) : ClusterOf(n, i) \in DOMAIN Fat \cap 2..4087

ASSUME DiskAssumption ==
  BootSector.sectors_per_cluster = 1 /\ DirectoryIsWhole /\ NothingCut /\ ChainsAreWhole

\* fat.c: a file that is read with success is the one of that name, sector by
\* sector along its chain and byte by byte up to its size; only skipped
\* controller errors, an entry of the table across two sectors and a long name
\* at the end of a directory sector lead astray.
FileIsRead ==
  job # "none" /\ awaits = "none" /\ result /\ sound =>
    /\ job = "size" => filesize = FileOf(name).size
    /\ job = "file" =>
         /\ pos = FileOf(name).size
         /\ Len(out) = Sectors(pos)
         /\ \A i \in 1..Len(out) :
              out[i] = <<data_start_lba + ClusterOf(name, i) - 2,
                         Min({BYTES_PER_SECTOR, pos - (i - 1) * BYTES_PER_SECTOR})>>
=============================================================================
