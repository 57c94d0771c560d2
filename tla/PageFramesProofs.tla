--------------------------- MODULE PageFramesProofs ---------------------------
(***************************************************************************)
(* Theorems about PageFrames, for every memory map, every kernel size and  *)
(* every set of callers: types, the place of the frames in memory, and     *)
(* first fit.                                                              *)
(***************************************************************************)
EXTENDS PageFrames, NumberProofs

-----------------------------------------------------------------------------
(* Least elements.                                                          *)

\* The least element of a set that has one.
LEMMA MinIsLeast ==
  ASSUME NEW S \in SUBSET Int, \E x \in S : \A y \in S : x <= y
  PROVE  Min(S) \in S /\ \A y \in S : Min(S) <= y
BY DEF Min

\* The smaller of two numbers is one of them and exceeds neither.
LEMMA MinTwo ==
  ASSUME NEW a \in Int, NEW b \in Int, NEW m, m = Min({a, b})
  PROVE  m \in Int /\ m <= a /\ m <= b
<1> DEFINE S == {a, b}
<1>0. S \in SUBSET Int
  OBVIOUS
<1>1. \E x \in S : \A y \in S : x <= y
  OBVIOUS
<1>2. m = Min(S) /\ a \in S /\ b \in S
  OBVIOUS
<1> HIDE DEF S
<1>3. m = CHOOSE x \in S : \A y \in S : x <= y
  BY <1>2 DEF Min
<1>4. m \in S /\ \A y \in S : m <= y
  BY <1>1, <1>3
<1> QED BY <1>0, <1>2, <1>4

-----------------------------------------------------------------------------
(* kalloc_frame_init.                                                       *)

LEMMA RamEndNat == ram_end \in Nat
<1> DEFINE S == Found
<1>1. MemoryMap \in Seq([addr : Nat, len : Nat, type : 1..5])
  BY PageFramesAssumption DEF PageFramesAssumption, multiboot_memory_map_t
<1>2. S # {} /\ S \in SUBSET Nat
  <2>1. Found # {}
    BY PageFramesAssumption DEF PageFramesAssumption
  <2>2. Found \subseteq 1..Len(MemoryMap)
    BY DEF Found, Looked
  <2> QED BY <1>1, <2>1, <2>2
<1>3. Min(S) \in S
  <2>1. \E x \in S : \A y \in S : x <= y
    BY <1>2, LeastExists
  <2> HIDE DEF S
  <2> QED BY <1>2, <2>1, MinIsLeast
<1>4. Min(S) \in 1..Len(MemoryMap)
  BY <1>3 DEF Found, Looked
<1>5. ram_end = MemoryMap[Min(S)].addr + MemoryMap[Min(S)].len
  BY DEF ram_end
<1> HIDE DEF S
<1>6. ASSUME NEW R, MemoryMap \in Seq(R), NEW j \in 1..Len(MemoryMap)
      PROVE  MemoryMap[j] \in R
  BY <1>6
<1>7. MemoryMap[Min(S)] \in [addr : Nat, len : Nat, type : 1..5]
  BY <1>1, <1>4, <1>6
<1> QED BY <1>5, <1>7

\* The bitmap starts at an address.
LEMMA BitmapStartNat == BitmapStart \in Nat
BY PageFramesAssumption DEF PageFramesAssumption, BitmapStart, WORD

\* The number of frames is within both limits.
LEMMA LayoutIs ==
  /\ Estimate \in Int /\ startframe \in Int /\ npages \in Int
  /\ 4097 * Estimate <= ram_end - BitmapStart
  /\ ram_end - BitmapStart < 4097 * (Estimate + 1)
  /\ BitmapStart + 8 * (Estimate \div 64) <= startframe
  /\ npages <= Estimate
  /\ 32768 * npages <= ram_end - 4096 - startframe
<1>1. /\ Estimate \in Int
      /\ 4097 * Estimate <= ram_end - BitmapStart
      /\ ram_end - BitmapStart < 4097 * (Estimate + 1)
  BY RamEndNat, BitmapStartNat DEF Estimate, PAGE_SIZE
<1>2. startframe \in Int /\ BitmapStart + 8 * (Estimate \div 64) <= startframe
  <2> DEFINE behind == BitmapStart + WORD * (Estimate \div UINT64_BITS)
  <2>1. behind \in Int /\ behind = BitmapStart + 8 * (Estimate \div 64)
    BY <1>1, BitmapStartNat DEF WORD, UINT64_BITS
  <2>2. startframe = IF behind % 4096 = 0 THEN behind ELSE (behind \div 4096 + 1) * 4096
    BY DEF startframe, PAGE_SIZE
  <2> HIDE DEF behind
  <2>3. behind <= (behind \div 4096 + 1) * 4096
    BY <2>1
  <2> QED BY <2>1, <2>2, <2>3
<1> DEFINE limit == (ram_end - 4096 - startframe) \div 32768
<1>3. limit \in Int /\ 32768 * limit <= ram_end - 4096 - startframe
  BY <1>2, RamEndNat
<1>4. npages = Min({Estimate, limit})
  BY DEF npages, PAGE_SIZE, WORD
<1> HIDE DEF limit
<1>5. npages \in Int /\ npages <= Estimate /\ npages <= limit
  BY <1>1, <1>3, <1>4, MinTwo
<1>6. 32768 * npages <= ram_end - 4096 - startframe
  BY <1>3, <1>5, <1>2, RamEndNat
<1> QED BY <1>1, <1>2, <1>5, <1>6

-----------------------------------------------------------------------------
(* Types.                                                                   *)

LEMMA TypeInit == Init => TypeOK
<1> SUFFICES ASSUME Init PROVE TypeOK
  OBVIOUS
<1>1. frame_map \in [Frame -> {0, 1}]
  BY DEF Init
<1>2. npages \in Int /\ RemapFrames \in Int
  <2>1. npages \in Int
    BY LayoutIs
  <2>2. KernelEnd \in Nat
    BY PageFramesAssumption DEF PageFramesAssumption
  <2> QED BY <2>1, <2>2 DEF RemapFrames, PAGE_SIZE, ENTRY_NUM
<1>3. 0 <= RemapFrames
  BY PageFramesAssumption DEF PageFramesAssumption, RemapFrames, PAGE_SIZE, ENTRY_NUM
<1>4. NoPages \in PageAlloc
  BY <1>2, <1>3 DEF Init, NoPages, PageAlloc, Frame
<1> QED BY <1>1, <1>4 DEF Init, TypeOK

\* A candidate is the start of a run of free frames.
LEMMA CandidateIs ==
  ASSUME NEW count \in Nat, NEW i \in Candidates(count)
  PROVE  /\ count # 0 /\ count < npages
         /\ i \in 0..(npages - count) /\ i + count < npages
         /\ \A f \in i..(i + count - 1) : frame_map[f] = 0
<1>1. npages \in Int
  BY LayoutIs
<1>2. count # 0 /\ count < npages /\ i \in 0..(npages - count) /\ ContinuousFree(i, count)
  BY <1>1 DEF Candidates
<1>3. ASSUME NEW f \in i..(i + count - 1) PROVE frame_map[f] = 0
  <2>1. f - i \in 0..(count - 1) /\ i + (f - i) = f
    BY <1>1, <1>2
  <2> QED BY <2>1, <1>2 DEF ContinuousFree
<1> QED BY <1>2, <1>3 DEF ContinuousFree

\* Marking a run of frames keeps the map a map of bits.
LEMMA SetKeepsType ==
  ASSUME frame_map \in [Frame -> {0, 1}], NEW run, NEW val \in {0, 1}, SetFrameMap(run, val)
  PROVE  frame_map' \in [Frame -> {0, 1}]
BY DEF SetFrameMap

\* Every step keeps the types.
LEMMA TypeStep == TypeOK /\ [Next]_vars => TypeOK'
<1> SUFFICES ASSUME TypeOK, [Next]_vars PROVE TypeOK'
  OBVIOUS
<1>m. MaxRun \in Nat /\ npages \in Int
  BY PageFramesAssumption, LayoutIs DEF PageFramesAssumption
<1>1. ASSUME NEW o \in Owner, NEW count \in 0..MaxRun, AllocPages(o, count)
      PROVE  TypeOK'
  <2>1. PICK i \in Candidates(count) :
          /\ SetFrameMap(i..(i + count - 1), 1)
          /\ pa' = [pa EXCEPT ![o] = [page |-> i, npages |-> count]]
    BY <1>1 DEF AllocPages
  <2>2. count # 0 /\ count < npages /\ i \in 0..(npages - count) /\ i + count < npages
    BY <1>m, CandidateIs
  <2>3. i \in Frame /\ count \in 0..npages
    BY <1>m, <2>2 DEF Frame
  <2>4. pa' \in [Owner -> PageAlloc]
    BY <2>1, <2>3 DEF PageAlloc, TypeOK
  <2> QED BY <2>1, <2>4, SetKeepsType DEF TypeOK
<1>2. ASSUME NEW o \in Owner, NEW count \in 0..MaxRun, AllocFails(o, count)
      PROVE  TypeOK'
  BY <1>2 DEF AllocFails, TypeOK, vars
<1>3. ASSUME NEW o \in Owner, FreePages(o)
      PROVE  TypeOK'
  <2>1. 0 \in Frame /\ 0 \in 0..npages
    BY <1>m DEF TypeOK, PageAlloc, Frame
  <2>2. pa' \in [Owner -> PageAlloc]
    BY <1>3, <2>1 DEF FreePages, NoPages, PageAlloc, TypeOK
  <2> QED BY <1>3, <2>2, SetKeepsType DEF FreePages, TypeOK
<1>4. CASE UNCHANGED vars
  BY <1>4 DEF TypeOK, vars
<1> QED BY <1>1, <1>2, <1>3, <1>4 DEF Next

\* The bitmap has one bit per frame, and every run a caller holds begins at a
\* frame.
THEOREM TypeCorrect == Spec => []TypeOK
<1> QED BY TypeInit, TypeStep, PTL DEF Spec

-----------------------------------------------------------------------------
(* kalloc_frame_init, 109-117.                                              *)

\* The first gigabyte of memory is reached.
LEMMA LowIsReached ==
  ASSUME NEW x \in Nat, x < 1073741824
  PROVE  Reached(x)
<1>1. x \div 1073741824 = 0 /\ x % 1073741824 = x
  OBVIOUS
<1>2. HigherHalf(x) = [pml4 |-> 511, pdptr |-> 510, pd |-> x \div 2097152, rest |-> x % 2097152]
  BY <1>1 DEF HigherHalf, HugePage, LargePage, SmallPage
<1>3. (x \div 2097152) * 2097152 + (x % 2097152) = x
  OBVIOUS
<1> QED BY <1>2, <1>3
     DEF Reached, Mapped, Physical, page_map_level4, kernel_page_directory_ptr,
         LargePage, SmallPage

\* The first frame comes soon after the kernel.
LEMMA StartIsLow ==
  ASSUME ram_end \div 8 <= 536870912, KernelEnd <= 268435456
  PROVE  startframe \in Nat /\ startframe <= 300000000
<1> DEFINE behind == BitmapStart + WORD * (Estimate \div UINT64_BITS)
<1>1. /\ Estimate \in Int /\ 4097 * Estimate <= ram_end - BitmapStart
      /\ ram_end - BitmapStart < 4097 * (Estimate + 1)
      /\ ram_end \in Nat /\ KernelEnd \in Nat /\ BitmapStart = KernelEnd + 8
  BY LayoutIs, RamEndNat, PageFramesAssumption DEF PageFramesAssumption, BitmapStart, WORD
<1>2. startframe = IF behind % 4096 = 0 THEN behind ELSE (behind \div 4096 + 1) * 4096
  BY DEF startframe, PAGE_SIZE
<1>3. Estimate <= 1048600
  BY <1>1
<1>4. 0 <= Estimate
  <2>1. startframe + 4096 <= ram_end /\ startframe \in Int
    BY PageFramesAssumption, LayoutIs DEF PageFramesAssumption, PAGE_SIZE
  <2>2. BitmapStart + 8 * (Estimate \div 64) <= startframe
    BY LayoutIs
  <2>3. BitmapStart + 8 * (Estimate \div 64) <= ram_end - 4096
    BY <1>1, <2>1, <2>2
  <2> QED BY <1>1, <2>3
<1>5. behind \in Nat /\ behind <= 299000000
  BY <1>1, <1>3, <1>4 DEF WORD, UINT64_BITS
<1> HIDE DEF behind
<1>6. (behind \div 4096 + 1) * 4096 <= behind + 4096 /\ (behind \div 4096 + 1) * 4096 \in Nat
  BY <1>5
<1> QED BY <1>2, <1>5, <1>6

\* With memory of up to 4 GB and a kernel below 256 MB, all frames lie below
\* 1 GB.
LEMMA FramesBelow1GB ==
  ASSUME ram_end \div 8 <= 536870912, KernelEnd <= 268435456
  PROVE  startframe + 4096 * npages <= 1073741824
<1>1. startframe \in Nat /\ startframe <= 300000000
  BY StartIsLow
<1>2. 32768 * npages <= ram_end - 4096 - startframe /\ npages \in Int /\ ram_end \in Nat
  BY LayoutIs, RamEndNat
<1> QED BY <1>1, <1>2

\* The words of the bitmap end before the first frame, and every frame lies
\* before the last page of memory and where the kernel reaches it, although the loop which counts the frames
\* down compares pointers to words.
LEMMA LayoutFits == TypeOK => FramesInMemory
<1> SUFFICES ASSUME TypeOK, NEW f \in Frame
             PROVE  /\ ram_end \div 8 <= HugePage \div 2 /\ KernelEnd <= HugePage \div 4 =>
                         /\ Reached(startframe + f * PAGE_SIZE)
                         /\ Reached(startframe + (f + 1) * PAGE_SIZE - 1)
                    /\ startframe + (f + 1) * PAGE_SIZE <= ram_end - PAGE_SIZE
                    /\ Estimate >= UINT64_BITS
                         => BitmapStart + WORD * (f \div UINT64_BITS + 1) <= startframe
  BY DEF TypeOK, FramesInMemory
<1>1. f \in Nat /\ f + 1 <= npages /\ npages \in Int /\ ram_end \in Int /\ startframe \in Int
      /\ BitmapStart \in Int /\ Estimate \in Int
  BY LayoutIs, RamEndNat, BitmapStartNat DEF Frame
<1>2. 32768 * npages <= ram_end - 4096 - startframe
  BY LayoutIs
<1>3. startframe + (f + 1) * 4096 <= ram_end - 4096
  BY <1>1, <1>2
<1>4. ASSUME Estimate >= 64
      PROVE  BitmapStart + 8 * (f \div 64 + 1) <= startframe
  <2> DEFINE words == Estimate \div 64
  <2>1. words \in Int /\ words >= 1 /\ Estimate < 64 * (words + 1)
    BY <1>1, <1>4
  <2>2. /\ ram_end - BitmapStart < 4097 * (Estimate + 1)
        /\ BitmapStart + 8 * words <= startframe
    BY LayoutIs
  <2> HIDE DEF words
  <2>3. 32768 * npages < 4097 * (Estimate + 1)
    BY <1>1, <1>2, <2>1, <2>2
  <2>4. f < 64 * words
    BY <1>1, <2>1, <2>3
  <2>5. f \div 64 + 1 <= words
    BY <1>1, <2>1, <2>4
  <2>6. f \div 64 \in Int
    BY <1>1
  <2> QED BY <1>1, <2>1, <2>2, <2>5, <2>6
<1>5. ASSUME ram_end \div 8 <= 536870912, KernelEnd <= 268435456
      PROVE  /\ Reached(startframe + f * 4096)
             /\ Reached(startframe + (f + 1) * 4096 - 1)
  <2>1. startframe + 4096 * npages <= 1073741824 /\ 0 <= startframe
    BY <1>5, StartIsLow, FramesBelow1GB
  <2> QED BY <1>1, <2>1, LowIsReached
<1> QED BY <1>3, <1>4, <1>5 DEF PAGE_SIZE, WORD, UINT64_BITS, HugePage, LargePage, SmallPage

\* pagemanager.c 109-117: for every size of memory and every end of the
\* kernel, the bitmap ends before the first frame, every frame lies in
\* memory, and with memory of up to 4 GB and a kernel that ends below 256 MB
\* each byte of a frame is reached at its kernel address.
THEOREM LayoutCorrect == Spec => []FramesInMemory
<1> QED BY TypeCorrect, LayoutFits, PTL

-----------------------------------------------------------------------------
(* alloc_pages is first fit.                                                *)

\* A run of free frames in the reference's sense is a candidate, named by its
\* least frame.
LEMMA FreeRunIsCandidate ==
  ASSUME NEW count \in Nat, count # 0, NEW run \in FreeRuns(count)
  PROVE  \E m \in Candidates(count) : \A f \in run : m <= f
<1> DEFINE bound == npages - 2
<1>1. /\ run \in SUBSET (0..bound) /\ Cardinality(run) = count
      /\ \A f \in run : frame_map[f] = 0
      /\ \A f, g \in run : f..g \subseteq run
  BY DEF FreeRuns
<1>2. bound \in Int /\ npages = bound + 2 /\ npages \in Int
  BY LayoutIs
<1> HIDE DEF bound
<1>3. run # {}
  BY <1>1, FS_EmptySet
<1>4. bound \in Nat
  <2>1. PICK f \in 0..bound : TRUE
    BY <1>1, <1>3
  <2> QED BY <1>2, <2>1
<1>5. PICK m \in run : \A f \in run : m <= f
  BY <1>1, <1>3, LeastExists
<1>6. PICK top \in run : \A f \in run : f <= top
  BY <1>1, <1>3, <1>4, GreatestExists
<1>7. m \in 0..bound /\ top \in 0..bound /\ m <= top
  BY <1>1, <1>5, <1>6
<1>8. run = m..top
  <2>1. m..top \subseteq run
    BY <1>1
  <2>2. ASSUME NEW f \in run PROVE f \in m..top
    BY <1>1, <1>5, <1>6, <1>7
  <2> QED BY <2>1, <2>2
<1>9. count = top - m + 1
  BY <1>1, <1>7, <1>8, FS_Interval
<1>10. ContinuousFree(m, count)
  <2>1. m + count < npages
    BY <1>2, <1>7, <1>9
  <2>2. ASSUME NEW i \in 0..(count - 1) PROVE frame_map[m + i] = 0
    <3>1. m + i \in m..top
      BY <1>7, <1>9
    <3> QED BY <1>1, <1>8, <3>1
  <2> QED BY <2>1, <2>2 DEF ContinuousFree
<1>11. count < npages /\ m \in 0..(npages - count)
  BY <1>2, <1>7, <1>9
<1>12. m \in Candidates(count)
  <2>1. ~ (count >= npages)
    BY <1>2, <1>11
  <2> QED BY <1>10, <1>11, <2>1 DEF Candidates
<1> QED BY <1>5, <1>12

\* A candidate names a run of free frames in the reference's sense.
LEMMA CandidateIsFreeRun ==
  ASSUME NEW count \in Nat, NEW i \in Candidates(count)
  PROVE  i..(i + count - 1) \in FreeRuns(count)
<1>1. npages \in Int
  BY LayoutIs
<1>2. /\ count # 0 /\ i \in 0..(npages - count) /\ i + count < npages
      /\ \A f \in i..(i + count - 1) : frame_map[f] = 0
  BY CandidateIs
<1>3. i..(i + count - 1) \in SUBSET (0..(npages - 2))
  BY <1>1, <1>2
<1>4. Cardinality(i..(i + count - 1)) = count
  <2>1. i \in Int /\ i + count - 1 \in Int /\ ~ (i > i + count - 1)
        /\ (i + count - 1) - i + 1 = count
    BY <1>1, <1>2
  <2> QED BY <2>1, FS_Interval
<1>5. \A f, g \in i..(i + count - 1) : f..g \subseteq i..(i + count - 1)
  BY <1>1, <1>2
<1> QED BY <1>2, <1>3, <1>4, <1>5 DEF FreeRuns

\* alloc_pages hands out the lowest run of free frames whenever there is one
\* below the last frame, and marks exactly that run.
THEOREM FirstFit == Spec => AllocIsFirstFit
<1> DEFINE Fit(o) ==
      pa[o].npages = 0 /\ pa'[o].npages # 0 =>
        LET run == FramesOf(pa'[o]) IN
          /\ run \in FreeRuns(pa'[o].npages)
          /\ \A other \in FreeRuns(pa'[o].npages) : \A f \in other : pa'[o].page <= f
          /\ frame_map' = [f \in Frame |-> IF f \in run THEN 1 ELSE frame_map[f]]
<1>1. ASSUME TypeOK, Next PROVE \A o \in Owner : Fit(o)
  <2> SUFFICES ASSUME NEW o \in Owner, pa[o].npages = 0, pa'[o].npages # 0
               PROVE  Fit(o)
    OBVIOUS
  <2>1. PICK q \in Owner :
          \/ \E count \in 0..MaxRun : AllocPages(q, count) \/ AllocFails(q, count)
          \/ FreePages(q)
    BY <1>1 DEF Next
  <2>2. ~ FreePages(q)
    BY <1>1 DEF FreePages, NoPages, TypeOK
  <2>3. PICK count \in 0..MaxRun : AllocPages(q, count)
    BY <2>1, <2>2 DEF AllocFails, vars
  <2>4. q = o
    BY <1>1, <2>3 DEF AllocPages, TypeOK
  <2>5. PICK i \in Candidates(count) :
          /\ \A j \in Candidates(count) : i <= j
          /\ SetFrameMap(i..(i + count - 1), 1)
          /\ pa' = [pa EXCEPT ![o] = [page |-> i, npages |-> count]]
    BY <2>3, <2>4 DEF AllocPages
  <2>6. pa'[o].page = i /\ pa'[o].npages = count /\ FramesOf(pa'[o]) = i..(i + count - 1)
    BY <1>1, <2>5 DEF TypeOK, FramesOf
  <2>7. count \in Nat /\ count # 0 /\ i \in Int
    <3>1. MaxRun \in Nat /\ npages \in Int
      BY PageFramesAssumption, LayoutIs DEF PageFramesAssumption
    <3>2. count \in Nat
      BY <3>1
    <3> QED BY <3>1, <3>2, CandidateIs
  <2>8. i..(i + count - 1) \in FreeRuns(count)
    BY <2>7, CandidateIsFreeRun
  <2>9. ASSUME NEW other \in FreeRuns(count), NEW f \in other PROVE i <= f
    <3>1. PICK m \in Candidates(count) : \A g \in other : m <= g
      BY <2>7, FreeRunIsCandidate
    <3>2. i <= m /\ m <= f
      BY <2>5, <3>1
    <3>3. m \in Int /\ f \in Int
      BY <2>7, CandidateIs, LayoutIs DEF FreeRuns
    <3> QED BY <2>7, <3>2, <3>3
  <2> QED BY <2>5, <2>6, <2>8, <2>9 DEF SetFrameMap
<1>2. ASSUME TypeOK, [Next]_vars PROVE [\A o \in Owner : Fit(o)]_vars
  BY <1>1, <1>2
<1> QED BY <1>2, TypeCorrect, PTL DEF Spec, AllocIsFirstFit
=============================================================================
