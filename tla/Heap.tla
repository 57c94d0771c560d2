-------------------------------- MODULE Heap ---------------------------------
(***************************************************************************)
(* The kernel heap, kernel/arch/x86_64/mm/malloc.c.  Each page tag owns a  *)
(* run of pages cut into chunks; unused chunks hang in one ring per size   *)
(* class.  Callers hold the scheduler lock for the whole call, so kmalloc  *)
(* and kfree are one step each.  Chunks are named by their offset in the   *)
(* run.                                                                    *)
(***************************************************************************)
EXTENDS Integers, Sequences, FiniteSets, SequencesExt, FiniteSetsExt

CONSTANTS
  PAGE_SIZE,
  MM_PAGE_NUM,   \* page tags
  NUM_SIZES,     \* size classes
  SizeMax,       \* size_t counts modulo SizeMax
  Sizes,         \* bound: the sizes callers ask for
  BootSize,      \* size of the first request, the TCB of the idle task
  MaxCalls       \* bound: calls in a behaviour

HEADER_SIZE == 24    \* bytes before chunk.data
CHUNK       == 40    \* sizeof(chunk): the header and the free node
ALIGN       == 4
MIN_SIZE    == 16    \* sizeof(struct list_head)

ASSUME HeapAssumption ==
  /\ PAGE_SIZE \in Nat /\ PAGE_SIZE > 4 * CHUNK /\ PAGE_SIZE % ALIGN = 0
  /\ MM_PAGE_NUM \in Nat \ {0} /\ NUM_SIZES \in Nat \ {0}
  /\ SizeMax \in Nat /\ MaxCalls \in Nat
  /\ Sizes \subseteq 1..(2^(NUM_SIZES - 1)) /\ BootSize \in 1..(2^(NUM_SIZES - 1))
  /\ \A size \in Sizes \cup {BootSize} : 2 * PAGE_SIZE + size + 3 * CHUNK < SizeMax

Tag  == 0..(MM_PAGE_NUM - 1)
Slot == 0..(NUM_SIZES - 1)
NULL == 0            \* offset 0 is the first chunk, which is never handed out

VARIABLES
  mm_pages,            \* the page tags
  cur_page_tag_index,  \* -1, or the tag the last call ended at
  live,                \* blocks handed out and not freed yet
  wild,                \* "no", or how memory outside the heap's chunks was hit
  calls                \* calls made so far

vars == <<mm_pages, cur_page_tag_index, live, wild, calls>>

\* A tag: npages is 0 while it owns no memory; chunks is the ring `all` with
\* its two sentinels; dangling are the classes whose head is left over from
\* memory that was given back.
NoPage == [npages |-> 0, chunks |-> {}, used |-> {}, free |-> [n \in Slot |-> <<>>],
           dangling |-> {}, mem_free |-> 0]

Init == /\ mm_pages = [i \in Tag |-> NoPage]
        /\ cur_page_tag_index = -1
        /\ live = {} /\ wild = "no" /\ calls = 0

-----------------------------------------------------------------------------
(* Chunks, classes and the counter.                                         *)

LastChunk(pt)     == pt.npages * PAGE_SIZE - CHUNK
NextChunk(pt, ck) == Min({d \in pt.chunks : d > ck})
PrevChunk(pt, ck) == Max({d \in pt.chunks : d < ck})

memory_chunk_size(pt, ck) == NextChunk(pt, ck) - ck

\* The class of a size: the place of its highest bit.
memory_chunk_slot(size) == Max({n \in Slot : 2^n <= size})

Rounded(size) == ((size + ALIGN - 1) \div ALIGN) * ALIGN
Need(size)    == Max({Rounded(size), MIN_SIZE})

PagesFor(size) == (3 * CHUNK + size + PAGE_SIZE - 1) \div PAGE_SIZE

Credit(pt, bytes) == [pt EXCEPT !.mem_free = (@ + bytes) % SizeMax]
Debit(pt, bytes)  == [pt EXCEPT !.mem_free = (@ - bytes) % SizeMax]

\* Mutant: filed under the class of the size without the header.
PushFreeBySpace(pt, ck) ==
  [pt EXCEPT !.free[memory_chunk_slot(memory_chunk_size(pt, ck) - HEADER_SIZE)] = Append(@, ck)]

\* list_add_tail to the ring of the chunk's class; no counter changes.
PushFree(pt, ck) ==
  [pt EXCEPT !.free[memory_chunk_slot(memory_chunk_size(pt, ck))] = Append(@, ck)]

\* The entry before the k-th in a ring.
Behind(ring, k) == ring[IF k = 1 THEN Len(ring) ELSE k - 1]

\* A ring without one of its entries: it starts after that entry.
Without(ring, ck) ==
  LET at == CHOOSE k \in DOMAIN ring : ring[k] = ck
  IN  SubSeq(ring, at + 1, Len(ring)) \o SubSeq(ring, 1, at - 1)

\* Mutant: the ring keeps the chunk.
RemoveFreeKeeps(pt, ck) == Debit(pt, memory_chunk_size(pt, ck) - HEADER_SIZE)

RemoveFree(pt, ck) ==
  LET n == memory_chunk_slot(memory_chunk_size(pt, ck))
  IN  Debit([pt EXCEPT !.free[n] = Without(@, ck)],
            memory_chunk_size(pt, ck) - HEADER_SIZE)

-----------------------------------------------------------------------------
(* kmalloc.  A heap record h carries the tags, the current tag, the chunk   *)
(* handed out (NULL if none yet), whether a dangling head was followed and  *)
(* whether alloc_pages had no frames.                                       *)

\* kmemory_page_init after alloc_pages: of the size classes only the one of
\* the new chunk is set.
PageInit(pt, npages) ==
  LET fresh == [pt EXCEPT !.npages = npages,
                          !.chunks = {0, CHUNK, npages * PAGE_SIZE - CHUNK},
                          !.used   = {0, npages * PAGE_SIZE - CHUNK}]
      len   == memory_chunk_size(fresh, CHUNK)
      n     == memory_chunk_slot(len)
  IN  [fresh EXCEPT !.free[n]  = <<CHUNK>>,
                    !.dangling = @ \ {n},
                    !.mem_free = len - HEADER_SIZE]

NewPage(h, i, size) ==
  [h EXCEPT !.pages[i] = PageInit(@, PagesFor(size)), !.cur = i]

\* Mutant: a remainder is split off whenever its header fits.
SplitsAtHeader(need, size2) == need + 2 * HEADER_SIZE < size2

Splits(need, size2) == need + 2 * CHUNK <= size2

\* The head of class n leaves its ring; what is left behind it becomes a
\* chunk of its own when it can hold one.
Carve(pt, n, need) ==
  LET ck    == Head(pt.free[n])
      size2 == memory_chunk_size(pt, ck)
      ck2   == ck + HEADER_SIZE + need
      taken == Debit([pt EXCEPT !.free[n] = Tail(@), !.used = @ \cup {ck}],
                     size2 - HEADER_SIZE)
      cut   == [taken EXCEPT !.chunks = @ \cup {ck2}]
  IN  IF Splits(need, size2)
      THEN Credit(PushFree(cut, ck2), memory_chunk_size(cut, ck2) - HEADER_SIZE)
      ELSE taken

\* The classes kmalloc_on_cur_page looks at that are not empty.
Stocked(pt, need) ==
  {n \in Slot : /\ n >= memory_chunk_slot(need + HEADER_SIZE)
                /\ pt.free[n] # <<>> \/ n \in pt.dangling}

\* The first chunk of the lowest class is taken, whatever its size.
OnCurPage(h, size) ==
  LET pt   == h.pages[h.cur]
      need == Need(size)
      n    == Min(Stocked(pt, need))
  IN  IF need > pt.mem_free \/ Stocked(pt, need) = {} THEN h
      ELSE IF n \in pt.dangling THEN [h EXCEPT !.wild = TRUE]
      ELSE [h EXCEPT !.pages[h.cur] = Carve(pt, n, need), !.ck = Head(pt.free[n])]

Done(h) == h.ck # NULL \/ h.wild

\* The search of kmalloc over the tags, when the current one did not serve.  It
\* passes over the current tag, which is another as soon as one was tried, and
\* over the first tag without pages, which is kept for later.
Empty(h)       == {i \in Tag : h.pages[i].npages = 0}
Roomy(h, size) == {i \in Tag : h.pages[i].mem_free >= size}

Seen(h, size) ==
  IF \E j \in Roomy(h, size) : j < h.cur /\ (j \in Empty(h) => \E e \in Empty(h) : e < j)
  THEN Tag ELSE Tag \ {h.cur}

FirstFree(h, size) ==
  {i \in Seen(h, size) \cap Empty(h) : \A j \in Seen(h, size) \cap Empty(h) : i <= j}

Tried(h, size) == (Seen(h, size) \cap Roomy(h, size)) \ FirstFree(h, size)

Search(h, size) ==
  LET on(i) == OnCurPage([h EXCEPT !.cur = i], size)
      hits  == {i \in Tried(h, size) : Done(on(i))}
  IN  IF hits # {} THEN on(Min(hits))
      ELSE IF Tried(h, size) # {} THEN [h EXCEPT !.cur = Max(Tried(h, size))]
      ELSE h

\* What kmalloc(size) does to the heap; ok says whether alloc_pages finds a
\* run of frames, should it be asked.
Allocated(size, ok) ==
  LET start == [pages |-> mm_pages, cur |-> cur_page_tag_index, ck |-> NULL,
                wild |-> FALSE, failed |-> FALSE]
      first == OnCurPage(IF start.cur = -1 THEN NewPage(start, 0, size) ELSE start, size)
      found == Search(first, size)
      empty == FirstFree(first, size)
  IN  IF start.cur = -1 /\ ~ok THEN [start EXCEPT !.failed = TRUE]
      ELSE IF Done(first) THEN first
      ELSE IF Done(found) \/ empty = {} THEN found
      ELSE IF ~ok THEN [found EXCEPT !.failed = TRUE]
      ELSE OnCurPage(NewPage(found, Min(empty), size), size)

\* The memset at the end of kmalloc clears size bytes of a chunk that may
\* have fewer.
Overruns(h, size) ==
  h.ck # NULL /\ size > memory_chunk_size(h.pages[h.cur], h.ck) - HEADER_SIZE

\* A chunk was filed in a class whose head dangles: list_add_tail has then
\* written to memory that was given back.
LinksToDangling(pages) ==
  \E i \in Tag : \E n \in pages[i].dangling : pages[i].free[n] # <<>>

\* kmcheck, which kmalloc runs before it returns unless alloc_pages failed: the
\* node before each chunk is the one it came from, around the ring of all chunks,
\* and the node before the head, again and again, around the ring of a class.
kmcheck(pages) ==
  IF \A i \in {j \in Tag : pages[j].npages # 0} :
       LET pt == pages[i] IN
       /\ \A ck \in pt.chunks \ {LastChunk(pt)} : PrevChunk(pt, NextChunk(pt, ck)) = ck
       /\ \A n \in Slot : \A k \in DOMAIN pt.free[n] :
            Behind(pt.free[n], k) = Last(pt.free[n])
  THEN 0 ELSE -1

\* It starts at a head that dangles.
ChecksDangling(h) ==
  ~h.failed /\ \E i \in Tag : h.pages[i].npages # 0 /\ h.pages[i].dangling # {}

KMalloc(size, ok) ==
  /\ wild = "no" /\ calls < MaxCalls
  /\ calls' = calls + 1
  /\ LET h == Allocated(size, ok) IN
       IF h.wild \/ LinksToDangling(h.pages) \/ ChecksDangling(h)
       THEN /\ wild' = "dangling"
            /\ UNCHANGED <<mm_pages, cur_page_tag_index, live>>
       ELSE /\ wild' = IF Overruns(h, size) THEN "overrun" ELSE "no"
            /\ mm_pages' = h.pages
            /\ cur_page_tag_index' = h.cur
            /\ live' = IF h.ck = NULL THEN live
                       ELSE live \cup {[tag |-> h.cur, ck |-> h.ck, size |-> size]}

-----------------------------------------------------------------------------
(* kfree.                                                                   *)

\* Mutant: the chunk behind is not merged.
MergeNextNever(pt, ck) == pt

MergeNext(pt, ck) ==
  LET next == NextChunk(pt, ck) IN
    IF next \in pt.used THEN pt
    ELSE Credit([RemoveFree(pt, next) EXCEPT !.chunks = @ \ {next}], HEADER_SIZE)

MergePrevOrPush(pt, ck) ==
  LET prev   == PrevChunk(pt, ck)
      joined == [RemoveFree(pt, prev) EXCEPT !.chunks = @ \ {ck}, !.used = @ \ {ck}]
  IN  IF prev \in pt.used
      THEN PushFree([pt EXCEPT !.used = @ \ {ck}], ck)
      ELSE Debit(PushFree(joined, prev), HEADER_SIZE)

AllUnused(pt) == pt.used = {0, LastChunk(pt)}

\* free_pages: the tag forgets its pages, but neither its classes nor its
\* counter, and cur_page_tag_index may still name it.
GiveBack(pt) ==
  [pt EXCEPT !.npages = 0, !.chunks = {}, !.used = {},
             !.free = [n \in Slot |-> <<>>],
             !.dangling = @ \cup {n \in Slot : pt.free[n] # <<>>}]

KFree(b) ==
  /\ wild = "no" /\ calls < MaxCalls
  /\ b \in live
  /\ calls' = calls + 1
  /\ live' = live \ {b}
  /\ UNCHANGED cur_page_tag_index
  /\ LET pt    == MergePrevOrPush(MergeNext(mm_pages[b.tag], b.ck), b.ck)
         pages == [mm_pages EXCEPT ![b.tag] = pt]
     IN  IF LinksToDangling(pages)
         THEN wild' = "dangling" /\ UNCHANGED mm_pages
         ELSE /\ UNCHANGED wild
              /\ mm_pages' = IF AllUnused(pt)
                             THEN [pages EXCEPT ![b.tag] = GiveBack(pt)]
                             ELSE pages

\* The first call is init_scheduler's, at boot with all frames free; its block
\* is never freed.
IdleBlock == [tag |-> 0, ck |-> CHUNK, size |-> BootSize]

Next ==
  \/ cur_page_tag_index = -1 /\ KMalloc(BootSize, TRUE)
  \/ cur_page_tag_index # -1 /\ \E size \in Sizes, ok \in BOOLEAN : KMalloc(size, ok)
  \/ \E b \in live \ {IdleBlock} : KFree(b)

Spec == Init /\ [][Next]_vars

-----------------------------------------------------------------------------
(* Properties.  Once memory outside the chunks has been hit (wild # "no")   *)
(* nothing is known of the heap.                                            *)

Owned == {i \in Tag : mm_pages[i].npages # 0}

Unused(pt) == pt.chunks \ pt.used

\* kfree merges with both neighbours: no two unused chunks lie side by side.
NoAdjacentUnused ==
  wild = "no" =>
    \A i \in Owned : \A ck \in Unused(mm_pages[i]) :
      NextChunk(mm_pages[i], ck) \in mm_pages[i].used

\* kmalloc finds every unused chunk: it is once in the ring of its class, and
\* the rings hold nothing else.  kmcheck is not content with all of these heaps:
\* it takes a class of two chunks for a broken ring.
FreeListsExact ==
  wild = "no" =>
    /\ \A i \in Owned : \A n \in Slot :
         LET ring == mm_pages[i].free[n] IN
           /\ IsInjective(ring)
           /\ ToSet(ring) = {ck \in Unused(mm_pages[i]) :
                               memory_chunk_slot(memory_chunk_size(mm_pages[i], ck)) = n}
    /\ kmcheck(mm_pages) = 0 <=>
         \A i \in Owned : \A n \in Slot : Len(mm_pages[i].free[n]) <= 1

\* A chunk can hold the ring node that kfree writes into it, and starts on an
\* ALIGN boundary, over all splits and merges.
ChunksHoldNodes ==
  \A i \in Owned : \A ck \in mm_pages[i].chunks \ {LastChunk(mm_pages[i])} :
    memory_chunk_size(mm_pages[i], ck) >= CHUNK /\ ck % ALIGN = 0

\* The heap as its callers see it: a block is what its chunk has of the size
\* bytes it was asked for.
Blocks ==
  {[region |-> b.tag, lo |-> b.ck + HEADER_SIZE,
    hi |-> Min({b.ck + HEADER_SIZE + b.size, NextChunk(mm_pages[b.tag], b.ck)})] : b \in live}
Promise == INSTANCE Allocator WITH
             blocks <- Blocks,
             extent <- [i \in Tag |-> mm_pages[i].npages * PAGE_SIZE]

\* kmalloc and kfree implement Allocator, but for the size of a block, which
\* MemsetStaysInChunk is about.
IsAllocator == Promise!Spec

\* The memset of kmalloc stays inside the chunk that was taken.
MemsetStaysInChunk == wild # "overrun"

\* kmalloc and kfree use pages the heap owns.
NoUseAfterGiveBack == wild # "dangling"
=============================================================================
