------------------------------ MODULE HeapProofs ------------------------------
(***************************************************************************)
(* Theorems about Heap, for every page size, number of page tags and of    *)
(* size classes, every set of sizes asked for and every number of calls:   *)
(* no two unused chunks lie side by side, every unused chunk is once in    *)
(* the ring of its class and nothing else is, chunks are large enough for  *)
(* the node that is written into them, and kmalloc and kfree are the       *)
(* Allocator that their callers rely on.                                   *)
(*                                                                         *)
(* HeapInv is the inductive invariant.  A split or a merge keeps the       *)
(* rings right because it changes the size of no other unused chunk, which *)
(* is so because no two of them are neighbours; and a block stays where it *)
(* is because live blocks and used chunks are one to one.                  *)
(***************************************************************************)
EXTENDS Heap, NumberProofs

\* A page tag.
PageTag ==
  [npages : Nat, chunks : SUBSET Nat, used : SUBSET Nat, free : [Slot -> Seq(Nat)],
   dangling : SUBSET Slot, mem_free : Int]

\* The ring of all chunks: the two sentinels, the first chunk, and room between
\* each two for a chunk with its node.
ChunksOK(pt) ==
  /\ pt.npages # 0 /\ 2 * CHUNK <= LastChunk(pt)
  /\ {0, CHUNK, LastChunk(pt)} \subseteq pt.chunks /\ pt.chunks \subseteq 0..LastChunk(pt)
  /\ {0, LastChunk(pt)} \subseteq pt.used /\ pt.used \subseteq pt.chunks
  /\ \A c, d \in pt.chunks : c < d => CHUNK <= d - c
  /\ \A c \in pt.chunks \ {LastChunk(pt)} : c % ALIGN = 0

\* Something in use lies between any two unused chunks.
Apart(pt) ==
  \A c, d \in Unused(pt) : c < d => \E u \in pt.used : c < u /\ u < d

\* The class of a chunk.
Class(pt, c) == memory_chunk_slot(memory_chunk_size(pt, c))

\* The chunks in filed are each once in the ring of their class, and nothing
\* else is.
RingsHold(pt, filed) ==
  \A n \in Slot : /\ IsInjective(pt.free[n])
                  /\ ToSet(pt.free[n]) = {c \in filed : Class(pt, c) = n}

\* A tag that owns pages is in order.
PageOK(pt) == ChunksOK(pt) /\ Apart(pt) /\ RingsHold(pt, Unused(pt))

\* A tag without pages has nothing of them left but dangling heads.
NoRun(pt) == pt.chunks = {} /\ pt.used = {} /\ \A n \in Slot : pt.free[n] = << >>

\* The used chunks between the sentinels.
Inner(pt) == pt.used \ {0, LastChunk(pt)}

\* Each live block is in a used chunk of its own, and each used chunk but the
\* sentinels is a live block's.
LiveOK ==
  /\ \A b \in live : /\ b = [tag |-> b.tag, ck |-> b.ck, size |-> b.size]
                     /\ b.tag \in Owned /\ b.size \in Nat \ {0}
                     /\ b.ck \in Inner(mm_pages[b.tag])
  /\ \A b, c \in live : b.tag = c.tag /\ b.ck = c.ck => b = c
  /\ \A i \in Owned : \A ck \in Inner(mm_pages[i]) : \E b \in live : b.tag = i /\ b.ck = ck

\* The inductive invariant: every tag is in order, and used chunks and live
\* blocks are one to one.  It says nothing of wild, and holds whatever that is.
HeapInv ==
  /\ mm_pages \in [Tag -> PageTag]
  /\ cur_page_tag_index \in Tag \cup {-1}
  /\ cur_page_tag_index = -1 => Owned = {}
  /\ \A i \in Tag : IF mm_pages[i].npages = 0 THEN NoRun(mm_pages[i])
                    ELSE PageOK(mm_pages[i]) /\ mm_pages[i].dangling = {}
  /\ LiveOK

-----------------------------------------------------------------------------
(* Chunks and their neighbours.                                             *)

\* The chunk behind is the next one in the ring of all chunks.
LEMMA NextIs ==
  ASSUME NEW pt \in PageTag, ChunksOK(pt), NEW c \in pt.chunks, c # LastChunk(pt)
  PROVE  /\ NextChunk(pt, c) \in pt.chunks /\ NextChunk(pt, c) \in Nat /\ c \in Nat
         /\ c + CHUNK <= NextChunk(pt, c)
         /\ \A d \in pt.chunks : c < d => NextChunk(pt, c) <= d
<1> DEFINE S == {d \in pt.chunks : d > c}
<1>1. pt.chunks \in SUBSET Nat /\ c \in Nat
  BY DEF PageTag
<1>2. LastChunk(pt) \in S
  BY <1>1 DEF ChunksOK
<1>3. S \in SUBSET Nat /\ S # {}
  BY <1>1, <1>2
<1>4. \E x \in S : \A y \in S : x <= y
  BY <1>3, LeastExists
<1>5. NextChunk(pt, c) \in S /\ \A y \in S : NextChunk(pt, c) <= y
  BY <1>4 DEF NextChunk, Min
<1>6. c + CHUNK <= NextChunk(pt, c)
  BY <1>1, <1>5 DEF ChunksOK, CHUNK
<1> QED BY <1>1, <1>5, <1>6

\* What is above a chunk and below all others above it is the chunk behind it.
LEMMA NextEquals ==
  ASSUME NEW pt, pt.chunks \in SUBSET Nat, NEW c \in Nat, NEW d \in pt.chunks, c < d,
         \A e \in pt.chunks : c < e => d <= e
  PROVE  NextChunk(pt, c) = d
<1> DEFINE S == {e \in pt.chunks : e > c}
<1>1. d \in S /\ \A e \in S : d <= e
  OBVIOUS
<1>2. \A x \in S : (\A y \in S : x <= y) => x = d
  BY <1>1
<1> QED BY <1>1, <1>2 DEF NextChunk, Min

\* The chunk before.
LEMMA PrevIs ==
  ASSUME NEW pt \in PageTag, ChunksOK(pt), NEW c \in pt.chunks, c # 0
  PROVE  /\ PrevChunk(pt, c) \in pt.chunks /\ PrevChunk(pt, c) \in Nat /\ c \in Nat
         /\ PrevChunk(pt, c) < c /\ PrevChunk(pt, c) # LastChunk(pt)
         /\ \A d \in pt.chunks : d < c => d <= PrevChunk(pt, c)
         /\ NextChunk(pt, PrevChunk(pt, c)) = c
<1> DEFINE S == {d \in pt.chunks : d < c}
<1>1. pt.chunks \in SUBSET Nat /\ c \in Nat /\ LastChunk(pt) \in pt.chunks /\ c <= LastChunk(pt)
      /\ LastChunk(pt) \in Nat
  BY DEF PageTag, ChunksOK
<1>2. S \in SUBSET (0..LastChunk(pt)) /\ S # {}
  BY <1>1 DEF ChunksOK
<1>3. \E x \in S : \A y \in S : y <= x
  BY <1>1, <1>2, GreatestExists
<1>4. \E x \in S : \A y \in S : x >= y
  BY <1>1, <1>3
<1>5. PrevChunk(pt, c) \in S /\ \A y \in S : PrevChunk(pt, c) >= y
  BY <1>4 DEF PrevChunk, Max
<1>6. \A e \in pt.chunks : PrevChunk(pt, c) < e => c <= e
  BY <1>1, <1>5
<1>7. NextChunk(pt, PrevChunk(pt, c)) = c
  BY <1>1, <1>5, <1>6, NextEquals
<1> QED BY <1>1, <1>5, <1>7

\* With the same chunks around, a chunk has the same class.
LEMMA ClassSame ==
  ASSUME NEW pt, NEW qt, NEW c, NextChunk(pt, c) = NextChunk(qt, c)
  PROVE  Class(pt, c) = Class(qt, c)
BY DEF Class, memory_chunk_size

\* kfree and kmalloc_on_cur_page file a chunk in a class that exists.
LEMMA ClassIsSlot ==
  ASSUME NEW size \in Nat \ {0}
  PROVE  memory_chunk_slot(size) \in Slot
<1> DEFINE S == {n \in Slot : 2^n <= size}
<1>1. NUM_SIZES \in Nat \ {0} /\ Slot = 0..(NUM_SIZES - 1)
  BY HeapAssumption DEF HeapAssumption, Slot
<1>2. 2^0 = 1
  OBVIOUS
<1>3. 0 \in S
  BY <1>1, <1>2
<1>4. NUM_SIZES - 1 \in Nat /\ S \in SUBSET (0..(NUM_SIZES - 1))
  BY <1>1
<1>5. \E x \in S : \A y \in S : y <= x
  BY <1>3, <1>4, GreatestExists
<1>6. \E x \in S : \A y \in S : x >= y
  BY <1>4, <1>5
<1>7. Max(S) \in S
  BY <1>6 DEF Max
<1> QED BY <1>7 DEF memory_chunk_slot

\* The chunk behind an unused chunk is in use, and so is the one before.
LEMMA Neighbours ==
  ASSUME NEW pt \in PageTag, ChunksOK(pt), Apart(pt), NEW c \in Unused(pt)
  PROVE  /\ c \in pt.chunks /\ c \in Nat /\ CHUNK <= c /\ c # LastChunk(pt)
         /\ NextChunk(pt, c) \in pt.used
<1>1. c \in pt.chunks /\ c \notin pt.used /\ pt.chunks \in SUBSET Nat
  BY DEF Unused, PageTag
<1>2. c # LastChunk(pt) /\ c # 0 /\ c \in Nat
  BY <1>1 DEF ChunksOK
<1>3. CHUNK <= c
  BY <1>1, <1>2 DEF ChunksOK, CHUNK
<1>4. ASSUME NextChunk(pt, c) \notin pt.used PROVE FALSE
  <2>1. NextChunk(pt, c) \in Unused(pt) /\ c < NextChunk(pt, c)
    BY <1>1, <1>2, <1>4, NextIs DEF Unused, CHUNK
  <2>2. PICK u \in pt.used : c < u /\ u < NextChunk(pt, c)
    BY <2>1 DEF Apart
  <2>3. u \in pt.chunks /\ u \in Nat
    BY <1>1 DEF ChunksOK
  <2> QED BY <1>1, <1>2, <2>2, <2>3, NextIs
<1> QED BY <1>1, <1>2, <1>3, <1>4

-----------------------------------------------------------------------------
(* Rings.                                                                   *)

\* The entries of a ring by their places.
LEMMA EntryIs ==
  ASSUME NEW s \in Seq(Nat)
  PROVE  /\ \A x : x \in ToSet(s) <=> \E i \in 1..Len(s) : s[i] = x
         /\ IsInjective(s) <=> \A i, j \in 1..Len(s) : s[i] = s[j] => i = j
<1>1. DOMAIN s = 1..Len(s)
  OBVIOUS
<1> QED BY <1>1 DEF ToSet, IsInjective

\* A ring of one entry, and one of none.
LEMMA SingleIs ==
  ASSUME NEW c \in Nat
  PROVE  /\ IsInjective(<<c>>) /\ ToSet(<<c>>) = {c}
         /\ IsInjective(<< >>) /\ ToSet(<< >>) = {}
<1>1. ASSUME NEW s \in Seq(Nat), Len(s) = 1, s[1] = c
      PROVE  IsInjective(s) /\ ToSet(s) = {c}
  <2>1. \A i \in 1..Len(s) : i = 1
    BY <1>1
  <2>2. 1 \in 1..Len(s)
    BY <1>1
  <2> QED BY <1>1, <2>1, <2>2, EntryIs
<1>2. ASSUME NEW s \in Seq(Nat), Len(s) = 0
      PROVE  IsInjective(s) /\ ToSet(s) = {}
  <2>1. 1..Len(s) = {}
    BY <1>2
  <2> QED BY <2>1, EntryIs
<1>3. <<c>> \in Seq(Nat) /\ Len(<<c>>) = 1 /\ <<c>>[1] = c
  OBVIOUS
<1>4. << >> \in Seq(Nat) /\ Len(<< >>) = 0
  OBVIOUS
<1> QED BY <1>1, <1>2, <1>3, <1>4

\* One sequence behind another.
LEMMA ConcatIs ==
  ASSUME NEW f \in Seq(Nat), NEW g \in Seq(Nat)
  PROVE  /\ (f \o g) \in Seq(Nat) /\ Len(f \o g) = Len(f) + Len(g)
         /\ \A i \in 1..(Len(f) + Len(g)) : (f \o g)[i] = IF i <= Len(f) THEN f[i] ELSE g[i - Len(f)]
<1>1. (f \o g) \in Seq(Nat) /\ Len(f \o g) = Len(f) + Len(g)
  OBVIOUS
<1>2. \A i \in 1..(Len(f) + Len(g)) : (f \o g)[i] = IF i <= Len(f) THEN f[i] ELSE g[i - Len(f)]
  OBVIOUS
<1> QED BY <1>1, <1>2

\* The two parts of a ring around one of its entries.
LEMMA PartsAre ==
  ASSUME NEW s \in Seq(Nat), NEW k \in 1..Len(s)
  PROVE  LET w == SubSeq(s, k + 1, Len(s)) \o SubSeq(s, 1, k - 1) IN
         /\ w \in Seq(Nat) /\ Len(w) = Len(s) - 1
         /\ \A i \in 1..(Len(s) - 1) :
              w[i] = IF i <= Len(s) - k THEN s[k + i] ELSE s[i - (Len(s) - k)]
<1> DEFINE n == Len(s)
           f == SubSeq(s, k + 1, n)
           g == SubSeq(s, 1, k - 1)
<1>1. n \in Nat /\ k \in 1..n
  OBVIOUS
<1>2. f \in Seq(Nat) /\ Len(f) = n - k
  BY <1>1
<1>3. \A i \in 1..(n - k) : f[i] = s[k + i]
  BY <1>1
<1>4. g \in Seq(Nat) /\ Len(g) = k - 1
  BY <1>1
<1>5. \A i \in 1..(k - 1) : g[i] = s[i]
  BY <1>1
<1> HIDE DEF f, g, n
<1>6. (f \o g) \in Seq(Nat) /\ Len(f \o g) = n - 1
  <2>1. (f \o g) \in Seq(Nat) /\ Len(f \o g) = Len(f) + Len(g)
    BY <1>2, <1>4, ConcatIs
  <2> QED BY <1>1, <1>2, <1>4, <2>1
<1>7. \A i \in 1..(n - 1) : (f \o g)[i] = IF i <= n - k THEN f[i] ELSE g[i - (n - k)]
  <2>1. \A i \in 1..(Len(f) + Len(g)) : (f \o g)[i] = IF i <= Len(f) THEN f[i] ELSE g[i - Len(f)]
    BY <1>2, <1>4, ConcatIs
  <2> QED BY <1>1, <1>2, <1>4, <2>1
<1>8. ASSUME NEW i \in 1..(n - 1)
      PROVE  (f \o g)[i] = IF i <= n - k THEN s[k + i] ELSE s[i - (n - k)]
  <2>1. CASE i <= n - k
    <3>1. i \in 1..(n - k)
      BY <1>1, <2>1
    <3>2. (f \o g)[i] = f[i] /\ f[i] = s[k + i]
      BY <1>3, <1>7, <2>1, <3>1
    <3> QED BY <2>1, <3>2
  <2>2. CASE ~(i <= n - k)
    <3>1. i - (n - k) \in 1..(k - 1)
      BY <1>1, <2>2
    <3> QED BY <1>1, <1>5, <1>7, <2>2, <3>1
  <2> QED BY <2>1, <2>2
<1> QED BY <1>6, <1>8 DEF f, g, n

\* remove_free takes one entry out of a ring and leaves the others.
LEMMA WithoutIs ==
  ASSUME NEW ring \in Seq(Nat), IsInjective(ring), NEW c \in ToSet(ring)
  PROVE  /\ Without(ring, c) \in Seq(Nat) /\ IsInjective(Without(ring, c))
         /\ ToSet(Without(ring, c)) = ToSet(ring) \ {c}
<1> DEFINE k == CHOOSE i \in DOMAIN ring : ring[i] = c
           w == Without(ring, c)
           n == Len(ring)
<1>1. k \in 1..n /\ ring[k] = c /\ n \in Nat
  BY DEF ToSet
<1>2. \A i \in 1..n : \A j \in 1..n : ring[i] = ring[j] => i = j
  BY DEF IsInjective
<1>4. w = SubSeq(ring, k + 1, n) \o SubSeq(ring, 1, k - 1)
  BY DEF Without
<1> HIDE DEF k, w
<1>5. w \in Seq(Nat) /\ Len(w) = n - 1
      /\ \A i \in 1..(n - 1) : w[i] = IF i <= n - k THEN ring[k + i] ELSE ring[i - (n - k)]
  BY <1>1, <1>4, PartsAre
<1>6. \A x : x \in ToSet(ring) <=> \E i \in 1..n : ring[i] = x
  BY EntryIs
<1>7. \A x : x \in ToSet(w) <=> \E i \in 1..(n - 1) : w[i] = x
  BY <1>5, EntryIs
<1> HIDE DEF n
<1>8. ASSUME NEW i \in 1..(n - 1), NEW j \in 1..(n - 1), w[i] = w[j] PROVE i = j
  <2> DEFINE from(m) == IF m <= n - k THEN k + m ELSE m - (n - k)
  <2>1. \A m \in 1..(n - 1) : from(m) \in 1..n /\ w[m] = ring[from(m)]
    BY <1>1, <1>5
  <2>2. from(i) = from(j)
    BY <1>2, <1>8, <2>1
  <2> QED BY <1>1, <2>2
<1>9. ASSUME NEW i \in 1..(n - 1) PROVE w[i] \in ToSet(ring) /\ w[i] # c
  <2>1. CASE i <= n - k
    <3>1. w[i] = ring[k + i] /\ k + i \in 1..n /\ k + i # k
      BY <1>1, <1>5, <2>1
    <3> QED BY <1>1, <1>2, <1>6, <3>1
  <2>2. CASE ~(i <= n - k)
    <3>1. w[i] = ring[i - (n - k)] /\ i - (n - k) \in 1..n /\ i - (n - k) # k
      BY <1>1, <1>5, <2>2
    <3> QED BY <1>1, <1>2, <1>6, <3>1
  <2> QED BY <2>1, <2>2
<1>10. ASSUME NEW i \in 1..n, ring[i] # c PROVE ring[i] \in ToSet(w)
  <2>1. CASE i > k
    <3>1. i - k \in 1..(n - 1) /\ w[i - k] = ring[i]
      BY <1>1, <1>5, <2>1
    <3> QED BY <1>7, <3>1
  <2>2. CASE ~(i > k)
    <3>1. i + (n - k) \in 1..(n - 1)
      BY <1>1, <1>10, <2>2
    <3>2. w[i + (n - k)] = ring[i]
      BY <1>1, <1>5, <3>1
    <3> QED BY <1>7, <3>1, <3>2
  <2> QED BY <1>1, <2>1, <2>2
<1>11. ToSet(w) = ToSet(ring) \ {c}
  BY <1>6, <1>7, <1>9, <1>10
<1>12. IsInjective(w)
  BY <1>5, <1>8, EntryIs
<1> QED BY <1>5, <1>11, <1>12 DEF w

\* kmalloc_on_cur_page takes the head of a ring.
LEMMA TailIs ==
  ASSUME NEW ring \in Seq(Nat), ring # << >>, IsInjective(ring)
  PROVE  /\ Head(ring) \in ToSet(ring) /\ Tail(ring) \in Seq(Nat) /\ IsInjective(Tail(ring))
         /\ ToSet(Tail(ring)) = ToSet(ring) \ {Head(ring)}
<1> DEFINE n == Len(ring)
           t == Tail(ring)
<1>1. n \in Nat /\ n >= 1 /\ Head(ring) = ring[1] /\ t \in Seq(Nat)
      /\ Len(t) = n - 1 /\ \A i \in 1..(n - 1) : t[i] = ring[i + 1]
  OBVIOUS
<1>2. \A i, j \in 1..n : ring[i] = ring[j] => i = j
  BY EntryIs
<1>3. \A x : x \in ToSet(ring) <=> \E i \in 1..n : ring[i] = x
  BY EntryIs
<1>4. \A x : x \in ToSet(t) <=> \E i \in 1..(n - 1) : t[i] = x
  <2>1. \A x : x \in ToSet(t) <=> \E i \in 1..Len(t) : t[i] = x
    BY <1>1, EntryIs
  <2> QED BY <1>1, <2>1
<1> HIDE DEF n, t
<1>5. \A i, j \in 1..(n - 1) : t[i] = t[j] => i = j
  BY <1>1, <1>2
<1>6. IsInjective(t)
  BY <1>1, <1>5, EntryIs
<1>7. ASSUME NEW i \in 1..(n - 1) PROVE t[i] \in ToSet(ring) \ {ring[1]}
  <2>1. t[i] = ring[i + 1] /\ i + 1 \in 1..n /\ i + 1 # 1 /\ 1 \in 1..n
    BY <1>1
  <2> QED BY <1>2, <1>3, <2>1
<1>8. ASSUME NEW i \in 1..n, ring[i] # ring[1] PROVE ring[i] \in ToSet(t)
  <2>1. i - 1 \in 1..(n - 1) /\ t[i - 1] = ring[i]
    BY <1>1, <1>8
  <2> QED BY <1>4, <2>1
<1>9. ToSet(t) = ToSet(ring) \ {ring[1]}
  BY <1>3, <1>4, <1>7, <1>8
<1>10. ring[1] \in ToSet(ring)
  BY <1>1, <1>3
<1> QED BY <1>1, <1>6, <1>9, <1>10 DEF t

\* list_add_tail.
LEMMA AppendIs ==
  ASSUME NEW ring \in Seq(Nat), IsInjective(ring), NEW c \in Nat, c \notin ToSet(ring)
  PROVE  /\ Append(ring, c) \in Seq(Nat) /\ IsInjective(Append(ring, c))
         /\ ToSet(Append(ring, c)) = ToSet(ring) \cup {c}
<1> DEFINE n == Len(ring)
           a == Append(ring, c)
<1>1. n \in Nat /\ a \in Seq(Nat) /\ Len(a) = n + 1 /\ a[n + 1] = c /\ \A i \in 1..n : a[i] = ring[i]
  OBVIOUS
<1>2. \A i, j \in 1..n : ring[i] = ring[j] => i = j
  BY EntryIs
<1>3. \A x : x \in ToSet(ring) <=> \E i \in 1..n : ring[i] = x
  BY EntryIs
<1>4. \A x : x \in ToSet(a) <=> \E i \in 1..(n + 1) : a[i] = x
  <2>1. \A x : x \in ToSet(a) <=> \E i \in 1..Len(a) : a[i] = x
    BY <1>1, EntryIs
  <2> QED BY <1>1, <2>1
<1> HIDE DEF n, a
<1>5. ASSUME NEW i \in 1..(n + 1), NEW j \in 1..(n + 1), a[i] = a[j] PROVE i = j
  <2>1. CASE i = n + 1 \/ j = n + 1
    BY <1>1, <1>3, <1>5, <2>1
  <2>2. CASE i # n + 1 /\ j # n + 1
    BY <1>1, <1>2, <1>5, <2>2
  <2> QED BY <2>1, <2>2
<1>6. ToSet(a) = ToSet(ring) \cup {c}
  <2>1. ASSUME NEW i \in 1..(n + 1) PROVE a[i] \in ToSet(ring) \cup {c}
    BY <1>1, <1>3
  <2>2. ASSUME NEW i \in 1..n PROVE ring[i] \in ToSet(a)
    BY <1>1, <1>4
  <2>3. c \in ToSet(a)
    BY <1>1, <1>4
  <2> QED BY <1>3, <1>4, <2>1, <2>2, <2>3
<1>7. IsInjective(a)
  BY <1>1, <1>5, EntryIs
<1> QED BY <1>1, <1>6, <1>7 DEF a

-----------------------------------------------------------------------------
(* The counter and the rings of a page tag.                                 *)

\* Two page tags with the same pages and chunks.
SamePages(qt, pt) ==
  qt.npages = pt.npages /\ qt.chunks = pt.chunks /\ qt.used = pt.used /\ qt.dangling = pt.dangling

\* A chunk has the same class in both.
LEMMA SameClasses ==
  ASSUME NEW pt, NEW qt, qt.chunks = pt.chunks, NEW c
  PROVE  NextChunk(qt, c) = NextChunk(pt, c) /\ Class(qt, c) = Class(pt, c)
BY DEF NextChunk, Class, memory_chunk_size

\* The counter alone changes.
LEMMA CountOnly ==
  ASSUME NEW pt \in PageTag, NEW bytes \in Int
  PROVE  /\ Credit(pt, bytes) \in PageTag /\ SamePages(Credit(pt, bytes), pt)
         /\ Credit(pt, bytes).free = pt.free
         /\ Debit(pt, bytes) \in PageTag /\ SamePages(Debit(pt, bytes), pt)
         /\ Debit(pt, bytes).free = pt.free
<1>1. SizeMax \in Nat /\ SizeMax > 0
  BY HeapAssumption DEF HeapAssumption, CHUNK
<1>2. pt.mem_free \in Int
  BY DEF PageTag
<1>3. (pt.mem_free + bytes) % SizeMax \in Int /\ (pt.mem_free - bytes) % SizeMax \in Int
  BY <1>1, <1>2
<1> DEFINE x == (pt.mem_free + bytes) % SizeMax
           y == (pt.mem_free - bytes) % SizeMax
<1>4. Credit(pt, bytes) = [pt EXCEPT !.mem_free = x] /\ Debit(pt, bytes) = [pt EXCEPT !.mem_free = y]
  BY DEF Credit, Debit
<1>5. x \in Int /\ y \in Int
  BY <1>3
<1> HIDE DEF x, y
<1> QED BY <1>4, <1>5 DEF PageTag, SamePages

\* What is filed depends on the rings and the classes alone.
LEMMA RingsSame ==
  ASSUME NEW pt, NEW qt, NEW filed, RingsHold(pt, filed), qt.free = pt.free,
         \A c \in filed : Class(qt, c) = Class(pt, c)
  PROVE  RingsHold(qt, filed)
BY DEF RingsHold

\* push_free files one more chunk.
LEMMA PushFreeIs ==
  ASSUME NEW pt \in PageTag, NEW filed, RingsHold(pt, filed),
         NEW c \in Nat, c \notin filed, Class(pt, c) \in Slot
  PROVE  /\ PushFree(pt, c) \in PageTag /\ SamePages(PushFree(pt, c), pt)
         /\ RingsHold(PushFree(pt, c), filed \cup {c})
<1> DEFINE n == Class(pt, c)
           qt == PushFree(pt, c)
<1>1. pt.free \in [Slot -> Seq(Nat)]
  BY DEF PageTag
<1>2. qt = [pt EXCEPT !.free[n] = Append(@, c)]
  BY DEF PushFree, Class
<1>3. IsInjective(pt.free[n]) /\ ToSet(pt.free[n]) = {d \in filed : Class(pt, d) = n}
  BY DEF RingsHold
<1>4. pt.free[n] \in Seq(Nat) /\ c \notin ToSet(pt.free[n])
  BY <1>1, <1>3
<1>5. Append(pt.free[n], c) \in Seq(Nat) /\ IsInjective(Append(pt.free[n], c))
      /\ ToSet(Append(pt.free[n], c)) = ToSet(pt.free[n]) \cup {c}
  BY <1>3, <1>4, AppendIs
<1>6. qt.free = [pt.free EXCEPT ![n] = Append(pt.free[n], c)]
  BY <1>1, <1>2 DEF PageTag
<1>7. qt.free[n] = Append(pt.free[n], c) /\ (\A k \in Slot : k # n => qt.free[k] = pt.free[k])
      /\ qt.free \in [Slot -> Seq(Nat)]
  BY <1>1, <1>5, <1>6
<1>8. SamePages(qt, pt)
  BY <1>2 DEF PageTag, SamePages
<1>9. qt \in PageTag
  BY <1>2, <1>7 DEF PageTag
<1> HIDE DEF qt
<1>10. \A d : Class(qt, d) = Class(pt, d)
  BY <1>8, SameClasses DEF SamePages
<1>11. ASSUME NEW k \in Slot
       PROVE  IsInjective(qt.free[k]) /\ ToSet(qt.free[k]) = {d \in filed \cup {c} : Class(qt, d) = k}
  <2>1. CASE k = n
    BY <1>3, <1>5, <1>7, <1>10, <2>1
  <2>2. CASE k # n
    BY <1>7, <1>10, <2>2 DEF RingsHold
  <2> QED BY <2>1, <2>2
<1>12. RingsHold(qt, filed \cup {c})
  BY <1>11 DEF RingsHold
<1> QED BY <1>8, <1>9, <1>12 DEF qt

\* remove_free takes one chunk out of its ring.
LEMMA RemoveFreeIs ==
  ASSUME NEW pt \in PageTag, NEW filed, RingsHold(pt, filed),
         NEW c \in filed, Class(pt, c) \in Slot, memory_chunk_size(pt, c) \in Int
  PROVE  /\ RemoveFree(pt, c) \in PageTag /\ SamePages(RemoveFree(pt, c), pt)
         /\ RingsHold(RemoveFree(pt, c), filed \ {c})
<1> DEFINE n == Class(pt, c)
           qt == [pt EXCEPT !.free[n] = Without(@, c)]
           bytes == memory_chunk_size(pt, c) - HEADER_SIZE
<1>1. pt.free \in [Slot -> Seq(Nat)]
  BY DEF PageTag
<1>2. RemoveFree(pt, c) = Debit(qt, bytes) /\ bytes \in Int
  BY DEF RemoveFree, Class, HEADER_SIZE
<1>3. IsInjective(pt.free[n]) /\ ToSet(pt.free[n]) = {d \in filed : Class(pt, d) = n}
  BY DEF RingsHold
<1>4. pt.free[n] \in Seq(Nat) /\ c \in ToSet(pt.free[n])
  BY <1>1, <1>3
<1>5. Without(pt.free[n], c) \in Seq(Nat) /\ IsInjective(Without(pt.free[n], c))
      /\ ToSet(Without(pt.free[n], c)) = ToSet(pt.free[n]) \ {c}
  BY <1>3, <1>4, WithoutIs
<1>6. qt.free = [pt.free EXCEPT ![n] = Without(pt.free[n], c)]
  BY <1>1 DEF PageTag
<1>7. qt.free[n] = Without(pt.free[n], c) /\ (\A k \in Slot : k # n => qt.free[k] = pt.free[k])
      /\ qt.free \in [Slot -> Seq(Nat)]
  BY <1>1, <1>5, <1>6
<1>8. SamePages(qt, pt)
  BY DEF PageTag, SamePages
<1>9. qt \in PageTag
  BY <1>7 DEF PageTag
<1> HIDE DEF qt, bytes
<1>10. Debit(qt, bytes) \in PageTag /\ SamePages(Debit(qt, bytes), qt) /\ Debit(qt, bytes).free = qt.free
  BY <1>2, <1>9, CountOnly
<1>11. \A d : Class(qt, d) = Class(pt, d)
  BY <1>8, SameClasses DEF SamePages
<1>12. ASSUME NEW k \in Slot
       PROVE  IsInjective(qt.free[k]) /\ ToSet(qt.free[k]) = {d \in filed \ {c} : Class(qt, d) = k}
  <2>1. CASE k = n
    BY <1>3, <1>5, <1>7, <1>11, <2>1
  <2>2. CASE k # n
    BY <1>7, <1>11, <2>2 DEF RingsHold
  <2> QED BY <2>1, <2>2
<1>13. RingsHold(qt, filed \ {c})
  BY <1>12 DEF RingsHold
<1>14. \A d : Class(Debit(qt, bytes), d) = Class(qt, d)
  BY <1>10, SameClasses DEF SamePages
<1>15. RingsHold(Debit(qt, bytes), filed \ {c})
  BY <1>10, <1>13, <1>14, RingsSame
<1> QED BY <1>2, <1>8, <1>10, <1>15 DEF SamePages

-----------------------------------------------------------------------------
(* kfree joins chunks.                                                      *)

\* Joining a chunk to the one before it moves the end of no other chunk.
LEMMA NextKept ==
  ASSUME NEW pt \in PageTag, ChunksOK(pt), NEW qt, NEW x \in Nat, qt.chunks = pt.chunks \ {x},
         NEW c \in pt.chunks, c # LastChunk(pt), NextChunk(pt, c) # x
  PROVE  NextChunk(qt, c) = NextChunk(pt, c)
<1>1. /\ NextChunk(pt, c) \in pt.chunks /\ c \in Nat /\ c < NextChunk(pt, c)
      /\ \A d \in pt.chunks : c < d => NextChunk(pt, c) <= d
  BY NextIs DEF CHUNK
<1>2. qt.chunks \in SUBSET Nat
  BY DEF PageTag
<1>3. NextChunk(pt, c) \in qt.chunks /\ \A d \in qt.chunks : c < d => NextChunk(pt, c) <= d
  BY <1>1
<1> DEFINE e == NextChunk(pt, c)
<1>4. e \in qt.chunks /\ c < e /\ \A d \in qt.chunks : c < d => e <= d
  BY <1>1, <1>3
<1> HIDE DEF e
<1>5. NextChunk(qt, c) = e
  BY <1>1, <1>2, <1>4, NextEquals
<1> QED BY <1>5 DEF e

\* Only one chunk ends where another starts.
LEMMA OnePrevious ==
  ASSUME NEW pt \in PageTag, ChunksOK(pt), NEW c \in pt.chunks, NEW d \in pt.chunks,
         c # LastChunk(pt), d # LastChunk(pt), NextChunk(pt, c) = NextChunk(pt, d)
  PROVE  c = d
<1>1. c \in Nat /\ c < NextChunk(pt, c) /\ \A e \in pt.chunks : c < e => NextChunk(pt, c) <= e
  BY NextIs DEF CHUNK
<1>2. d \in Nat /\ d < NextChunk(pt, d) /\ \A e \in pt.chunks : d < e => NextChunk(pt, d) <= e
  BY NextIs DEF CHUNK
<1>3. ~ (c < d) /\ ~ (d < c)
  <2>1. c < d => NextChunk(pt, c) <= d
    BY <1>1
  <2>2. d < c => NextChunk(pt, d) <= c
    BY <1>2
  <2>3. NextChunk(pt, c) \in Nat
    BY NextIs
  <2> DEFINE e == NextChunk(pt, c)
  <2>4. e \in Nat /\ c \in Nat /\ d \in Nat /\ c < e /\ d < e /\ (c < d => e <= d) /\ (d < c => e <= c)
    BY <1>1, <1>2, <2>1, <2>2, <2>3
  <2> HIDE DEF e
  <2> QED BY <2>4
<1> QED BY <1>1, <1>2, <1>3

\* The joined chunk ends where the second one did.
LEMMA NextJoined ==
  ASSUME NEW pt \in PageTag, ChunksOK(pt), NEW qt, NEW c \in pt.chunks, c # LastChunk(pt),
         NextChunk(pt, c) # LastChunk(pt), qt.chunks = pt.chunks \ {NextChunk(pt, c)}
  PROVE  NextChunk(qt, c) = NextChunk(pt, NextChunk(pt, c))
<1> DEFINE x == NextChunk(pt, c)
           e == NextChunk(pt, x)
<1>1. x \in pt.chunks /\ x \in Nat /\ c \in Nat /\ c < x
      /\ \A d \in pt.chunks : c < d => x <= d
  BY NextIs DEF CHUNK
<1>2. x # LastChunk(pt) /\ qt.chunks = pt.chunks \ {x}
  OBVIOUS
<1> HIDE DEF x
<1>3. e \in pt.chunks /\ e \in Nat /\ x < e /\ \A d \in pt.chunks : x < d => e <= d
  BY <1>1, <1>2, NextIs DEF CHUNK
<1>4. pt.chunks \in SUBSET Nat
  BY DEF PageTag
<1> HIDE DEF e
<1>5. \A d \in qt.chunks : c < d => e <= d
  BY <1>1, <1>2, <1>3, <1>4
<1>6. NextChunk(qt, c) = e
  BY <1>1, <1>2, <1>3, <1>4, <1>5, NextEquals
<1> QED BY <1>6 DEF e, x

\* What the size of a chunk can be.
LEMMA SizeIs ==
  ASSUME NEW pt \in PageTag, ChunksOK(pt), NEW c \in pt.chunks, c # LastChunk(pt)
  PROVE  memory_chunk_size(pt, c) \in Nat /\ memory_chunk_size(pt, c) >= CHUNK
         /\ Class(pt, c) \in Slot
<1>1. NextChunk(pt, c) \in Nat /\ c \in Nat /\ c + CHUNK <= NextChunk(pt, c)
  BY NextIs
<1>2. memory_chunk_size(pt, c) \in Nat /\ memory_chunk_size(pt, c) >= CHUNK
  BY <1>1 DEF memory_chunk_size, CHUNK
<1>3. memory_chunk_size(pt, c) \in Nat \ {0}
  BY <1>2 DEF CHUNK
<1> QED BY <1>2, <1>3, ClassIsSlot DEF Class

\* merge_next: afterwards the chunk behind is in use, and no other chunk has moved.
LEMMA MergeNextIs ==
  ASSUME NEW pt \in PageTag, PageOK(pt), NEW ck \in Inner(pt)
  PROVE  LET qt == MergeNext(pt, ck) IN
         /\ qt \in PageTag /\ PageOK(qt)
         /\ qt.npages = pt.npages /\ qt.used = pt.used /\ qt.dangling = pt.dangling
         /\ NextChunk(qt, ck) \in qt.used
         /\ \A u \in pt.used \ {ck, LastChunk(pt)} : NextChunk(qt, u) = NextChunk(pt, u)
<1> DEFINE x == NextChunk(pt, ck)
<1>1. ChunksOK(pt) /\ Apart(pt) /\ RingsHold(pt, Unused(pt))
  BY DEF PageOK
<1>2. ck \in pt.used /\ ck \in pt.chunks /\ ck # 0 /\ ck # LastChunk(pt) /\ pt.chunks \in SUBSET Nat
  BY <1>1 DEF Inner, ChunksOK, PageTag
<1>3. x \in pt.chunks /\ x \in Nat /\ ck \in Nat /\ ck + CHUNK <= x
  BY <1>1, <1>2, NextIs
<1>4. CASE x \in pt.used
  <2>1. MergeNext(pt, ck) = pt
    BY <1>4 DEF MergeNext
  <2> QED BY <1>4, <2>1
<1>5. CASE x \notin pt.used
  <2> DEFINE r == RemoveFree(pt, x)
             j == [r EXCEPT !.chunks = @ \ {x}]
             q == Credit(j, HEADER_SIZE)
  <2>1. x \in Unused(pt)
    BY <1>3, <1>5 DEF Unused
  <2>2. x # LastChunk(pt) /\ NextChunk(pt, x) \in pt.used
    BY <1>1, <2>1, Neighbours
  <2>3. memory_chunk_size(pt, x) \in Int /\ Class(pt, x) \in Slot
    BY <1>1, <1>3, <2>2, SizeIs
  <2>4. r \in PageTag /\ SamePages(r, pt) /\ RingsHold(r, Unused(pt) \ {x})
    BY <1>1, <2>1, <2>3, RemoveFreeIs
  <2> HIDE DEF x, r
  <2>5. j \in PageTag /\ j.npages = pt.npages /\ j.chunks = pt.chunks \ {x} /\ j.used = pt.used
        /\ j.dangling = pt.dangling /\ j.free = r.free
    BY <2>4 DEF PageTag, SamePages
  <2> HIDE DEF j
  <2>6. HEADER_SIZE \in Int
    BY DEF HEADER_SIZE
  <2>7. q \in PageTag /\ SamePages(q, j) /\ q.free = j.free
    BY <2>5, <2>6, CountOnly
  <2>8. MergeNext(pt, ck) = q
    BY <1>5 DEF MergeNext, x, r, j
  <2> HIDE DEF q
  <2>9. q.npages = pt.npages /\ q.chunks = pt.chunks \ {x} /\ q.used = pt.used
        /\ q.dangling = pt.dangling /\ q.free = r.free
    BY <2>5, <2>7 DEF SamePages
  <2>10. LastChunk(q) = LastChunk(pt)
    BY <2>9 DEF LastChunk
  <2>11. CHUNK <= ck /\ CHUNK # x
    BY <1>1, <1>2, <1>3 DEF ChunksOK, CHUNK
  <2>12. ChunksOK(q)
    BY <1>1, <1>5, <2>2, <2>9, <2>10, <2>11 DEF ChunksOK
  <2>13. Unused(q) = Unused(pt) \ {x}
    BY <2>9 DEF Unused
  <2>14. Apart(q)
    BY <1>1, <2>9, <2>13 DEF Apart
  <2>15. ASSUME NEW c \in Unused(pt) \ {x} PROVE Class(q, c) = Class(r, c)
    <3>1. c \in pt.chunks /\ c # LastChunk(pt) /\ NextChunk(pt, c) # x
      BY <1>1, <1>5, Neighbours
    <3>2. NextChunk(q, c) = NextChunk(pt, c)
      BY <1>1, <1>3, <2>9, <3>1, NextKept
    <3>3. NextChunk(r, c) = NextChunk(pt, c)
      BY <2>4, SameClasses DEF SamePages
    <3> QED BY <3>2, <3>3, ClassSame
  <2>16. RingsHold(q, Unused(q))
    <3>1. RingsHold(q, Unused(pt) \ {x})
      BY <2>4, <2>9, <2>15, RingsSame
    <3> QED BY <2>13, <3>1
  <2>17. NextChunk(q, ck) \in q.used
    <3>1. x = NextChunk(pt, ck)
      BY DEF x
    <3>2. NextChunk(q, ck) = NextChunk(pt, NextChunk(pt, ck))
      BY <1>1, <1>2, <2>2, <2>9, <3>1, NextJoined
    <3> QED BY <2>2, <2>9, <3>1, <3>2
  <2>18. ASSUME NEW u \in pt.used \ {ck, LastChunk(pt)} PROVE NextChunk(q, u) = NextChunk(pt, u)
    <3>1. u \in pt.chunks
      BY <1>1 DEF ChunksOK
    <3>2. NextChunk(pt, u) # x
      BY <1>1, <1>2, <3>1, OnePrevious DEF x
    <3> QED BY <1>1, <1>3, <2>9, <3>1, <3>2, NextKept
  <2> QED BY <2>7, <2>8, <2>9, <2>12, <2>14, <2>16, <2>17, <2>18 DEF PageOK
<1> QED BY <1>4, <1>5

\* merge_prev or push_free: the chunk is given up, and no block has moved.
LEMMA MergePrevOrPushIs ==
  ASSUME NEW pt \in PageTag, PageOK(pt), NEW ck \in Inner(pt), NextChunk(pt, ck) \in pt.used
  PROVE  LET qt == MergePrevOrPush(pt, ck) IN
         /\ qt \in PageTag /\ PageOK(qt)
         /\ qt.npages = pt.npages /\ qt.used = pt.used \ {ck} /\ qt.dangling = pt.dangling
         /\ \A u \in pt.used \ {ck, LastChunk(pt)} : NextChunk(qt, u) = NextChunk(pt, u)
<1> DEFINE x == PrevChunk(pt, ck)
           y == NextChunk(pt, ck)
<1>1. ChunksOK(pt) /\ Apart(pt) /\ RingsHold(pt, Unused(pt))
  BY DEF PageOK
<1>2. ck \in pt.used /\ ck \in pt.chunks /\ ck # 0 /\ ck # LastChunk(pt) /\ pt.chunks \in SUBSET Nat
      /\ pt.used \subseteq pt.chunks
  BY <1>1 DEF Inner, ChunksOK, PageTag
<1>3. /\ x \in pt.chunks /\ x \in Nat /\ ck \in Nat /\ x < ck /\ x # LastChunk(pt)
      /\ \A d \in pt.chunks : d < ck => d <= x
      /\ NextChunk(pt, x) = ck
  BY <1>1, <1>2, PrevIs
<1>4. y \in pt.used /\ y \in Nat /\ ck < y /\ \A d \in pt.chunks : ck < d => y <= d
  BY <1>1, <1>2, NextIs DEF CHUNK
<1>5. CASE x \in pt.used
  <2> DEFINE r == [pt EXCEPT !.used = @ \ {ck}]
             q == PushFree(r, ck)
  <2>1. r \in PageTag /\ r.npages = pt.npages /\ r.chunks = pt.chunks /\ r.used = pt.used \ {ck}
        /\ r.dangling = pt.dangling /\ r.free = pt.free
    BY DEF PageTag
  <2>2. MergePrevOrPush(pt, ck) = q
    BY <1>5 DEF MergePrevOrPush
  <2> HIDE DEF r
  <2>3. \A c : NextChunk(r, c) = NextChunk(pt, c) /\ Class(r, c) = Class(pt, c)
    BY <2>1, SameClasses
  <2>4. RingsHold(r, Unused(pt))
    BY <1>1, <2>1, <2>3, RingsSame
  <2>5. ck \notin Unused(pt) /\ Class(r, ck) \in Slot
    BY <1>1, <1>2, <2>3, SizeIs DEF Unused
  <2>6. q \in PageTag /\ SamePages(q, r) /\ RingsHold(q, Unused(pt) \cup {ck})
    BY <1>3, <2>1, <2>4, <2>5, PushFreeIs
  <2> HIDE DEF q
  <2>7. q.npages = pt.npages /\ q.chunks = pt.chunks /\ q.used = pt.used \ {ck}
        /\ q.dangling = pt.dangling
    BY <2>1, <2>6 DEF SamePages
  <2>8. Unused(q) = Unused(pt) \cup {ck}
    BY <1>2, <2>7 DEF Unused
  <2>9. ChunksOK(q)
    BY <1>1, <1>2, <2>7 DEF ChunksOK, LastChunk
  <2>10. ASSUME NEW c \in Unused(q), NEW d \in Unused(q), c < d
         PROVE  \E u \in q.used : c < u /\ u < d
    <3>1. c \in pt.chunks /\ d \in pt.chunks /\ c \in Nat /\ d \in Nat
      BY <1>2, <2>7 DEF Unused
    <3>2. CASE d = ck
      <4>1. c # ck /\ c # x
        BY <1>3, <1>5, <2>8, <2>10, <3>1, <3>2 DEF Unused
      <4>2. c < x /\ x < d /\ x \in q.used
        BY <1>3, <1>5, <2>7, <2>10, <3>1, <3>2, <4>1
      <4> QED BY <4>2
    <3>3. CASE c = ck
      <4>1. d # y
        BY <1>4, <2>8, <2>10, <3>1, <3>3 DEF Unused
      <4>2. c < y /\ y < d /\ y \in q.used
        BY <1>3, <1>4, <2>7, <2>10, <3>1, <3>3, <4>1
      <4> QED BY <4>2
    <3>4. CASE c # ck /\ d # ck
      <4>1. c \in Unused(pt) /\ d \in Unused(pt)
        BY <2>8, <3>4
      <4>2. PICK u \in pt.used : c < u /\ u < d
        BY <1>1, <2>10, <4>1 DEF Apart
      <4>3. CASE u # ck
        BY <2>7, <4>2, <4>3
      <4>4. CASE u = ck
        <5>1. c # x
          BY <1>5, <4>1 DEF Unused
        <5>2. c < x /\ x < d /\ x \in q.used
          BY <1>3, <1>5, <2>7, <3>1, <4>2, <4>4, <5>1
        <5> QED BY <5>2
      <4> QED BY <4>3, <4>4
    <3> QED BY <3>2, <3>3, <3>4
  <2>11. Apart(q)
    BY <2>10 DEF Apart
  <2>12. RingsHold(q, Unused(q))
    BY <2>6, <2>8
  <2>13. \A u : NextChunk(q, u) = NextChunk(pt, u)
    BY <2>7, SameClasses
  <2> QED BY <2>2, <2>6, <2>7, <2>9, <2>11, <2>12, <2>13 DEF PageOK
<1>6. CASE x \notin pt.used
  <2> DEFINE r == RemoveFree(pt, x)
             j == [r EXCEPT !.chunks = @ \ {ck}, !.used = @ \ {ck}]
             f == PushFree(j, x)
             q == Debit(f, HEADER_SIZE)
  <2>1. x \in Unused(pt) /\ CHUNK <= x
    BY <1>1, <1>3, <1>6, Neighbours DEF Unused
  <2>2. memory_chunk_size(pt, x) \in Int /\ Class(pt, x) \in Slot
    BY <1>1, <1>3, SizeIs
  <2>3. r \in PageTag /\ SamePages(r, pt) /\ RingsHold(r, Unused(pt) \ {x})
    BY <1>1, <2>1, <2>2, RemoveFreeIs
  <2>4. MergePrevOrPush(pt, ck) = q
    BY <1>6 DEF MergePrevOrPush
  <2> HIDE DEF x, r
  <2>5. j \in PageTag /\ j.npages = pt.npages /\ j.chunks = pt.chunks \ {ck} /\ j.used = pt.used \ {ck}
        /\ j.dangling = pt.dangling /\ j.free = r.free
    BY <2>3 DEF PageTag, SamePages
  <2> HIDE DEF j
  <2>6. LastChunk(j) = LastChunk(pt)
    BY <2>5 DEF LastChunk
  <2>7. ck # CHUNK
    BY <1>3, <2>1 DEF CHUNK
  <2>8. ChunksOK(j)
    BY <1>1, <1>2, <2>5, <2>6, <2>7 DEF ChunksOK
  <2>9. Unused(j) = Unused(pt)
    BY <1>2, <2>5 DEF Unused
  <2>10. x \in j.chunks /\ x # LastChunk(j) /\ Class(j, x) \in Slot
    BY <1>3, <2>5, <2>6, <2>8, SizeIs
  <2>11. ASSUME NEW c \in Unused(pt) \ {x} PROVE Class(j, c) = Class(r, c)
    <3>1. c \in pt.chunks /\ c # LastChunk(pt)
      BY <1>1, Neighbours
    <3>2. NextChunk(pt, c) # ck
      BY <1>1, <1>3, <3>1, OnePrevious
    <3>3. NextChunk(j, c) = NextChunk(pt, c)
      BY <1>1, <1>3, <2>5, <3>1, <3>2, NextKept
    <3>4. NextChunk(r, c) = NextChunk(pt, c)
      BY <2>3, SameClasses DEF SamePages
    <3> QED BY <3>3, <3>4, ClassSame
  <2>12. RingsHold(j, Unused(pt) \ {x})
    BY <2>3, <2>5, <2>11, RingsSame
  <2>13. f \in PageTag /\ SamePages(f, j) /\ RingsHold(f, (Unused(pt) \ {x}) \cup {x})
    BY <1>3, <2>5, <2>10, <2>12, PushFreeIs
  <2>14. (Unused(pt) \ {x}) \cup {x} = Unused(pt)
    BY <2>1
  <2> HIDE DEF f
  <2>15. HEADER_SIZE \in Int
    BY DEF HEADER_SIZE
  <2>16. q \in PageTag /\ SamePages(q, f) /\ q.free = f.free
    BY <2>13, <2>15, CountOnly
  <2> HIDE DEF q
  <2>17. q.npages = pt.npages /\ q.chunks = pt.chunks \ {ck} /\ q.used = pt.used \ {ck}
         /\ q.dangling = pt.dangling
    BY <2>5, <2>13, <2>16 DEF SamePages
  <2>18. ChunksOK(q)
    BY <2>5, <2>8, <2>17 DEF ChunksOK, LastChunk
  <2>19. Unused(q) = Unused(pt)
    BY <2>5, <2>9, <2>17 DEF Unused
  <2>20. RingsHold(q, Unused(q))
    <3>1. \A c : Class(q, c) = Class(f, c)
      BY <2>16, SameClasses DEF SamePages
    <3>2. RingsHold(f, Unused(pt))
      BY <2>13, <2>14
    <3> QED BY <2>16, <2>19, <3>1, <3>2, RingsSame
  <2>21. ASSUME NEW c \in Unused(pt), NEW d \in Unused(pt), c < d
         PROVE  \E u \in q.used : c < u /\ u < d
    <3>1. d \in pt.chunks /\ c \in Nat /\ d \in Nat /\ d # y
      BY <1>2, <1>4 DEF Unused
    <3>2. PICK u \in pt.used : c < u /\ u < d
      BY <1>1, <2>21 DEF Apart
    <3>3. CASE u # ck
      BY <2>17, <3>2, <3>3
    <3>4. CASE u = ck
      <4>1. c < y /\ y < d /\ y \in q.used
        BY <1>3, <1>4, <2>17, <3>1, <3>2, <3>4
      <4> QED BY <4>1
    <3> QED BY <3>3, <3>4
  <2>22. Apart(q)
    BY <2>19, <2>21 DEF Apart
  <2>23. ASSUME NEW u \in pt.used \ {ck, LastChunk(pt)} PROVE NextChunk(q, u) = NextChunk(pt, u)
    <3>1. u \in pt.chunks /\ u # x
      BY <1>2, <1>6 DEF x
    <3>2. NextChunk(pt, u) # ck
      BY <1>1, <1>3, <3>1, OnePrevious
    <3> QED BY <1>1, <1>3, <2>17, <3>1, <3>2, NextKept
  <2> QED BY <2>4, <2>16, <2>17, <2>18, <2>20, <2>22, <2>23 DEF PageOK
<1> QED BY <1>5, <1>6

-----------------------------------------------------------------------------
(* kmalloc takes a chunk.                                                   *)

\* Splitting a chunk moves the end of no other.
LEMMA NextKeptBySplit ==
  ASSUME NEW pt \in PageTag, ChunksOK(pt), NEW qt, NEW ck \in pt.chunks, ck # LastChunk(pt),
         NEW x \in Nat, ck < x, x < NextChunk(pt, ck), qt.chunks = pt.chunks \cup {x},
         NEW c \in pt.chunks, c # LastChunk(pt), c # ck
  PROVE  NextChunk(qt, c) = NextChunk(pt, c)
<1> DEFINE e == NextChunk(pt, c)
           f == NextChunk(pt, ck)
<1>1. e \in pt.chunks /\ e \in Nat /\ c \in Nat /\ c < e /\ \A d \in pt.chunks : c < d => e <= d
  BY NextIs DEF CHUNK
<1>2. f \in pt.chunks /\ f \in Nat /\ ck \in Nat /\ ck < f /\ x < f
      /\ \A d \in pt.chunks : ck < d => f <= d
  BY NextIs DEF CHUNK
<1>3. qt.chunks \in SUBSET Nat
  BY DEF PageTag
<1> HIDE DEF e, f
<1>4. c < x => e <= x
  <2>1. CASE c < ck
    BY <1>1, <1>2, <2>1
  <2>2. CASE ck < c
    BY <1>1, <1>2, <2>2
  <2> QED BY <1>1, <1>2, <2>1, <2>2
<1>5. e \in qt.chunks /\ \A d \in qt.chunks : c < d => e <= d
  BY <1>1, <1>4
<1>6. NextChunk(qt, c) = e
  BY <1>1, <1>3, <1>5, NextEquals
<1> QED BY <1>6 DEF e

\* kmalloc_on_cur_page hands out the head of a class: the rings, the chunks and
\* the blocks are still right, and what was unused is now in use.
LEMMA CarveIs ==
  ASSUME NEW pt \in PageTag, PageOK(pt), NEW n \in Slot, pt.free[n] # << >>,
         NEW need \in Nat, need >= MIN_SIZE, need % ALIGN = 0
  PROVE  LET qt == Carve(pt, n, need)
             ck == Head(pt.free[n])
         IN  /\ qt \in PageTag /\ PageOK(qt)
             /\ ck \in Unused(pt)
             /\ qt.npages = pt.npages /\ qt.used = pt.used \cup {ck} /\ qt.dangling = pt.dangling
             /\ \A u \in pt.used \ {LastChunk(pt)} : NextChunk(qt, u) = NextChunk(pt, u)
<1> DEFINE ck == Head(pt.free[n])
           size2 == memory_chunk_size(pt, ck)
           ck2 == ck + HEADER_SIZE + need
           r == [pt EXCEPT !.free[n] = Tail(@), !.used = @ \cup {ck}]
           taken == Debit(r, size2 - HEADER_SIZE)
           cut == [taken EXCEPT !.chunks = @ \cup {ck2}]
           y == NextChunk(pt, ck)
<1>1. ChunksOK(pt) /\ Apart(pt) /\ RingsHold(pt, Unused(pt))
  BY DEF PageOK
<1>2. pt.free \in [Slot -> Seq(Nat)] /\ pt.chunks \in SUBSET Nat /\ pt.used \subseteq pt.chunks
  BY <1>1 DEF PageTag, ChunksOK
<1>3. IsInjective(pt.free[n]) /\ ToSet(pt.free[n]) = {c \in Unused(pt) : Class(pt, c) = n}
      /\ pt.free[n] \in Seq(Nat)
  BY <1>1, <1>2 DEF RingsHold
<1>4. ck \in ToSet(pt.free[n]) /\ Tail(pt.free[n]) \in Seq(Nat) /\ IsInjective(Tail(pt.free[n]))
      /\ ToSet(Tail(pt.free[n])) = ToSet(pt.free[n]) \ {ck}
  BY <1>3, TailIs
<1>5. ck \in Unused(pt) /\ Class(pt, ck) = n
  BY <1>3, <1>4
<1> HIDE DEF ck
<1>6. ck \in pt.chunks /\ ck \in Nat /\ CHUNK <= ck /\ ck # LastChunk(pt) /\ y \in pt.used
  BY <1>1, <1>5, Neighbours
<1>7. y \in Nat /\ ck + CHUNK <= y /\ \A d \in pt.chunks : ck < d => y <= d
  BY <1>1, <1>6, NextIs
<1>8. size2 = y - ck /\ size2 \in Int
  BY <1>6, <1>7 DEF memory_chunk_size
<1>9. r \in PageTag /\ r.npages = pt.npages /\ r.chunks = pt.chunks /\ r.used = pt.used \cup {ck}
      /\ r.dangling = pt.dangling /\ r.free = [pt.free EXCEPT ![n] = Tail(pt.free[n])]
  BY <1>2, <1>4, <1>6 DEF PageTag
<1>10. r.free[n] = Tail(pt.free[n]) /\ \A k \in Slot : k # n => r.free[k] = pt.free[k]
  BY <1>2, <1>9
<1>11. \A c : NextChunk(r, c) = NextChunk(pt, c) /\ Class(r, c) = Class(pt, c)
  BY <1>9, SameClasses
<1>12. RingsHold(r, Unused(pt) \ {ck})
  <2>1. ASSUME NEW k \in Slot
        PROVE  IsInjective(r.free[k]) /\ ToSet(r.free[k]) = {c \in Unused(pt) \ {ck} : Class(r, c) = k}
    <3>1. CASE k = n
      BY <1>3, <1>4, <1>10, <1>11, <3>1
    <3>2. CASE k # n
      BY <1>1, <1>5, <1>10, <1>11, <3>2 DEF RingsHold
    <3> QED BY <3>1, <3>2
  <2> QED BY <2>1 DEF RingsHold
<1>13. size2 - HEADER_SIZE \in Int
  BY <1>8 DEF HEADER_SIZE
<1> HIDE DEF r, size2
<1>14. taken \in PageTag /\ SamePages(taken, r) /\ taken.free = r.free
  BY <1>9, <1>13, CountOnly
<1>15. taken.npages = pt.npages /\ taken.chunks = pt.chunks /\ taken.used = pt.used \cup {ck}
       /\ taken.dangling = pt.dangling
  BY <1>9, <1>14 DEF SamePages
<1>16. RingsHold(taken, Unused(pt) \ {ck})
  <2>1. \A c : Class(taken, c) = Class(r, c)
    BY <1>14, SameClasses DEF SamePages
  <2> QED BY <1>12, <1>14, <2>1, RingsSame
<1> HIDE DEF taken
<1>17. \A c : NextChunk(taken, c) = NextChunk(pt, c)
  BY <1>15, SameClasses
<1>18. CASE ~ Splits(need, size2)
  <2>1. Carve(pt, n, need) = taken
    BY <1>18 DEF Carve, ck, size2, r, taken
  <2>2. Unused(taken) = Unused(pt) \ {ck}
    BY <1>15 DEF Unused
  <2>3. ChunksOK(taken)
    BY <1>1, <1>6, <1>15 DEF ChunksOK, LastChunk
  <2>4. Apart(taken)
    BY <1>1, <1>15, <2>2 DEF Apart
  <2> QED BY <1>5, <1>14, <1>15, <1>16, <1>17, <2>1, <2>2, <2>3, <2>4 DEF PageOK, ck
<1>19. CASE Splits(need, size2)
  <2> DEFINE f == PushFree(cut, ck2)
             bytes == memory_chunk_size(cut, ck2) - HEADER_SIZE
             q == Credit(f, bytes)
  <2>1. Carve(pt, n, need) = q
    BY <1>19 DEF Carve, ck, size2, r, taken, cut, ck2
  <2>2. ck2 \in Nat /\ ck + CHUNK <= ck2 /\ ck2 + CHUNK <= y /\ ck2 # ck /\ ck < ck2 /\ ck2 < y
    BY <1>6, <1>7, <1>8, <1>19 DEF Splits, HEADER_SIZE, CHUNK, MIN_SIZE
  <2>3. ck % ALIGN = 0
    BY <1>1, <1>6 DEF ChunksOK
  <2>4. ck2 % ALIGN = 0
    BY <1>6, <2>3 DEF ALIGN, HEADER_SIZE
  <2> HIDE DEF ck2, y
  <2>5. cut \in PageTag /\ cut.npages = pt.npages /\ cut.chunks = pt.chunks \cup {ck2}
        /\ cut.used = pt.used \cup {ck} /\ cut.dangling = pt.dangling /\ cut.free = taken.free
    BY <1>14, <1>15, <2>2 DEF PageTag
  <2> HIDE DEF cut
  <2>6. LastChunk(cut) = LastChunk(pt)
    BY <2>5 DEF LastChunk
  <2>7. ck2 \notin pt.chunks
    BY <1>7, <2>2
  <2>8. ASSUME NEW c \in pt.chunks PROVE (c < ck2 => c + CHUNK <= ck2) /\ (ck2 < c => ck2 + CHUNK <= c)
    <3>1. c \in Nat /\ CHUNK = 40
      BY <1>2 DEF CHUNK
    <3>2. c <= ck \/ y <= c
      BY <1>6, <1>7, <3>1
    <3> QED BY <1>6, <1>7, <2>2, <3>1, <3>2
  <2>9. y <= LastChunk(pt) /\ LastChunk(pt) \in Nat
    BY <1>1, <1>2, <1>6, <1>7 DEF ChunksOK
  <2>10. ChunksOK(cut)
    <3>1. \A c, d \in pt.chunks : c < d => CHUNK <= d - c
      BY <1>1 DEF ChunksOK
    <3>2. \A c, d \in cut.chunks : c < d => CHUNK <= d - c
      <4>1. \A c \in pt.chunks : (c < ck2 => CHUNK <= ck2 - c) /\ (ck2 < c => CHUNK <= c - ck2)
        BY <1>2, <2>2, <2>8 DEF CHUNK
      <4>2. ~ (ck2 < ck2)
        BY <2>2
      <4> QED BY <2>5, <3>1, <4>1, <4>2
    <3>3. ck2 \in 0..LastChunk(pt)
      BY <2>2, <2>9, <1>7
    <3>4. \A c \in cut.chunks \ {LastChunk(pt)} : c % ALIGN = 0
      BY <1>1, <2>4, <2>5 DEF ChunksOK
    <3>5. cut.used \subseteq cut.chunks /\ {0, LastChunk(pt)} \subseteq cut.used
      BY <1>1, <1>6, <2>5 DEF ChunksOK
    <3>6. cut.npages # 0 /\ 2 * CHUNK <= LastChunk(pt) /\ {0, CHUNK, LastChunk(pt)} \subseteq cut.chunks
          /\ cut.chunks \subseteq 0..LastChunk(pt)
      BY <1>1, <2>5, <3>3 DEF ChunksOK
    <3> QED BY <2>6, <3>2, <3>4, <3>5, <3>6 DEF ChunksOK
  <2>11. ck2 \in cut.chunks /\ ck2 # LastChunk(cut)
    BY <1>7, <2>2, <2>5, <2>6, <2>9
  <2>12. memory_chunk_size(cut, ck2) \in Nat /\ Class(cut, ck2) \in Slot
    BY <2>5, <2>10, <2>11, SizeIs
  <2>13. \A c \in pt.chunks \ {ck, LastChunk(pt)} : NextChunk(cut, c) = NextChunk(pt, c)
    BY <1>1, <1>6, <2>2, <2>5, NextKeptBySplit DEF y
  <2>14. ASSUME NEW c \in Unused(pt) \ {ck} PROVE Class(cut, c) = Class(taken, c)
    <3>1. c \in pt.chunks /\ c # LastChunk(pt)
      BY <1>1, Neighbours
    <3>2. NextChunk(cut, c) = NextChunk(taken, c)
      BY <1>17, <2>13, <3>1
    <3> QED BY <3>2, ClassSame
  <2>15. RingsHold(cut, Unused(pt) \ {ck})
    BY <1>16, <2>5, <2>14, RingsSame
  <2>16. ck2 \notin Unused(pt) \ {ck}
    BY <2>7 DEF Unused
  <2>17. f \in PageTag /\ SamePages(f, cut) /\ RingsHold(f, (Unused(pt) \ {ck}) \cup {ck2})
    BY <2>2, <2>5, <2>12, <2>15, <2>16, PushFreeIs
  <2>18. bytes \in Int
    BY <2>12 DEF HEADER_SIZE
  <2> HIDE DEF f, bytes
  <2>19. q \in PageTag /\ SamePages(q, f) /\ q.free = f.free
    BY <2>17, <2>18, CountOnly
  <2> HIDE DEF q
  <2>20. q.npages = pt.npages /\ q.chunks = pt.chunks \cup {ck2} /\ q.used = pt.used \cup {ck}
         /\ q.dangling = pt.dangling
    BY <2>5, <2>17, <2>19 DEF SamePages
  <2>21. Unused(q) = (Unused(pt) \ {ck}) \cup {ck2}
    BY <1>2, <2>2, <2>7, <2>20 DEF Unused
  <2>22. ChunksOK(q)
    BY <2>5, <2>10, <2>20 DEF ChunksOK, LastChunk
  <2>23. RingsHold(q, Unused(q))
    <3>1. \A c : Class(q, c) = Class(f, c)
      BY <2>19, SameClasses DEF SamePages
    <3>2. RingsHold(f, Unused(q))
      BY <2>17, <2>21
    <3> QED BY <2>19, <3>1, <3>2, RingsSame
  <2>24. ASSUME NEW c \in Unused(q), NEW d \in Unused(q), c < d
         PROVE  \E u \in q.used : c < u /\ u < d
    <3>1. c \in Nat /\ d \in Nat
      BY <1>2, <2>2, <2>21 DEF Unused
    <3>2. CASE d = ck2
      <4>1. c \in pt.chunks /\ c # ck /\ c < ck2
        BY <1>2, <2>2, <2>21, <2>24, <3>1, <3>2 DEF Unused
      <4>2. c < ck /\ ck < d /\ ck \in q.used
        BY <1>6, <1>7, <2>2, <2>20, <3>1, <3>2, <4>1
      <4> QED BY <4>2
    <3>3. CASE c = ck2
      <4>1. d \in pt.chunks /\ d # y /\ ck2 < d
        BY <1>2, <1>6, <2>2, <2>21, <2>24, <3>1, <3>3 DEF Unused
      <4>2. c < y /\ y < d /\ y \in q.used
        BY <1>6, <1>7, <2>2, <2>20, <3>1, <3>3, <4>1
      <4> QED BY <4>2
    <3>4. CASE c # ck2 /\ d # ck2
      <4>1. c \in Unused(pt) /\ d \in Unused(pt)
        BY <2>21, <3>4
      <4>2. PICK u \in pt.used : c < u /\ u < d
        BY <1>1, <2>24, <4>1 DEF Apart
      <4> QED BY <2>20, <4>2
    <3> QED BY <3>2, <3>3, <3>4
  <2>25. Apart(q)
    BY <2>24 DEF Apart
  <2>26. ASSUME NEW u \in pt.used \ {LastChunk(pt)} PROVE NextChunk(q, u) = NextChunk(pt, u)
    <3>1. u \in pt.chunks \ {ck, LastChunk(pt)}
      BY <1>2, <1>5 DEF Unused
    <3>2. NextChunk(q, u) = NextChunk(cut, u)
      BY <2>5, <2>20, SameClasses
    <3> QED BY <2>13, <3>1, <3>2
  <2>27. q \in PageTag /\ PageOK(q)
    BY <2>19, <2>22, <2>23, <2>25 DEF PageOK
  <2> QED BY <1>5, <2>1, <2>20, <2>26, <2>27 DEF ck
<1> QED BY <1>18, <1>19

\* The bytes kmalloc takes for a request: no fewer than the node, whole units
\* of the alignment, and at most one unit of the node more than was asked for.
LEMMA NeedIs ==
  ASSUME NEW size \in Nat \ {0}
  PROVE  Need(size) \in Nat /\ Need(size) >= MIN_SIZE /\ Need(size) % ALIGN = 0
         /\ Need(size) <= size + 15
<1> DEFINE a == Rounded(size)
           S == {a, MIN_SIZE}
<1>1. a \in Nat /\ a % 4 = 0 /\ a <= size + 3
  BY DEF Rounded, ALIGN
<1> HIDE DEF a
<1>2. \E x \in S : \A y \in S : x >= y
  BY <1>1 DEF MIN_SIZE
<1>3. Need(size) \in S /\ \A y \in S : Need(size) >= y
  BY <1>2 DEF Need, Max, a
<1> HIDE DEF S
<1>4. Need(size) = a \/ Need(size) = 16
  BY <1>3 DEF S, MIN_SIZE
<1>5. Need(size) >= 16
  BY <1>3 DEF S, MIN_SIZE
<1> QED BY <1>1, <1>4, <1>5 DEF MIN_SIZE, ALIGN

\* Pages enough for the three chunks of a new tag and for the request.
LEMMA PagesForIs ==
  ASSUME NEW size \in Nat \ {0}
  PROVE  PagesFor(size) \in Nat /\ PagesFor(size) # 0
         /\ PagesFor(size) * PAGE_SIZE \in Nat
         /\ PagesFor(size) * PAGE_SIZE >= 3 * CHUNK + size
<1>1. PAGE_SIZE \in Nat /\ PAGE_SIZE > 0
  BY HeapAssumption DEF HeapAssumption, CHUNK
<1> DEFINE x == 3 * CHUNK + size
           n == (x + PAGE_SIZE - 1) \div PAGE_SIZE
<1>2. x \in Nat /\ x > 0 /\ PagesFor(size) = n
  BY DEF PagesFor, CHUNK
<1> HIDE DEF x
<1>3. n \in Nat /\ n * PAGE_SIZE >= x
  BY <1>1, <1>2
<1>4. n # 0 /\ n * PAGE_SIZE \in Nat
  BY <1>1, <1>2, <1>3
<1> HIDE DEF n
<1> QED BY <1>2, <1>3, <1>4 DEF x

\* A larger chunk is in no lower class.
LEMMA ClassGrows ==
  ASSUME NEW a \in Nat \ {0}, NEW b \in Nat, a <= b
  PROVE  memory_chunk_slot(b) >= memory_chunk_slot(a)
<1> DEFINE S(x) == {n \in Slot : 2^n <= x}
<1>1. NUM_SIZES \in Nat \ {0} /\ Slot = 0..(NUM_SIZES - 1)
  BY HeapAssumption DEF HeapAssumption, Slot
<1>2. b \in Nat \ {0}
  OBVIOUS
<1>3. memory_chunk_slot(a) \in S(a)
  <2>1. memory_chunk_slot(a) \in Slot
    BY ClassIsSlot
  <2>2. \E x \in S(a) : \A y \in S(a) : x >= y
    <3>1. 2^0 = 1 /\ 0 \in S(a)
      BY <1>1
    <3>2. S(a) \in SUBSET (0..(NUM_SIZES - 1)) /\ NUM_SIZES - 1 \in Nat
      BY <1>1
    <3>3. \E x \in S(a) : \A y \in S(a) : y <= x
      BY <3>1, <3>2, GreatestExists
    <3> QED BY <3>2, <3>3
  <2> QED BY <2>2 DEF memory_chunk_slot, Max
<1>4. S(a) \subseteq S(b)
  <2>1. ASSUME NEW n \in Slot, 2^n <= a PROVE 2^n <= b
    <3>1. n \in Nat
      BY <1>1
    <3>2. 2^n \in Int
      BY <3>1
    <3> QED BY <2>1, <3>2
  <2> QED BY <2>1
<1>5. memory_chunk_slot(b) \in S(b) /\ \A y \in S(b) : memory_chunk_slot(b) >= y
  <2>1. \E x \in S(b) : \A y \in S(b) : x >= y
    <3>2. S(b) \in SUBSET (0..(NUM_SIZES - 1)) /\ NUM_SIZES - 1 \in Nat /\ S(b) # {}
      BY <1>1, <1>3, <1>4
    <3>3. \E x \in S(b) : \A y \in S(b) : y <= x
      BY <3>2, GreatestExists
    <3> QED BY <3>2, <3>3
  <2> QED BY <2>1 DEF memory_chunk_slot, Max
<1> QED BY <1>3, <1>4, <1>5

\* kmemory_page_init makes a run of pages that kmalloc_on_cur_page can serve from.
LEMMA PageInitIs ==
  ASSUME NEW pt \in PageTag, NoRun(pt), NEW size \in Nat \ {0}
  PROVE  LET qt == PageInit(pt, PagesFor(size))
             n  == Class(qt, CHUNK)
         IN  /\ qt \in PageTag /\ PageOK(qt)
             /\ qt.npages = PagesFor(size) /\ qt.used = {0, LastChunk(qt)}
             /\ n \in Slot /\ qt.free[n] = <<CHUNK>>
             /\ n >= memory_chunk_slot(Need(size) + HEADER_SIZE)
             /\ Need(size) <= qt.mem_free
<1> DEFINE np == PagesFor(size)
           L == np * PAGE_SIZE - CHUNK
           r == [pt EXCEPT !.npages = np, !.chunks = {0, CHUNK, L}, !.used = {0, L}]
           len == memory_chunk_size(r, CHUNK)
           n == memory_chunk_slot(len)
           q == [r EXCEPT !.free[n] = <<CHUNK>>, !.dangling = @ \ {n}, !.mem_free = len - HEADER_SIZE]
<1>1. np \in Nat /\ np # 0 /\ np * PAGE_SIZE \in Nat /\ np * PAGE_SIZE >= 3 * CHUNK + size
  BY PagesForIs
<1>2. PageInit(pt, np) = q
  BY DEF PageInit
<1> HIDE DEF np
<1>3. L \in Nat /\ L >= 2 * CHUNK + size /\ CHUNK < L /\ L # 0 /\ CHUNK # 0 /\ CHUNK \in Nat
  BY <1>1 DEF CHUNK
<1>4. np * PAGE_SIZE - CHUNK = L
  OBVIOUS
<1> HIDE DEF L
<1>5. r \in PageTag /\ r.npages = np /\ r.chunks = {0, CHUNK, L} /\ r.used = {0, L}
      /\ r.free = pt.free /\ r.dangling = pt.dangling
  <2> DEFINE A == {0, CHUNK, L}
             B == {0, L}
  <2>1. A \in SUBSET Nat /\ B \in SUBSET Nat
    BY <1>3
  <2> HIDE DEF A, B
  <2>2. r = [pt EXCEPT !.npages = np, !.chunks = A, !.used = B]
    BY DEF A, B
  <2>3. r \in PageTag /\ r.npages = np /\ r.chunks = A /\ r.used = B
        /\ r.free = pt.free /\ r.dangling = pt.dangling
    BY <1>1, <2>1, <2>2 DEF PageTag
  <2> QED BY <2>3 DEF A, B
<1> HIDE DEF r
<1>6. NextChunk(r, CHUNK) = L
  <2>1. r.chunks \in SUBSET Nat /\ L \in r.chunks /\ \A e \in r.chunks : CHUNK < e => L <= e
    BY <1>3, <1>5
  <2> QED BY <1>3, <2>1, NextEquals
<1>7. len = L - CHUNK
  BY <1>6 DEF memory_chunk_size
<1>8. len \in Nat \ {0} /\ len >= CHUNK + size
  BY <1>3, <1>7 DEF CHUNK
<1> HIDE DEF len
<1>9. n \in Slot
  BY <1>8, ClassIsSlot
<1>10. Need(size) \in Nat /\ Need(size) >= MIN_SIZE /\ Need(size) <= size + 15
  BY NeedIs
<1>11. Need(size) + HEADER_SIZE \in Nat \ {0} /\ Need(size) + HEADER_SIZE <= len
       /\ Need(size) <= len - HEADER_SIZE /\ len - HEADER_SIZE \in Int
  BY <1>8, <1>10 DEF HEADER_SIZE, CHUNK, MIN_SIZE
<1>12. n >= memory_chunk_slot(Need(size) + HEADER_SIZE)
  BY <1>8, <1>11, ClassGrows
<1> HIDE DEF n
<1>13. pt.free \in [Slot -> Seq(Nat)] /\ pt.dangling \subseteq Slot
  BY DEF PageTag
<1>14. <<CHUNK>> \in Seq(Nat)
  BY <1>3
<1>15. q.npages = np /\ q.chunks = {0, CHUNK, L} /\ q.used = {0, L}
       /\ q.free = [pt.free EXCEPT ![n] = <<CHUNK>>] /\ q.mem_free = len - HEADER_SIZE
       /\ q.dangling = pt.dangling \ {n}
  BY <1>5 DEF PageTag
<1>16. q \in PageTag
  <2>1. q.free \in [Slot -> Seq(Nat)]
    BY <1>9, <1>13, <1>14, <1>15
  <2> QED BY <1>1, <1>5, <1>11, <1>13, <2>1, <1>15 DEF PageTag
<1> HIDE DEF q
<1>17. LastChunk(q) = L
  BY <1>4, <1>15 DEF LastChunk
<1>18. ChunksOK(q)
  <2>1. \A c, d \in {0, CHUNK, L} : c < d => CHUNK <= d - c
    BY <1>3 DEF CHUNK
  <2>2. \A c \in {0, CHUNK, L} \ {L} : c % ALIGN = 0
    BY DEF CHUNK, ALIGN
  <2>3. {0, CHUNK, L} \subseteq 0..L /\ 2 * CHUNK <= L
    BY <1>3 DEF CHUNK
  <2> QED BY <1>1, <1>15, <1>17, <2>1, <2>2, <2>3 DEF ChunksOK
<1>19. Unused(q) = {CHUNK}
  BY <1>3, <1>15 DEF Unused
<1>20. Apart(q)
  BY <1>3, <1>19 DEF Apart
<1>21. Class(q, CHUNK) = n
  <2>1. NextChunk(q, CHUNK) = NextChunk(r, CHUNK)
    BY <1>5, <1>15, SameClasses
  <2> QED BY <2>1 DEF n, len, Class, memory_chunk_size
<1>22. q.free[n] = <<CHUNK>> /\ \A k \in Slot : k # n => q.free[k] = << >>
  BY <1>9, <1>13, <1>15 DEF NoRun
<1>23. IsInjective(<<CHUNK>>) /\ ToSet(<<CHUNK>>) = {CHUNK}
  BY <1>3, SingleIs
<1>24. IsInjective(<< >>) /\ ToSet(<< >>) = {}
  BY SingleIs
<1>25. RingsHold(q, Unused(q))
  <2>1. ASSUME NEW k \in Slot
        PROVE  IsInjective(q.free[k]) /\ ToSet(q.free[k]) = {c \in Unused(q) : Class(q, c) = k}
    <3>1. CASE k = n
      BY <1>19, <1>21, <1>22, <1>23, <3>1
    <3>2. CASE k # n
      BY <1>19, <1>21, <1>22, <1>24, <3>2
    <3> QED BY <3>1, <3>2
  <2> QED BY <2>1 DEF RingsHold
<1> QED BY <1>2, <1>9, <1>11, <1>12, <1>15, <1>16, <1>17, <1>18, <1>20, <1>21, <1>22, <1>25 DEF PageOK, np

-----------------------------------------------------------------------------
(* The search of kmalloc over the tags.                                     *)

\* What kmalloc works on.
HeapRecord ==
  [pages : [Tag -> PageTag], cur : Tag \cup {-1}, ck : Nat, wild : BOOLEAN, failed : BOOLEAN]

\* r is h after a chunk of the current tag was handed out.
Took(h, r, size) ==
  \E n \in Slot :
    /\ h.pages[h.cur].free[n] # << >>
    /\ r = [h EXCEPT !.pages = [h.pages EXCEPT ![h.cur] = Carve(h.pages[h.cur], n, Need(size))],
                     !.ck = Head(h.pages[h.cur].free[n])]

\* kmalloc_on_cur_page leaves the heap alone, follows a dangling head, or hands
\* out the head of a class; the first only if no class serves or the counter is
\* too low.
LEMMA OnCurPageIs ==
  ASSUME NEW h \in HeapRecord, h.cur \in Tag, NEW size \in Nat \ {0}
  PROVE  LET r == OnCurPage(h, size) IN
         \/ r = h /\ (Need(size) > h.pages[h.cur].mem_free \/ Stocked(h.pages[h.cur], Need(size)) = {})
         \/ r = [h EXCEPT !.wild = TRUE]
         \/ Took(h, r, size)
<1> DEFINE pt == h.pages[h.cur]
           need == Need(size)
           S == Stocked(pt, need)
           n == Min(S)
<1>1. CASE need > pt.mem_free \/ S = {}
  BY <1>1 DEF OnCurPage
<1>2. CASE ~ (need > pt.mem_free \/ S = {})
  <2>1. Slot \subseteq Nat
    BY HeapAssumption DEF HeapAssumption, Slot
  <2>2. S \in SUBSET Slot
    BY DEF Stocked
  <2>3. \E x \in S : \A y \in S : x <= y
    <3>1. S \in SUBSET Nat /\ S # {}
      BY <1>2, <2>1, <2>2
    <3> HIDE DEF S
    <3> QED BY <3>1, LeastExists
  <2>4. n \in S
    BY <2>3 DEF Min
  <2>5. n \in Slot /\ (pt.free[n] # << >> \/ n \in pt.dangling)
    BY <2>4 DEF Stocked
  <2>6. CASE n \in pt.dangling
    BY <1>2, <2>6 DEF OnCurPage
  <2>7. CASE n \notin pt.dangling
    <3>1. OnCurPage(h, size) = [h EXCEPT !.pages[h.cur] = Carve(pt, n, need), !.ck = Head(pt.free[n])]
      BY <1>2, <2>7 DEF OnCurPage
    <3> HIDE DEF n
    <3>2. pt.free[n] # << >> /\ n \in Slot
      BY <2>5, <2>7
    <3> QED BY <3>1, <3>2 DEF Took
  <2> QED BY <2>6, <2>7
<1> QED BY <1>1, <1>2

\* The search stops at a tag that serves, at one whose head dangles, or has
\* changed no more than the current tag.
LEMMA SearchIs ==
  ASSUME NEW h \in HeapRecord, h.cur \in Tag, h.ck = NULL, h.wild = FALSE, NEW size \in Nat \ {0}
  PROVE  LET r == Search(h, size) IN
         \E i \in Tag :
           \/ r = [h EXCEPT !.cur = i]
           \/ r = [h EXCEPT !.cur = i, !.wild = TRUE]
           \/ Took([h EXCEPT !.cur = i], r, size)
<1> DEFINE on(i) == OnCurPage([h EXCEPT !.cur = i], size)
           hits == {i \in Tried(h, size) : Done(on(i))}
<1>1. Tried(h, size) \in SUBSET Tag /\ Tag \subseteq 0..(MM_PAGE_NUM - 1) /\ MM_PAGE_NUM - 1 \in Nat
  BY HeapAssumption DEF HeapAssumption, Tried, Roomy, Tag
<1>2. CASE hits # {}
  <2> DEFINE i == Min(hits)
             g == [h EXCEPT !.cur = i]
  <2>1. \E x \in hits : \A y \in hits : x <= y
    <3>1. hits \in SUBSET Nat
      BY <1>1
    <3> HIDE DEF hits
    <3> QED BY <1>2, <3>1, LeastExists
  <2>2. i \in hits
    BY <2>1 DEF Min
  <2>3. i \in Tag
    BY <1>1, <2>2
  <2>4. Search(h, size) = OnCurPage(g, size)
    BY <1>2 DEF Search
  <2>5. Done(OnCurPage(g, size))
    BY <2>2
  <2> HIDE DEF i
  <2>6. g \in HeapRecord /\ g.cur = i /\ g.ck = NULL /\ g.wild = FALSE
    BY <2>3 DEF HeapRecord
  <2>7. ~ Done(g)
    BY <2>6 DEF Done
  <2>8. \/ OnCurPage(g, size) = [g EXCEPT !.wild = TRUE]
        \/ Took(g, OnCurPage(g, size), size)
    BY <2>3, <2>5, <2>6, <2>7, OnCurPageIs
  <2>9. [g EXCEPT !.wild = TRUE] = [h EXCEPT !.cur = i, !.wild = TRUE]
    BY DEF HeapRecord
  <2> QED BY <2>3, <2>4, <2>8, <2>9
<1>3. CASE hits = {} /\ Tried(h, size) # {}
  <2> DEFINE i == Max(Tried(h, size))
  <2>1. \E x \in Tried(h, size) : \A y \in Tried(h, size) : y <= x
    BY <1>1, <1>3, GreatestExists
  <2>2. \E x \in Tried(h, size) : \A y \in Tried(h, size) : x >= y
    BY <1>1, <2>1
  <2>3. i \in Tag
    BY <1>1, <2>2 DEF Max
  <2>4. Search(h, size) = [h EXCEPT !.cur = i]
    BY <1>3 DEF Search
  <2> QED BY <2>3, <2>4
<1>4. CASE hits = {} /\ Tried(h, size) = {}
  <2>1. Search(h, size) = h
    BY <1>4 DEF Search
  <2>2. h = [h EXCEPT !.cur = h.cur]
    BY DEF HeapRecord
  <2> QED BY <2>1, <2>2
<1> QED BY <1>2, <1>3, <1>4

\* A tag that was given new pages serves the request, unless a class it looks
\* at dangles.
LEMMA NewPageServes ==
  ASSUME NEW g \in HeapRecord, NEW i \in Tag, NoRun(g.pages[i]), NEW size \in Nat \ {0}
  PROVE  LET h == [g EXCEPT !.pages = [g.pages EXCEPT ![i] = PageInit(g.pages[i], PagesFor(size))],
                            !.cur = i]
             r == OnCurPage(NewPage(g, i, size), size)
         IN  /\ h \in HeapRecord
             /\ r = [h EXCEPT !.wild = TRUE] \/ Took(h, r, size)
<1> DEFINE pt == g.pages[i]
           q == PageInit(pt, PagesFor(size))
           h == [g EXCEPT !.pages = [g.pages EXCEPT ![i] = q], !.cur = i]
           n == Class(q, CHUNK)
<1>1. g.pages \in [Tag -> PageTag] /\ pt \in PageTag
  BY DEF HeapRecord
<1>2. q \in PageTag /\ n \in Slot /\ q.free[n] = <<CHUNK>> /\ Need(size) <= q.mem_free
      /\ n >= memory_chunk_slot(Need(size) + HEADER_SIZE)
  BY <1>1, PageInitIs
<1>3. NewPage(g, i, size) = h
  BY DEF NewPage, HeapRecord
<1> HIDE DEF q, n
<1>4. h \in HeapRecord /\ h.cur = i /\ h.pages[h.cur] = q
  BY <1>1, <1>2 DEF HeapRecord
<1>5. n \in Stocked(q, Need(size))
  <2>1. <<CHUNK>> # << >>
    OBVIOUS
  <2>2. q.free[n] # << >>
    BY <1>2, <2>1
  <2> QED BY <1>2, <2>2 DEF Stocked
<1>6. ~ (Need(size) > q.mem_free)
  <2>1. Need(size) \in Nat /\ q.mem_free \in Int
    BY <1>2, NeedIs DEF PageTag
  <2> QED BY <1>2, <2>1
<1> HIDE DEF h
<1>7. \/ OnCurPage(h, size) = [h EXCEPT !.wild = TRUE]
      \/ Took(h, OnCurPage(h, size), size)
  BY <1>4, <1>5, <1>6, OnCurPageIs
<1> QED BY <1>3, <1>4, <1>7 DEF h, q

\* What kmalloc does to the tags: nothing, or it hands out the head of a class
\* of the tag that is current afterwards, which had pages or was given some.
LEMMA AllocatedIs ==
  ASSUME HeapInv, NEW size \in Nat \ {0}, NEW ok
  PROVE  LET h == Allocated(size, ok) IN
         \/ h.wild = TRUE
         \/ /\ h.pages = mm_pages /\ h.ck = NULL /\ h.cur \in Tag \cup {-1}
            /\ h.cur = -1 => cur_page_tag_index = -1
         \/ /\ h.failed = FALSE /\ h.cur \in Tag
            /\ \E pt \in PageTag, n \in Slot :
                 /\ \/ mm_pages[h.cur].npages # 0 /\ pt = mm_pages[h.cur]
                    \/ mm_pages[h.cur].npages = 0 /\ pt = PageInit(mm_pages[h.cur], PagesFor(size))
                 /\ pt.free[n] # << >>
                 /\ h.pages = [mm_pages EXCEPT ![h.cur] = Carve(pt, n, Need(size))]
                 /\ h.ck = Head(pt.free[n])
<1> DEFINE start == [pages |-> mm_pages, cur |-> cur_page_tag_index, ck |-> NULL,
                     wild |-> FALSE, failed |-> FALSE]
           first == OnCurPage(IF start.cur = -1 THEN NewPage(start, 0, size) ELSE start, size)
           found == Search(first, size)
           empty == FirstFree(first, size)
           h == Allocated(size, ok)
           Goal == \/ h.wild = TRUE
                   \/ /\ h.pages = mm_pages /\ h.ck = NULL /\ h.cur \in Tag \cup {-1}
                      /\ h.cur = -1 => cur_page_tag_index = -1
                   \/ /\ h.failed = FALSE /\ h.cur \in Tag
                      /\ \E pt \in PageTag, n \in Slot :
                           /\ \/ mm_pages[h.cur].npages # 0 /\ pt = mm_pages[h.cur]
                              \/ /\ mm_pages[h.cur].npages = 0
                                 /\ pt = PageInit(mm_pages[h.cur], PagesFor(size))
                           /\ pt.free[n] # << >>
                           /\ h.pages = [mm_pages EXCEPT ![h.cur] = Carve(pt, n, Need(size))]
                           /\ h.ck = Head(pt.free[n])
<1>1. /\ start \in HeapRecord /\ mm_pages \in [Tag -> PageTag]
      /\ \A i \in Tag : mm_pages[i].npages = 0 => NoRun(mm_pages[i])
      /\ cur_page_tag_index \in Tag \cup {-1}
      /\ cur_page_tag_index = -1 => \A i \in Tag : mm_pages[i].npages = 0
  BY DEF HeapInv, HeapRecord, NULL, Owned
<1>2. Tag \subseteq Nat /\ 0 \in Tag
  BY HeapAssumption DEF HeapAssumption, Tag
<1>3. start.pages = mm_pages /\ start.cur = cur_page_tag_index /\ start.ck = NULL
      /\ start.wild = FALSE /\ start.failed = FALSE
  OBVIOUS
<1>4. ASSUME NEW i \in Tag, NEW r, Took([start EXCEPT !.cur = i], r, size)
      PROVE  h = r => Goal
  <2> DEFINE g == [start EXCEPT !.cur = i]
  <2>1. g \in HeapRecord /\ g.pages = mm_pages /\ g.cur = i /\ g.failed = FALSE
    BY <1>1, <1>3 DEF HeapRecord
  <2> HIDE DEF g, start
  <2>2. PICK n \in Slot : /\ mm_pages[i].free[n] # << >>
                          /\ r = [g EXCEPT !.pages = [mm_pages EXCEPT ![i] = Carve(mm_pages[i], n, Need(size))],
                                           !.ck = Head(mm_pages[i].free[n])]
    BY <1>4, <2>1 DEF Took, g
  <2>3. r.failed = FALSE /\ r.cur = i /\ r.pages = [mm_pages EXCEPT ![i] = Carve(mm_pages[i], n, Need(size))]
        /\ r.ck = Head(mm_pages[i].free[n])
    BY <2>1, <2>2 DEF HeapRecord
  <2>4. mm_pages[i].npages # 0 /\ mm_pages[i] \in PageTag
    BY <1>1, <2>2 DEF NoRun
  <2> QED BY <2>2, <2>3, <2>4
<1>5. ASSUME NEW g \in HeapRecord, g.pages = mm_pages, g.failed = FALSE, NEW i \in Tag, mm_pages[i].npages = 0
      PROVE  /\ h = OnCurPage(NewPage(g, i, size), size) => Goal
             /\ Done(OnCurPage(NewPage(g, i, size), size))
  <2> DEFINE q == PageInit(mm_pages[i], PagesFor(size))
             f == [g EXCEPT !.pages = [g.pages EXCEPT ![i] = q], !.cur = i]
             r == OnCurPage(NewPage(g, i, size), size)
  <2>1. NoRun(g.pages[i]) /\ mm_pages[i] \in PageTag
    BY <1>1, <1>5
  <2>2. f \in HeapRecord /\ (r = [f EXCEPT !.wild = TRUE] \/ Took(f, r, size))
    BY <1>5, <2>1, NewPageServes
  <2>3. q \in PageTag /\ PageOK(q)
    BY <1>5, <2>1, PageInitIs
  <2> HIDE DEF q, r, start
  <2>4. f.pages = [mm_pages EXCEPT ![i] = q] /\ f.cur = i /\ f.failed = FALSE /\ f.pages[i] = q
    BY <1>1, <1>5 DEF HeapRecord
  <2> HIDE DEF f
  <2>5. CASE r = [f EXCEPT !.wild = TRUE]
    <3>1. r.wild = TRUE
      BY <2>2, <2>5 DEF HeapRecord
    <3> QED BY <3>1 DEF Done, r
  <2>6. CASE Took(f, r, size)
    <3>1. PICK n \in Slot : /\ q.free[n] # << >>
                            /\ r = [f EXCEPT !.pages = [f.pages EXCEPT ![i] = Carve(q, n, Need(size))],
                                             !.ck = Head(q.free[n])]
      BY <2>4, <2>6 DEF Took
    <3>2. r.failed = FALSE /\ r.cur = i /\ r.pages = [f.pages EXCEPT ![i] = Carve(q, n, Need(size))]
          /\ r.ck = Head(q.free[n])
      BY <2>2, <2>4, <3>1 DEF HeapRecord
    <3>3. [f.pages EXCEPT ![i] = Carve(q, n, Need(size))] = [mm_pages EXCEPT ![i] = Carve(q, n, Need(size))]
      BY <1>1, <2>4
    <3>4. Need(size) \in Nat /\ Need(size) >= MIN_SIZE /\ Need(size) % ALIGN = 0
      BY NeedIs
    <3>5. Head(q.free[n]) \in Unused(q)
      BY <2>3, <3>1, <3>4, CarveIs
    <3>6. r.ck # NULL
      <4>1. Head(q.free[n]) # 0
        BY <2>3, <3>5 DEF PageOK, ChunksOK, Unused
      <4> QED BY <3>2, <4>1 DEF NULL
    <3>7. h = r => Goal
      BY <1>5, <2>3, <3>1, <3>2, <3>3 DEF q
    <3> QED BY <3>6, <3>7 DEF Done, r
  <2> QED BY <2>2, <2>5, <2>6
<1>6. CASE cur_page_tag_index = -1
  <2>1. CASE ~ ok
    <3>1. h = [start EXCEPT !.failed = TRUE]
      BY <1>6, <2>1 DEF Allocated
    <3> QED BY <1>6, <3>1
  <2>2. CASE ok
    <3> DEFINE r == OnCurPage(NewPage(start, 0, size), size)
    <3>1. Done(r) /\ (h = r => Goal)
      BY <1>1, <1>2, <1>3, <1>5, <1>6
    <3>2. h = r
      BY <1>6, <2>2, <3>1 DEF Allocated
    <3> HIDE DEF r, start, h
    <3> QED BY <3>1, <3>2 DEF h
  <2> QED BY <2>1, <2>2
<1>7. CASE cur_page_tag_index # -1
  <2>1. start.cur \in Tag /\ first = OnCurPage(start, size)
    BY <1>1, <1>3, <1>7
  <2>2. h = IF Done(first) THEN first
            ELSE IF Done(found) \/ empty = {} THEN found
            ELSE IF ~ ok THEN [found EXCEPT !.failed = TRUE]
            ELSE OnCurPage(NewPage(found, Min(empty), size), size)
    BY <1>7 DEF Allocated
  <2>3. first = start \/ first = [start EXCEPT !.wild = TRUE] \/ Took(start, first, size)
    BY <1>1, <2>1, OnCurPageIs
  <2>4. start = [start EXCEPT !.cur = cur_page_tag_index]
    BY <1>3
  <2>5. CASE Done(first)
    <3>1. h = first
      BY <2>2, <2>5
    <3>2. CASE first = start
      BY <1>3, <2>5, <3>2 DEF Done
    <3>3. CASE first = [start EXCEPT !.wild = TRUE]
      BY <3>1, <3>3
    <3>4. CASE Took(start, first, size)
      <4>1. Took([start EXCEPT !.cur = cur_page_tag_index], first, size)
        BY <2>4, <3>4
      <4> HIDE DEF first, h, Goal, start
      <4>2. cur_page_tag_index \in Tag
        BY <1>1, <1>7
      <4>3. Goal
        BY <1>4, <3>1, <4>1, <4>2
      <4> QED BY <4>3 DEF Goal, h
    <3> QED BY <2>3, <3>2, <3>3, <3>4
  <2>6. CASE ~ Done(first)
    <3>1. first = start
      <4>1. CASE first = [start EXCEPT !.wild = TRUE]
        <5>1. first.wild = TRUE
          BY <4>1
        <5> QED BY <2>6, <5>1 DEF Done
      <4>2. CASE Took(start, first, size)
        <5>1. PICK n \in Slot :
                /\ mm_pages[start.cur].free[n] # << >>
                /\ first = [start EXCEPT !.pages = [mm_pages EXCEPT ![start.cur] = Carve(mm_pages[start.cur], n, Need(size))],
                                         !.ck = Head(mm_pages[start.cur].free[n])]
          BY <1>3, <4>2 DEF Took
        <5>2. first.ck = Head(mm_pages[start.cur].free[n])
          <6> HIDE DEF start, first
          <6> QED BY <1>1, <5>1 DEF HeapRecord
        <5>3. mm_pages[start.cur] \in PageTag /\ PageOK(mm_pages[start.cur])
          <6>1. mm_pages[start.cur].npages # 0
            BY <1>1, <2>1, <5>1 DEF NoRun
          <6> QED BY <1>1, <2>1, <6>1 DEF HeapInv
        <5>4. Head(mm_pages[start.cur].free[n]) \in Unused(mm_pages[start.cur])
          BY <5>1, <5>3, NeedIs, CarveIs
        <5>5. first.ck # 0
          BY <5>2, <5>3, <5>4 DEF PageOK, ChunksOK, Unused
        <5> QED BY <2>6, <5>5 DEF Done, NULL
      <4> QED BY <2>3, <4>1, <4>2
    <3>2. PICK j \in Tag :
             \/ found = [start EXCEPT !.cur = j]
             \/ found = [start EXCEPT !.cur = j, !.wild = TRUE]
             \/ Took([start EXCEPT !.cur = j], found, size)
      <4>1. found = Search(start, size)
        BY <3>1
      <4> HIDE DEF start, found
      <4> QED BY <1>1, <1>3, <2>1, <4>1, SearchIs
    <3> HIDE DEF first, found, h, start
    <3>3. CASE found = [start EXCEPT !.cur = j]
      <4>1. found \in HeapRecord /\ found.pages = mm_pages /\ found.ck = NULL /\ found.wild = FALSE
            /\ found.failed = FALSE /\ found.cur = j
        BY <1>1, <1>3, <3>3 DEF HeapRecord
      <4>2. ~ Done(found)
        BY <4>1 DEF Done
      <4>3. CASE empty = {}
        <5>1. h = found
          BY <2>2, <2>6, <4>3
        <5>2. j # -1
          BY <1>2
        <5> QED BY <4>1, <5>1, <5>2 DEF h
      <4>4. CASE empty # {} /\ ~ ok
        <5>1. h = [found EXCEPT !.failed = TRUE]
          BY <2>2, <2>6, <4>2, <4>4
        <5>2. h.pages = mm_pages /\ h.ck = NULL /\ h.cur = j /\ j # -1
          BY <1>2, <4>1, <5>1 DEF HeapRecord
        <5> QED BY <5>2 DEF h
      <4>5. CASE empty # {} /\ ok
        <5> DEFINE i == Min(empty)
        <5>1. empty \in SUBSET Tag /\ \A e \in empty : mm_pages[e].npages = 0
          BY <1>3, <3>1 DEF FirstFree, Empty
        <5>2. i \in empty
          <6> HIDE DEF empty
          <6>1. \E x \in empty : \A y \in empty : x <= y
            BY <1>2, <4>5, <5>1, LeastExists
          <6> QED BY <6>1 DEF Min
        <5>3. h = OnCurPage(NewPage(found, i, size), size)
          BY <2>2, <2>6, <4>2, <4>5
        <5> HIDE DEF i, empty, Goal
        <5>4. i \in Tag /\ mm_pages[i].npages = 0
          BY <5>1, <5>2
        <5>5. Goal
          BY <1>5, <4>1, <5>3, <5>4
        <5> QED BY <5>5 DEF Goal, h
      <4> QED BY <4>3, <4>4, <4>5
    <3>4. CASE found = [start EXCEPT !.cur = j, !.wild = TRUE]
      <4>1. found.wild = TRUE
        BY <1>1, <3>4 DEF HeapRecord
      <4>2. h = found
        BY <2>2, <2>6, <4>1 DEF Done
      <4> QED BY <4>1, <4>2 DEF h
    <3>5. CASE Took([start EXCEPT !.cur = j], found, size)
      <4> DEFINE g == [start EXCEPT !.cur = j]
      <4>1. g \in HeapRecord /\ g.pages = mm_pages /\ g.cur = j
        BY <1>1, <1>3 DEF HeapRecord
      <4>2. PICK n \in Slot : /\ mm_pages[j].free[n] # << >>
                              /\ found = [g EXCEPT !.pages = [mm_pages EXCEPT ![j] = Carve(mm_pages[j], n, Need(size))],
                                                   !.ck = Head(mm_pages[j].free[n])]
        BY <3>5, <4>1 DEF Took
      <4> HIDE DEF g
      <4>3. found.ck = Head(mm_pages[j].free[n])
        BY <4>1, <4>2 DEF HeapRecord
      <4>4. mm_pages[j] \in PageTag /\ PageOK(mm_pages[j])
        <5>1. mm_pages[j].npages # 0
          BY <1>1, <4>2 DEF NoRun
        <5> QED BY <1>1, <5>1 DEF HeapInv
      <4>5. Head(mm_pages[j].free[n]) \in Unused(mm_pages[j])
        BY <4>2, <4>4, NeedIs, CarveIs
      <4>6. found.ck # 0
        BY <4>3, <4>4, <4>5 DEF PageOK, ChunksOK, Unused
      <4>7. h = found
        BY <2>2, <2>6, <4>6 DEF Done, NULL
      <4> HIDE DEF Goal
      <4>8. Goal
        BY <1>4, <3>5, <4>7
      <4> QED BY <4>8 DEF Goal, h
    <3> QED BY <3>2, <3>3, <3>4, <3>5
  <2> QED BY <2>5, <2>6
<1> QED BY <1>1, <1>6, <1>7

-----------------------------------------------------------------------------
(* The steps.                                                               *)

\* kmalloc leaves tags and blocks as they are, or the chunk ck of tag i, which
\* is q from now on, becomes a block: in a run of pages that was just taken for
\* it, or in one whose other blocks stay where they are.
Taken(size) ==
  \E i \in Tag, q \in PageTag, ck \in Nat :
    /\ mm_pages' = [mm_pages EXCEPT ![i] = q] /\ cur_page_tag_index' = i
    /\ live' = live \cup {[tag |-> i, ck |-> ck, size |-> size]}
    /\ PageOK(q) /\ q.dangling = {} /\ ck \in Inner(q)
    /\ \/ mm_pages[i].npages = 0 /\ Inner(q) = {ck}
       \/ /\ mm_pages[i].npages # 0 /\ q.npages = mm_pages[i].npages
          /\ ck \notin mm_pages[i].used /\ q.used = mm_pages[i].used \cup {ck}
          /\ \A u \in Inner(mm_pages[i]) : NextChunk(q, u) = NextChunk(mm_pages[i], u)

\* kfree gives up the chunk of b: with the run of pages if it was the last
\* block there, and otherwise without moving the others.
Freed(b) ==
  \E q \in PageTag :
    /\ mm_pages' = [mm_pages EXCEPT ![b.tag] = q] /\ cur_page_tag_index' = cur_page_tag_index
    /\ live' = live \ {b}
    /\ \/ q.npages = 0 /\ NoRun(q) /\ Inner(mm_pages[b.tag]) = {b.ck}
       \/ /\ PageOK(q) /\ q.dangling = {} /\ Inner(mm_pages[b.tag]) # {b.ck}
          /\ q.npages = mm_pages[b.tag].npages /\ q.used = mm_pages[b.tag].used \ {b.ck}
          /\ \A u \in Inner(mm_pages[b.tag]) \ {b.ck} : NextChunk(q, u) = NextChunk(mm_pages[b.tag], u)

\* What kmalloc does.
LEMMA KMallocIs ==
  ASSUME HeapInv, NEW size \in Nat \ {0}, NEW ok, KMalloc(size, ok)
  PROVE  \/ /\ mm_pages' = mm_pages /\ live' = live /\ cur_page_tag_index' \in Tag \cup {-1}
            /\ cur_page_tag_index' = -1 => cur_page_tag_index = -1
         \/ Taken(size)
<1> DEFINE h == Allocated(size, ok)
<1>1. mm_pages \in [Tag -> PageTag] /\ cur_page_tag_index \in Tag \cup {-1}
      /\ \A i \in Tag : IF mm_pages[i].npages = 0 THEN NoRun(mm_pages[i])
                        ELSE PageOK(mm_pages[i]) /\ mm_pages[i].dangling = {}
  BY DEF HeapInv
<1>2. \/ h.wild = TRUE
      \/ /\ h.pages = mm_pages /\ h.ck = NULL /\ h.cur \in Tag \cup {-1}
         /\ h.cur = -1 => cur_page_tag_index = -1
      \/ /\ h.failed = FALSE /\ h.cur \in Tag
         /\ \E pt \in PageTag, n \in Slot :
              /\ \/ mm_pages[h.cur].npages # 0 /\ pt = mm_pages[h.cur]
                 \/ mm_pages[h.cur].npages = 0 /\ pt = PageInit(mm_pages[h.cur], PagesFor(size))
              /\ pt.free[n] # << >>
              /\ h.pages = [mm_pages EXCEPT ![h.cur] = Carve(pt, n, Need(size))]
              /\ h.ck = Head(pt.free[n])
  BY AllocatedIs
<1> HIDE DEF h
<1>3. CASE h.wild \/ LinksToDangling(h.pages) \/ ChecksDangling(h)
  BY <1>1, <1>3 DEF KMalloc, h
<1>4. CASE ~ (h.wild \/ LinksToDangling(h.pages) \/ ChecksDangling(h))
  <2>1. /\ mm_pages' = h.pages /\ cur_page_tag_index' = h.cur
        /\ live' = IF h.ck = NULL THEN live
                   ELSE live \cup {[tag |-> h.cur, ck |-> h.ck, size |-> size]}
    BY <1>4 DEF KMalloc, h
  <2>2. CASE h.pages = mm_pages /\ h.ck = NULL /\ h.cur \in Tag \cup {-1}
             /\ (h.cur = -1 => cur_page_tag_index = -1)
    BY <2>1, <2>2
  <2>3. ASSUME h.failed = FALSE, h.cur \in Tag, NEW pt \in PageTag, NEW n \in Slot,
               \/ mm_pages[h.cur].npages # 0 /\ pt = mm_pages[h.cur]
               \/ mm_pages[h.cur].npages = 0 /\ pt = PageInit(mm_pages[h.cur], PagesFor(size)),
               pt.free[n] # << >>,
               h.pages = [mm_pages EXCEPT ![h.cur] = Carve(pt, n, Need(size))],
               h.ck = Head(pt.free[n])
        PROVE  Taken(size)
    <3> DEFINE q == Carve(pt, n, Need(size))
               i == h.cur
               ck == h.ck
               old == mm_pages[i]
    <3>1. PageOK(pt) /\ (old.npages = 0 => pt.used = {0, LastChunk(pt)})
      <4>1. CASE old.npages # 0
        BY <1>1, <2>3, <4>1
      <4>2. CASE old.npages = 0
        <5>1. NoRun(old) /\ old \in PageTag /\ pt = PageInit(old, PagesFor(size))
          BY <1>1, <2>3, <4>2
        <5> HIDE DEF old, i
        <5> QED BY <5>1, PageInitIs
      <4> QED BY <4>1, <4>2
    <3>2. Need(size) \in Nat /\ Need(size) >= MIN_SIZE /\ Need(size) % ALIGN = 0
      BY NeedIs
    <3>3. /\ q \in PageTag /\ PageOK(q) /\ ck \in Unused(pt)
          /\ q.npages = pt.npages /\ q.used = pt.used \cup {ck}
          /\ \A u \in pt.used \ {LastChunk(pt)} : NextChunk(q, u) = NextChunk(pt, u)
      BY <2>3, <3>1, <3>2, CarveIs
    <3>4. h.pages[i] = q /\ i \in Tag
      BY <1>1, <2>3
    <3> HIDE DEF q
    <3>5. q.npages # 0 /\ q.dangling = {}
      <4>1. q.npages # 0
        BY <3>3 DEF PageOK, ChunksOK
      <4> QED BY <1>4, <2>3, <3>4, <4>1 DEF ChecksDangling
    <3>6. LastChunk(q) = LastChunk(pt)
      BY <3>3 DEF LastChunk
    <3>7. ck \in pt.chunks /\ ck \notin pt.used /\ ck # 0 /\ ck # LastChunk(pt) /\ ck \in Nat
      BY <3>1, <3>3 DEF Unused, PageOK, ChunksOK, PageTag
    <3>8. ck \in Inner(q)
      BY <3>3, <3>6, <3>7 DEF Inner
    <3>9. CASE old.npages = 0
      <4>1. Inner(q) = {ck}
        BY <3>1, <3>3, <3>6, <3>7, <3>9 DEF Inner
      <4>2. live' = live \cup {[tag |-> i, ck |-> ck, size |-> size]}
        BY <2>1, <3>7 DEF NULL
      <4>3. mm_pages' = [mm_pages EXCEPT ![i] = q] /\ cur_page_tag_index' = i
        BY <2>1, <2>3 DEF q
      <4> HIDE DEF i, ck
      <4> QED BY <3>3, <3>4, <3>5, <3>7, <3>8, <3>9, <4>1, <4>2, <4>3 DEF Taken
    <3>10. CASE old.npages # 0
      <4>1. pt = old
        BY <2>3, <3>10
      <4>2. live' = live \cup {[tag |-> i, ck |-> ck, size |-> size]}
        BY <2>1, <3>7 DEF NULL
      <4>3. mm_pages' = [mm_pages EXCEPT ![i] = q] /\ cur_page_tag_index' = i
        BY <2>1, <2>3 DEF q
      <4>4. \A u \in Inner(old) : NextChunk(q, u) = NextChunk(old, u)
        BY <3>3, <4>1 DEF Inner
      <4>5. q.npages = old.npages /\ ck \notin old.used /\ q.used = old.used \cup {ck}
        BY <3>3, <3>7, <4>1
      <4> HIDE DEF i, ck
      <4> QED BY <3>3, <3>4, <3>5, <3>7, <3>8, <3>10, <4>2, <4>3, <4>4, <4>5 DEF Taken
    <3> QED BY <3>9, <3>10
  <2> QED BY <1>2, <1>4, <2>2, <2>3
<1> QED BY <1>3, <1>4

\* What kfree does.
LEMMA KFreeIs ==
  ASSUME HeapInv, NEW b \in live, KFree(b)
  PROVE  Freed(b) /\ b.tag \in Owned /\ b.ck \in Inner(mm_pages[b.tag]) /\ wild' = wild
<1> DEFINE i == b.tag
           ck == b.ck
           pt == mm_pages[i]
           mid == MergeNext(pt, ck)
           new == MergePrevOrPush(mid, ck)
           pages == [mm_pages EXCEPT ![i] = new]
<1>1. mm_pages \in [Tag -> PageTag]
      /\ \A j \in Tag : IF mm_pages[j].npages = 0 THEN NoRun(mm_pages[j])
                        ELSE PageOK(mm_pages[j]) /\ mm_pages[j].dangling = {}
  BY DEF HeapInv
<1>2. i \in Owned /\ i \in Tag /\ pt.npages # 0 /\ ck \in Inner(pt)
  BY DEF HeapInv, LiveOK, Owned, Inner
<1>3. pt \in PageTag /\ PageOK(pt) /\ pt.dangling = {}
  BY <1>1, <1>2
<1> HIDE DEF pt
<1>4. /\ mid \in PageTag /\ PageOK(mid)
      /\ mid.npages = pt.npages /\ mid.used = pt.used /\ mid.dangling = pt.dangling
      /\ NextChunk(mid, ck) \in mid.used
      /\ \A u \in pt.used \ {ck, LastChunk(pt)} : NextChunk(mid, u) = NextChunk(pt, u)
  BY <1>2, <1>3, MergeNextIs
<1>5. LastChunk(mid) = LastChunk(pt) /\ ck \in Inner(mid)
  BY <1>2, <1>4 DEF LastChunk, Inner
<1> HIDE DEF mid
<1>6. /\ new \in PageTag /\ PageOK(new)
      /\ new.npages = pt.npages /\ new.used = pt.used \ {ck} /\ new.dangling = {}
      /\ \A u \in mid.used \ {ck, LastChunk(mid)} : NextChunk(new, u) = NextChunk(mid, u)
  BY <1>3, <1>4, <1>5, MergePrevOrPushIs
<1>7. \A u \in Inner(pt) \ {ck} : NextChunk(new, u) = NextChunk(pt, u)
  BY <1>4, <1>5, <1>6 DEF Inner
<1>8. LastChunk(new) = LastChunk(pt)
  BY <1>6 DEF LastChunk
<1>9. ~ LinksToDangling(pages)
  <2>1. ASSUME NEW j \in Tag, NEW n \in pages[j].dangling PROVE pages[j].free[n] = << >>
    <3>1. j # i
      BY <1>1, <1>6, <2>1
    <3>2. pages[j] = mm_pages[j] /\ mm_pages[j].dangling \subseteq Slot
      BY <1>1, <3>1 DEF PageTag
    <3>3. NoRun(mm_pages[j])
      BY <1>1, <2>1, <3>2
    <3> QED BY <2>1, <3>2, <3>3 DEF NoRun
  <2> QED BY <2>1 DEF LinksToDangling
<1>10. /\ live' = live \ {b} /\ cur_page_tag_index' = cur_page_tag_index
       /\ LET p == MergePrevOrPush(MergeNext(mm_pages[b.tag], b.ck), b.ck)
              ps == [mm_pages EXCEPT ![b.tag] = p]
          IN  IF LinksToDangling(ps) THEN wild' = "dangling" /\ UNCHANGED mm_pages
              ELSE /\ wild' = wild
                   /\ mm_pages' = IF AllUnused(p) THEN [ps EXCEPT ![b.tag] = GiveBack(p)] ELSE ps
  BY DEF KFree
<1>11. wild' = wild /\ mm_pages' = IF AllUnused(new) THEN [pages EXCEPT ![i] = GiveBack(new)] ELSE pages
  BY <1>9, <1>10 DEF pt, mid
<1> HIDE DEF new
<1>12. {0, LastChunk(pt)} \subseteq pt.used
  BY <1>3 DEF PageOK, ChunksOK
<1>13. AllUnused(new) <=> Inner(pt) = {ck}
  <2>1. AllUnused(new) <=> pt.used \ {ck} = {0, LastChunk(pt)}
    BY <1>6, <1>8 DEF AllUnused
  <2>2. ck \in pt.used /\ ck # 0 /\ ck # LastChunk(pt)
    BY <1>2 DEF Inner
  <2> QED BY <1>12, <2>1, <2>2 DEF Inner
<1>14. CASE AllUnused(new)
  <2> DEFINE g == GiveBack(new)
  <2>1. [n \in Slot |-> << >>] \in [Slot -> Seq(Nat)]
    <3>1. << >> \in Seq(Nat)
      OBVIOUS
    <3> QED BY <3>1
  <2>2. g.npages = 0 /\ g \in PageTag /\ NoRun(g)
    <3> DEFINE none == [n \in Slot |-> << >>]
               left == new.dangling \cup {n \in Slot : new.free[n] # << >>}
    <3>1. left \in SUBSET Slot /\ none \in [Slot -> Seq(Nat)] /\ \A n \in Slot : none[n] = << >>
      BY <1>6, <2>1
    <3>2. g = [new EXCEPT !.npages = 0, !.chunks = {}, !.used = {}, !.free = none, !.dangling = left]
      BY <1>6 DEF GiveBack, PageTag
    <3> HIDE DEF none, left, g
    <3>3. g.npages = 0 /\ g.chunks = {} /\ g.used = {} /\ g.free = none /\ g.dangling = left
          /\ g \in PageTag
      BY <1>6, <3>1, <3>2 DEF PageTag
    <3> QED BY <3>1, <3>3 DEF NoRun
  <2> HIDE DEF g
  <2>3. mm_pages' = [mm_pages EXCEPT ![i] = g]
    BY <1>1, <1>2, <1>11, <1>14 DEF g
  <2> QED BY <1>2, <1>10, <1>11, <1>13, <1>14, <2>2, <2>3 DEF Freed, pt
<1>15. CASE ~ AllUnused(new)
  <2>1. mm_pages' = [mm_pages EXCEPT ![i] = new]
    BY <1>11, <1>15
  <2> QED BY <1>2, <1>6, <1>7, <1>10, <1>11, <1>13, <1>15, <2>1 DEF Freed, pt
<1> QED BY <1>14, <1>15

-----------------------------------------------------------------------------
(* The inductive invariant.                                                 *)

\* A heap without pages is in order.
LEMMA HeapStarts == Init => HeapInv
<1> SUFFICES ASSUME Init PROVE HeapInv
  OBVIOUS
<1>1. NoPage \in PageTag /\ NoRun(NoPage) /\ NoPage.npages = 0
  <2> DEFINE none == [n \in Slot |-> << >>]
  <2>1. << >> \in Seq(Nat)
    OBVIOUS
  <2>2. none \in [Slot -> Seq(Nat)] /\ \A n \in Slot : none[n] = << >>
    BY <2>1
  <2>3. NoPage = [npages |-> 0, chunks |-> {}, used |-> {}, free |-> none, dangling |-> {}, mem_free |-> 0]
    BY DEF NoPage
  <2> HIDE DEF none
  <2> QED BY <2>2, <2>3 DEF PageTag, NoRun
<1>2. mm_pages \in [Tag -> PageTag] /\ \A i \in Tag : mm_pages[i] = NoPage
  BY <1>1 DEF Init
<1>3. Owned = {} /\ live = {} /\ cur_page_tag_index = -1
  BY <1>1, <1>2 DEF Init, Owned
<1>4. LiveOK
  BY <1>3 DEF LiveOK
<1> QED BY <1>1, <1>2, <1>3, <1>4 DEF HeapInv

\* A request that is served keeps the heap in order.
LEMMA TakenKeeps ==
  ASSUME HeapInv, NEW size \in Nat \ {0}, Taken(size)
  PROVE  HeapInv'
<1>1. PICK i \in Tag, q \in PageTag, ck \in Nat :
        /\ mm_pages' = [mm_pages EXCEPT ![i] = q] /\ cur_page_tag_index' = i
        /\ live' = live \cup {[tag |-> i, ck |-> ck, size |-> size]}
        /\ PageOK(q) /\ q.dangling = {} /\ ck \in Inner(q)
        /\ \/ mm_pages[i].npages = 0 /\ Inner(q) = {ck}
           \/ /\ mm_pages[i].npages # 0 /\ q.npages = mm_pages[i].npages
              /\ ck \notin mm_pages[i].used /\ q.used = mm_pages[i].used \cup {ck}
              /\ \A u \in Inner(mm_pages[i]) : NextChunk(q, u) = NextChunk(mm_pages[i], u)
  BY DEF Taken
<1>2. mm_pages \in [Tag -> PageTag] /\ LiveOK
      /\ \A j \in Tag : IF mm_pages[j].npages = 0 THEN NoRun(mm_pages[j])
                        ELSE PageOK(mm_pages[j]) /\ mm_pages[j].dangling = {}
  BY DEF HeapInv
<1>3. mm_pages' \in [Tag -> PageTag] /\ mm_pages'[i] = q /\ q.npages # 0
      /\ \A j \in Tag : j # i => mm_pages'[j] = mm_pages[j]
  BY <1>1, <1>2 DEF PageOK, ChunksOK
<1>4. Owned' = Owned \cup {i}
  BY <1>3 DEF Owned
<1>5. i \in Owned => Inner(q) = Inner(mm_pages[i]) \cup {ck} /\ ck \notin Inner(mm_pages[i])
  BY <1>1 DEF Inner, LastChunk, Owned
<1>6. i \notin Owned => Inner(q) = {ck} /\ \A b \in live : b.tag # i
  BY <1>1, <1>2 DEF Owned, LiveOK
<1> DEFINE new == [tag |-> i, ck |-> ck, size |-> size]
<1>7. new = [tag |-> new.tag, ck |-> new.ck, size |-> new.size]
      /\ new.tag = i /\ new.ck = ck /\ new.size = size /\ live' = live \cup {new}
  BY <1>1
<1> HIDE DEF new
<1>8. ASSUME NEW b \in live'
      PROVE  /\ b = [tag |-> b.tag, ck |-> b.ck, size |-> b.size]
             /\ b.tag \in Owned' /\ b.size \in Nat \ {0}
             /\ b.ck \in Inner(mm_pages'[b.tag])
  <2>1. CASE b = new
    BY <1>1, <1>3, <1>4, <1>7, <2>1
  <2>2. CASE b \in live
    <3>1. /\ b = [tag |-> b.tag, ck |-> b.ck, size |-> b.size]
          /\ b.tag \in Owned /\ b.size \in Nat \ {0} /\ b.ck \in Inner(mm_pages[b.tag])
      BY <1>2, <2>2 DEF LiveOK
    <3>2. b.tag \in Tag
      BY <3>1 DEF Owned
    <3>3. CASE b.tag = i
      BY <1>3, <1>4, <1>5, <3>1, <3>3
    <3>4. CASE b.tag # i
      BY <1>3, <1>4, <3>1, <3>2, <3>4
    <3> QED BY <3>3, <3>4
  <2> QED BY <1>7, <2>1, <2>2
<1>9. ASSUME NEW b \in live, b.tag = i PROVE b.ck # ck
  BY <1>2, <1>5, <1>6, <1>9 DEF LiveOK
<1>10. ASSUME NEW b \in live', NEW c \in live', b.tag = c.tag, b.ck = c.ck PROVE b = c
  <2>1. CASE b \in live /\ c \in live
    BY <1>2, <1>10, <2>1 DEF LiveOK
  <2>2. CASE b = new \/ c = new
    BY <1>7, <1>9, <1>10, <2>2
  <2> QED BY <1>7, <2>1, <2>2
<1>11. ASSUME NEW j \in Owned', NEW u \in Inner(mm_pages'[j])
       PROVE  \E b \in live' : b.tag = j /\ b.ck = u
  <2>1. j \in Tag
    BY <1>4 DEF Owned
  <2>2. CASE j # i
    <3>1. j \in Owned /\ u \in Inner(mm_pages[j])
      BY <1>3, <1>4, <1>11, <2>1, <2>2
    <3> QED BY <1>2, <1>7, <3>1 DEF LiveOK
  <2>3. CASE j = i /\ u = ck
    BY <1>7, <2>3
  <2>4. CASE j = i /\ u # ck
    <3>1. j \in Owned /\ u \in Inner(mm_pages[j])
      BY <1>3, <1>5, <1>6, <1>11, <2>4
    <3> QED BY <1>2, <1>7, <3>1 DEF LiveOK
  <2> QED BY <2>2, <2>3, <2>4
<1>12. LiveOK'
  <2>1. \A b, c \in live' : b.tag = c.tag /\ b.ck = c.ck => b = c
    BY <1>10
  <2>2. \A b \in live' : /\ b = [tag |-> b.tag, ck |-> b.ck, size |-> b.size]
                         /\ b.tag \in Owned' /\ b.size \in Nat \ {0}
                         /\ b.ck \in Inner(mm_pages'[b.tag])
    BY <1>8
  <2>3. \A j \in Owned' : \A u \in Inner(mm_pages'[j]) : \E b \in live' : b.tag = j /\ b.ck = u
    BY <1>11
  <2> QED BY <2>1, <2>2, <2>3 DEF LiveOK
<1>13. \A j \in Tag : IF mm_pages'[j].npages = 0 THEN NoRun(mm_pages'[j])
                      ELSE PageOK(mm_pages'[j]) /\ mm_pages'[j].dangling = {}
  BY <1>1, <1>2, <1>3
<1>14. cur_page_tag_index' \in Tag \cup {-1} /\ cur_page_tag_index' # -1
  <2>1. i # -1
    BY DEF Tag
  <2> QED BY <1>1, <2>1
<1> QED BY <1>3, <1>12, <1>13, <1>14 DEF HeapInv

\* A block that is freed keeps the heap in order.
LEMMA FreedKeeps ==
  ASSUME HeapInv, NEW b \in live, Freed(b)
  PROVE  HeapInv'
<1> DEFINE i == b.tag
           ck == b.ck
<1>1. PICK q \in PageTag :
        /\ mm_pages' = [mm_pages EXCEPT ![i] = q] /\ cur_page_tag_index' = cur_page_tag_index
        /\ live' = live \ {b}
        /\ \/ q.npages = 0 /\ NoRun(q) /\ Inner(mm_pages[i]) = {ck}
           \/ /\ PageOK(q) /\ q.dangling = {} /\ Inner(mm_pages[i]) # {ck}
              /\ q.npages = mm_pages[i].npages /\ q.used = mm_pages[i].used \ {ck}
              /\ \A u \in Inner(mm_pages[i]) \ {ck} : NextChunk(q, u) = NextChunk(mm_pages[i], u)
  BY DEF Freed
<1>2. mm_pages \in [Tag -> PageTag] /\ LiveOK
      /\ (\A j \in Tag : IF mm_pages[j].npages = 0 THEN NoRun(mm_pages[j])
                        ELSE PageOK(mm_pages[j]) /\ mm_pages[j].dangling = {})
      /\ cur_page_tag_index \in Tag \cup {-1}
      /\ (cur_page_tag_index = -1 => Owned = {})
  BY DEF HeapInv
<1>3. i \in Owned /\ i \in Tag /\ ck \in Inner(mm_pages[i])
  BY <1>2 DEF LiveOK, Owned
<1>4. mm_pages' \in [Tag -> PageTag] /\ mm_pages'[i] = q
      /\ \A j \in Tag : j # i => mm_pages'[j] = mm_pages[j]
  BY <1>1, <1>2, <1>3
<1>5. Owned' = IF q.npages = 0 THEN Owned \ {i} ELSE Owned
  BY <1>3, <1>4 DEF Owned
<1>6. q.npages = 0 => \A c \in live' : c.tag # i
  <2>1. ASSUME q.npages = 0, NEW c \in live, c.tag = i PROVE c = b
    <3>1. Inner(mm_pages[i]) = {ck}
      BY <1>1, <2>1 DEF PageOK, ChunksOK
    <3> QED BY <1>2, <2>1, <3>1 DEF LiveOK
  <2> QED BY <1>1, <2>1
<1>7. q.npages # 0 => Inner(q) = Inner(mm_pages[i]) \ {ck}
  BY <1>1 DEF Inner, LastChunk
<1>8. ASSUME NEW c \in live'
      PROVE  /\ c = [tag |-> c.tag, ck |-> c.ck, size |-> c.size]
             /\ c.tag \in Owned' /\ c.size \in Nat \ {0}
             /\ c.ck \in Inner(mm_pages'[c.tag])
  <2>1. c \in live /\ c # b
    BY <1>1
  <2>2. /\ c = [tag |-> c.tag, ck |-> c.ck, size |-> c.size]
        /\ c.tag \in Owned /\ c.size \in Nat \ {0} /\ c.ck \in Inner(mm_pages[c.tag])
    BY <1>2, <2>1 DEF LiveOK
  <2>3. c.tag = i => c.ck # ck
    BY <1>2, <2>1 DEF LiveOK
  <2>4. c.tag \in Tag
    BY <2>2 DEF Owned
  <2>5. CASE c.tag = i
    <3>1. q.npages # 0
      BY <1>6, <2>5
    <3> QED BY <1>4, <1>5, <1>7, <2>2, <2>3, <2>5, <3>1
  <2>6. CASE c.tag # i
    BY <1>4, <1>5, <2>2, <2>4, <2>6
  <2> QED BY <2>5, <2>6
<1>9. \A c, d \in live' : c.tag = d.tag /\ c.ck = d.ck => c = d
  BY <1>1, <1>2 DEF LiveOK
<1>10. ASSUME NEW j \in Owned', NEW u \in Inner(mm_pages'[j])
       PROVE  \E c \in live' : c.tag = j /\ c.ck = u
  <2>1. j \in Owned /\ j \in Tag
    BY <1>5 DEF Owned
  <2>2. u \in Inner(mm_pages[j]) /\ (j = i => u # ck)
    <3>1. CASE j = i
      BY <1>4, <1>5, <1>7, <1>10, <3>1
    <3>2. CASE j # i
      BY <1>4, <1>10, <2>1, <3>2
    <3> QED BY <3>1, <3>2
  <2>3. PICK c \in live : c.tag = j /\ c.ck = u
    BY <1>2, <2>1, <2>2 DEF LiveOK
  <2> QED BY <1>1, <2>2, <2>3
<1>11. LiveOK'
  <2>1. \A c \in live' : /\ c = [tag |-> c.tag, ck |-> c.ck, size |-> c.size]
                         /\ c.tag \in Owned' /\ c.size \in Nat \ {0}
                         /\ c.ck \in Inner(mm_pages'[c.tag])
    BY <1>8
  <2>2. \A j \in Owned' : \A u \in Inner(mm_pages'[j]) : \E c \in live' : c.tag = j /\ c.ck = u
    BY <1>10
  <2> QED BY <1>9, <2>1, <2>2 DEF LiveOK
<1>12. \A j \in Tag : IF mm_pages'[j].npages = 0 THEN NoRun(mm_pages'[j])
                      ELSE PageOK(mm_pages'[j]) /\ mm_pages'[j].dangling = {}
  <2>1. q.npages # 0 => PageOK(q) /\ q.dangling = {}
    BY <1>1
  <2>2. q.npages = 0 => NoRun(q)
    BY <1>1 DEF PageOK, ChunksOK
  <2> QED BY <1>2, <1>4, <2>1, <2>2
<1>13. cur_page_tag_index' = -1 => Owned' = {}
  BY <1>1, <1>2, <1>3
<1> QED BY <1>1, <1>2, <1>4, <1>11, <1>12, <1>13 DEF HeapInv

\* What callers ask for is not nothing.
LEMMA SizesArePositive == \A size \in Sizes \cup {BootSize} : size \in Nat \ {0}
BY HeapAssumption DEF HeapAssumption

\* Each call, and stuttering, keeps the heap in order.
LEMMA HeapStep == HeapInv /\ [Next]_vars => HeapInv'
<1> SUFFICES ASSUME HeapInv, [Next]_vars PROVE HeapInv'
  OBVIOUS
<1>1. ASSUME mm_pages' = mm_pages, live' = live, cur_page_tag_index' \in Tag \cup {-1},
             cur_page_tag_index' = -1 => cur_page_tag_index = -1
      PROVE  HeapInv'
  <2>1. Owned' = Owned
    BY <1>1 DEF Owned
  <2>2. LiveOK'
    BY <1>1, <2>1 DEF HeapInv, LiveOK
  <2> QED BY <1>1, <2>1, <2>2 DEF HeapInv
<1>2. ASSUME NEW size \in Sizes \cup {BootSize}, NEW ok, KMalloc(size, ok) PROVE HeapInv'
  <2>1. size \in Nat \ {0}
    BY SizesArePositive
  <2> QED BY <1>1, <1>2, <2>1, KMallocIs, TakenKeeps
<1>3. ASSUME NEW b \in live, KFree(b) PROVE HeapInv'
  BY <1>3, KFreeIs, FreedKeeps
<1>4. CASE UNCHANGED vars
  BY <1>1, <1>4 DEF vars, HeapInv
<1> QED BY <1>2, <1>3, <1>4 DEF Next

\* The heap is in order at all times.
LEMMA HeapInvariant == Spec => []HeapInv
<1> QED BY HeapStarts, HeapStep, PTL DEF Spec

-----------------------------------------------------------------------------
(* What follows for the rings and the chunks.                               *)

\* kmalloc and kfree never write a chunk's header or node into a chunk that is
\* too small for it or off the alignment.
THEOREM ChunksLargeEnough == Spec => []ChunksHoldNodes
<1>1. ASSUME HeapInv PROVE ChunksHoldNodes
  <2>1. ASSUME NEW i \in Owned, NEW ck \in mm_pages[i].chunks \ {LastChunk(mm_pages[i])}
        PROVE  memory_chunk_size(mm_pages[i], ck) >= CHUNK /\ ck % ALIGN = 0
    <3>1. mm_pages[i] \in PageTag /\ ChunksOK(mm_pages[i])
      BY <1>1, <2>1 DEF HeapInv, Owned, PageOK
    <3>2. ck % ALIGN = 0
      BY <3>1 DEF ChunksOK
    <3> QED BY <3>1, <3>2, SizeIs
  <2> QED BY <2>1 DEF ChunksHoldNodes
<1> QED BY <1>1, HeapInvariant, PTL

\* kfree leaves no two unused chunks side by side, so that what is free is found
\* in one piece.
THEOREM NeighboursMerged == Spec => []NoAdjacentUnused
<1>1. ASSUME HeapInv PROVE NoAdjacentUnused
  <2>1. ASSUME NEW i \in Owned, NEW ck \in Unused(mm_pages[i])
        PROVE  NextChunk(mm_pages[i], ck) \in mm_pages[i].used
    <3>1. mm_pages[i] \in PageTag /\ ChunksOK(mm_pages[i]) /\ Apart(mm_pages[i])
      BY <1>1, <2>1 DEF HeapInv, Owned, PageOK
    <3> QED BY <3>1, Neighbours
  <2> QED BY <2>1 DEF NoAdjacentUnused
<1> QED BY <1>1, HeapInvariant, PTL

\* kmcheck is content with a ring of one chunk, and with no longer one.
LEMMA BehindIsLast ==
  ASSUME NEW ring \in Seq(Nat), IsInjective(ring)
  PROVE  (\A k \in DOMAIN ring : Behind(ring, k) = Last(ring)) <=> Len(ring) <= 1
<1> DEFINE n == Len(ring)
<1>1. n \in Nat /\ DOMAIN ring = 1..n /\ Last(ring) = ring[n]
  BY DEF Last
<1>2. \A i, j \in 1..n : ring[i] = ring[j] => i = j
  BY EntryIs
<1>3. \A k : Behind(ring, k) = IF k = 1 THEN ring[n] ELSE ring[k - 1]
  BY DEF Behind
<1> HIDE DEF n
<1>4. CASE n <= 1
  <2>1. \A k \in 1..n : k = 1
    BY <1>1, <1>4
  <2> QED BY <1>1, <1>3, <1>4, <2>1 DEF n
<1>5. CASE ~ (n <= 1)
  <2>1. 2 \in 1..n /\ 1 \in 1..n /\ n \in 1..n /\ n # 1
    BY <1>1, <1>5
  <2>2. Behind(ring, 2) = ring[1]
    BY <1>3
  <2>3. ring[1] # ring[n]
    BY <1>2, <2>1
  <2> QED BY <1>1, <1>5, <2>1, <2>2, <2>3 DEF n
<1> QED BY <1>4, <1>5

\* Every unused chunk is once in the ring of its class, where kmalloc will find
\* it, and nothing else is there; kmcheck complains of exactly the heaps that
\* have two chunks in a class.
THEOREM RingsExact == Spec => []FreeListsExact
<1>1. ASSUME HeapInv PROVE FreeListsExact
  <2>1. ASSUME NEW i \in Owned
        PROVE  mm_pages[i] \in PageTag /\ ChunksOK(mm_pages[i]) /\ RingsHold(mm_pages[i], Unused(mm_pages[i]))
    BY <1>1 DEF HeapInv, Owned, PageOK
  <2>2. ASSUME NEW i \in Owned, NEW n \in Slot
        PROVE  LET ring == mm_pages[i].free[n] IN
                 /\ IsInjective(ring)
                 /\ ToSet(ring) = {ck \in Unused(mm_pages[i]) :
                                     memory_chunk_slot(memory_chunk_size(mm_pages[i], ck)) = n}
    BY <2>1 DEF RingsHold, Class
  <2>3. ASSUME NEW i \in Owned, NEW ck \in mm_pages[i].chunks \ {LastChunk(mm_pages[i])}
        PROVE  PrevChunk(mm_pages[i], NextChunk(mm_pages[i], ck)) = ck
    <3> DEFINE pt == mm_pages[i]
               x == NextChunk(pt, ck)
    <3>1. pt \in PageTag /\ ChunksOK(pt)
      BY <2>1
    <3> HIDE DEF pt
    <3>2. ck \in pt.chunks /\ ck # LastChunk(pt)
      BY DEF pt
    <3>3. x \in pt.chunks /\ x \in Nat /\ ck \in Nat /\ ck < x
      BY <3>1, <3>2, NextIs DEF CHUNK
    <3>4. x # 0
      BY <3>3
    <3>5. PrevChunk(pt, x) \in pt.chunks /\ PrevChunk(pt, x) # LastChunk(pt) /\ NextChunk(pt, PrevChunk(pt, x)) = x
      BY <3>1, <3>3, <3>4, PrevIs
    <3>6. PrevChunk(pt, x) = ck
      BY <3>1, <3>2, <3>5, OnePrevious
    <3> QED BY <3>6 DEF pt
  <2>4. ASSUME NEW i \in Owned, NEW n \in Slot
        PROVE  (\A k \in DOMAIN mm_pages[i].free[n] : Behind(mm_pages[i].free[n], k) = Last(mm_pages[i].free[n]))
               <=> Len(mm_pages[i].free[n]) <= 1
    <3>1. mm_pages[i].free[n] \in Seq(Nat)
      BY <2>1 DEF PageTag
    <3> QED BY <2>2, <3>1, BehindIsLast
  <2>5. {j \in Tag : mm_pages[j].npages # 0} = Owned
    BY DEF Owned
  <2>6. kmcheck(mm_pages) = IF \A i \in Owned : \A n \in Slot : Len(mm_pages[i].free[n]) <= 1 THEN 0 ELSE -1
    BY <2>3, <2>4, <2>5 DEF kmcheck
  <2> QED BY <2>2, <2>6 DEF FreeListsExact
<1> QED BY <1>1, HeapInvariant, PTL

-----------------------------------------------------------------------------
(* The heap as its callers see it.                                          *)

\* What a caller sees of a block.
BlockOf(pages, b) ==
  [region |-> b.tag, lo |-> b.ck + HEADER_SIZE,
   hi |-> Min({b.ck + HEADER_SIZE + b.size, NextChunk(pages[b.tag], b.ck)})]

\* The bytes each tag owns.
Extents(pages) == [i \in Tag |-> pages[i].npages * PAGE_SIZE]

\* A block is inside its chunk and its run of pages, and outside every other
\* used chunk.
LEMMA BlockIs ==
  ASSUME NEW pt \in PageTag, PageOK(pt), NEW ck \in Inner(pt), NEW size \in Nat \ {0}
  PROVE  LET hi == Min({ck + HEADER_SIZE + size, NextChunk(pt, ck)}) IN
         /\ ck \in Nat /\ hi \in Nat /\ ck + HEADER_SIZE < hi
         /\ hi <= pt.npages * PAGE_SIZE /\ hi <= NextChunk(pt, ck)
         /\ \A c \in Inner(pt) : ck < c => hi <= c
<1> DEFINE x == NextChunk(pt, ck)
           S == {ck + HEADER_SIZE + size, x}
           hi == Min(S)
<1>1. ChunksOK(pt) /\ ck \in pt.chunks /\ ck # LastChunk(pt) /\ Inner(pt) \subseteq pt.chunks
  BY DEF PageOK, ChunksOK, Inner
<1>2. x \in pt.chunks /\ x \in Nat /\ ck \in Nat /\ ck + CHUNK <= x /\ \A d \in pt.chunks : ck < d => x <= d
  BY <1>1, NextIs
<1>3. x <= LastChunk(pt)
  BY <1>1, <1>2 DEF ChunksOK
<1> HIDE DEF x
<1>4. S \in SUBSET Nat /\ S # {}
  BY <1>2 DEF HEADER_SIZE
<1> HIDE DEF S
<1>5. \E a \in S : \A b \in S : a <= b
  BY <1>4, LeastExists
<1>6. hi \in S /\ \A b \in S : hi <= b
  BY <1>5 DEF Min
<1> HIDE DEF hi
<1>7. hi \in Nat /\ hi <= x /\ (hi = x \/ hi = ck + HEADER_SIZE + size)
  BY <1>4, <1>6 DEF S
<1>8. ck + HEADER_SIZE < hi
  BY <1>2, <1>7 DEF HEADER_SIZE, CHUNK
<1>9. hi <= pt.npages * PAGE_SIZE
  <2>1. PAGE_SIZE \in Nat /\ pt.npages \in Nat
    BY HeapAssumption DEF HeapAssumption, PageTag
  <2>2. pt.npages * PAGE_SIZE \in Nat
    BY <2>1
  <2>3. LastChunk(pt) = pt.npages * PAGE_SIZE - CHUNK
    BY DEF LastChunk
  <2> DEFINE m == pt.npages * PAGE_SIZE
  <2>4. m \in Nat /\ LastChunk(pt) = m - CHUNK
    BY <2>2, <2>3
  <2> HIDE DEF m
  <2>5. hi <= m
    BY <1>2, <1>3, <1>7, <2>4 DEF CHUNK
  <2> QED BY <2>5 DEF m
<1>10. \A c \in Inner(pt) : ck < c => hi <= c
  <2>1. ASSUME NEW c \in Inner(pt), ck < c PROVE hi <= c
    <3>1. x <= c /\ c \in Nat
      BY <1>1, <1>2, <2>1 DEF PageTag
    <3> QED BY <1>2, <1>7, <3>1
  <2> QED BY <2>1
<1> QED BY <1>2, <1>7, <1>8, <1>9, <1>10 DEF hi, S, x

\* What HeapInv says of one block.
LEMMA LiveBlock ==
  ASSUME HeapInv, NEW b \in live
  PROVE  /\ b.tag \in Tag /\ b.tag \in Owned /\ b.size \in Nat \ {0} /\ b.ck \in Nat
         /\ mm_pages[b.tag] \in PageTag /\ PageOK(mm_pages[b.tag]) /\ b.ck \in Inner(mm_pages[b.tag])
BY DEF HeapInv, LiveOK, Owned, PageTag, Inner

\* A request that is served hands out memory that no other block has.
LEMMA TakenIsAlloc ==
  ASSUME HeapInv, HeapInv', NEW size \in Nat \ {0}, Taken(size)
  PROVE  Promise!Alloc
<1>1. PICK i \in Tag, q \in PageTag, ck \in Nat :
        /\ mm_pages' = [mm_pages EXCEPT ![i] = q] /\ cur_page_tag_index' = i
        /\ live' = live \cup {[tag |-> i, ck |-> ck, size |-> size]}
        /\ PageOK(q) /\ q.dangling = {} /\ ck \in Inner(q)
        /\ \/ mm_pages[i].npages = 0 /\ Inner(q) = {ck}
           \/ /\ mm_pages[i].npages # 0 /\ q.npages = mm_pages[i].npages
              /\ ck \notin mm_pages[i].used /\ q.used = mm_pages[i].used \cup {ck}
              /\ \A u \in Inner(mm_pages[i]) : NextChunk(q, u) = NextChunk(mm_pages[i], u)
  BY DEF Taken
<1> DEFINE new == [tag |-> i, ck |-> ck, size |-> size]
           nb == BlockOf(mm_pages', new)
<1>2. mm_pages \in [Tag -> PageTag] /\ mm_pages'[i] = q /\ \A j \in Tag : j # i => mm_pages'[j] = mm_pages[j]
  BY <1>1 DEF HeapInv
<1>3. new.tag = i /\ new.ck = ck /\ new.size = size /\ live' = live \cup {new}
  BY <1>1
<1> HIDE DEF new
<1>4. ASSUME NEW c \in live
      PROVE  /\ BlockOf(mm_pages', c) = BlockOf(mm_pages, c)
             /\ c.tag = i => c.ck # ck /\ c.ck \in Inner(q)
  <2>1. c.tag \in Tag /\ c.tag \in Owned /\ c.ck \in Inner(mm_pages[c.tag])
    BY LiveBlock
  <2>2. CASE c.tag = i
    <3>1. NextChunk(q, c.ck) = NextChunk(mm_pages[i], c.ck) /\ c.ck # ck /\ c.ck \in Inner(q)
      BY <1>1, <2>1, <2>2 DEF Owned, Inner, LastChunk
    <3> QED BY <1>2, <2>2, <3>1 DEF BlockOf
  <2>3. CASE c.tag # i
    BY <1>2, <2>1, <2>3 DEF BlockOf
  <2> QED BY <2>2, <2>3
<1>5. Blocks = {BlockOf(mm_pages, c) : c \in live}
  BY DEF Blocks, BlockOf
<1>6. Blocks' = {BlockOf(mm_pages', c) : c \in live'}
  BY DEF Blocks, BlockOf
<1>7. Blocks' = Blocks \cup {nb}
  <2>1. {BlockOf(mm_pages', c) : c \in live'} = {BlockOf(mm_pages', c) : c \in live} \cup {nb}
    BY <1>3
  <2>2. {BlockOf(mm_pages', c) : c \in live} = {BlockOf(mm_pages, c) : c \in live}
    BY <1>4
  <2> QED BY <1>5, <1>6, <2>1, <2>2
<1>8. /\ nb.region = i /\ nb.lo = ck + HEADER_SIZE /\ nb.hi \in Nat /\ nb.lo < nb.hi
      /\ nb.hi <= q.npages * PAGE_SIZE /\ \A u \in Inner(q) : ck < u => nb.hi <= u
  <2> DEFINE hi == Min({ck + HEADER_SIZE + size, NextChunk(q, ck)})
             end == q.npages * PAGE_SIZE
             lo == ck + HEADER_SIZE
  <2>1. /\ hi \in Nat /\ lo < hi /\ hi <= end
        /\ \A c \in Inner(q) : ck < c => hi <= c
    BY <1>1, BlockIs
  <2>2. nb.region = i /\ nb.lo = lo /\ nb.hi = hi
    BY <1>2, <1>3 DEF BlockOf
  <2> HIDE DEF hi, end, nb
  <2> QED BY <2>1, <2>2 DEF end
<1>9. ASSUME NEW c \in live
      PROVE  /\ Promise!Disjoint(nb, BlockOf(mm_pages, c)) /\ nb # BlockOf(mm_pages, c)
  <2> DEFINE cb == BlockOf(mm_pages, c)
  <2>1. cb = BlockOf(mm_pages', c) /\ (c.tag = i => c.ck # ck /\ c.ck \in Inner(q))
    BY <1>4
  <2>2. cb.region = c.tag /\ cb.lo = c.ck + HEADER_SIZE /\ c.ck \in Nat
    BY LiveBlock DEF BlockOf
  <2>3. CASE c.tag # i
    BY <1>8, <2>2, <2>3 DEF Promise!Disjoint
  <2>4. CASE c.tag = i
    <3>1. c.size \in Nat \ {0} /\ c.ck \in Inner(q) /\ c.ck # ck
      BY <2>1, <2>4, LiveBlock
    <3>2. LET hi == Min({c.ck + HEADER_SIZE + c.size, NextChunk(q, c.ck)}) IN
           hi \in Nat /\ c.ck + HEADER_SIZE < hi /\ \A u \in Inner(q) : c.ck < u => hi <= u
      BY <1>1, <3>1, BlockIs
    <3>3. cb.hi = Min({c.ck + HEADER_SIZE + c.size, NextChunk(q, c.ck)})
      BY <1>2, <2>1, <2>4 DEF BlockOf
    <3>4. cb.hi \in Nat /\ (c.ck < ck => cb.hi <= ck)
      BY <1>1, <3>2, <3>3
    <3>5. ck < c.ck => nb.hi <= c.ck
      BY <1>8, <3>1
    <3>6. nb.lo # cb.lo
      BY <1>8, <2>2, <3>1 DEF HEADER_SIZE
    <3> HIDE DEF cb, nb
    <3>7. nb.hi <= cb.lo \/ cb.hi <= nb.lo
      <4>1. CASE c.ck < ck
        BY <1>8, <3>4, <4>1 DEF HEADER_SIZE
      <4>2. CASE ck < c.ck
        BY <1>8, <2>2, <3>5, <4>2 DEF HEADER_SIZE
      <4> QED BY <2>2, <3>1, <4>1, <4>2
    <3> QED BY <3>6, <3>7 DEF Promise!Disjoint, cb
  <2> QED BY <2>3, <2>4
<1>10. nb \in Blocks' \ Blocks /\ \A c \in Blocks : Promise!Disjoint(nb, c)
  BY <1>5, <1>7, <1>9
<1>11. Extents(mm_pages') = [Extents(mm_pages) EXCEPT ![i] = q.npages * PAGE_SIZE]
       /\ Extents(mm_pages')[i] = q.npages * PAGE_SIZE
  BY <1>2 DEF Extents
<1>12. Extents(mm_pages)[i] \in {0, q.npages * PAGE_SIZE}
  <2>1. Extents(mm_pages)[i] = mm_pages[i].npages * PAGE_SIZE
    BY DEF Extents
  <2>2. PAGE_SIZE \in Nat
    BY HeapAssumption DEF HeapAssumption
  <2>3. 0 * PAGE_SIZE = 0
    BY <2>2
  <2> QED BY <1>1, <2>1, <2>3
<1> HIDE DEF nb
<1>13. 0 <= nb.lo
  BY <1>8 DEF HEADER_SIZE
<1> QED BY <1>7, <1>8, <1>10, <1>11, <1>12, <1>13 DEF Promise!Alloc, Extents

\* A block that is freed ends no other, and its run of pages goes when it was
\* the last one there.
LEMMA FreedIsFree ==
  ASSUME HeapInv, NEW b \in live, Freed(b)
  PROVE  Promise!Free
<1> DEFINE i == b.tag
           ck == b.ck
           ob == BlockOf(mm_pages, b)
<1>1. PICK q \in PageTag :
        /\ mm_pages' = [mm_pages EXCEPT ![i] = q] /\ cur_page_tag_index' = cur_page_tag_index
        /\ live' = live \ {b}
        /\ \/ q.npages = 0 /\ NoRun(q) /\ Inner(mm_pages[i]) = {ck}
           \/ /\ PageOK(q) /\ q.dangling = {} /\ Inner(mm_pages[i]) # {ck}
              /\ q.npages = mm_pages[i].npages /\ q.used = mm_pages[i].used \ {ck}
              /\ \A u \in Inner(mm_pages[i]) \ {ck} : NextChunk(q, u) = NextChunk(mm_pages[i], u)
  BY DEF Freed
<1>2. i \in Tag /\ i \in Owned /\ ck \in Inner(mm_pages[i]) /\ ck \in Nat
  BY LiveBlock
<1>3. mm_pages \in [Tag -> PageTag] /\ mm_pages'[i] = q /\ \A j \in Tag : j # i => mm_pages'[j] = mm_pages[j]
  BY <1>1, <1>2 DEF HeapInv
<1>4. ASSUME NEW c \in live, c # b
      PROVE  /\ BlockOf(mm_pages', c) = BlockOf(mm_pages, c) /\ BlockOf(mm_pages, c) # ob
             /\ c.tag = i => c.ck # ck /\ Inner(mm_pages[i]) # {ck}
  <2>1. c.tag \in Tag /\ c.ck \in Inner(mm_pages[c.tag]) /\ c.ck \in Nat
    BY LiveBlock
  <2>2. c.tag = i => c.ck # ck
    BY <1>4 DEF HeapInv, LiveOK
  <2>3. CASE c.tag = i
    <3>1. NextChunk(q, c.ck) = NextChunk(mm_pages[i], c.ck) /\ Inner(mm_pages[i]) # {ck}
      BY <1>1, <2>1, <2>2, <2>3
    <3>2. c.ck + HEADER_SIZE # ck + HEADER_SIZE
      BY <1>2, <2>1, <2>2, <2>3 DEF HEADER_SIZE
    <3> QED BY <1>3, <2>2, <2>3, <3>1, <3>2 DEF BlockOf
  <2>4. CASE c.tag # i
    BY <1>3, <2>1, <2>4 DEF BlockOf
  <2> QED BY <2>3, <2>4
<1>5. Blocks = {BlockOf(mm_pages, c) : c \in live}
  BY DEF Blocks, BlockOf
<1>6. Blocks' = {BlockOf(mm_pages', c) : c \in live'}
  BY DEF Blocks, BlockOf
<1>7. ob \in Blocks /\ Blocks' = Blocks \ {ob} /\ ob.region = i
  <2>1. ob \in Blocks /\ ob.region = i
    BY <1>5 DEF BlockOf
  <2>2. ASSUME NEW x \in Blocks' PROVE x \in Blocks \ {ob}
    <3>1. PICK c \in live' : x = BlockOf(mm_pages', c)
      BY <1>6
    <3> QED BY <1>1, <1>4, <1>5, <3>1
  <2>3. ASSUME NEW x \in Blocks, x # ob PROVE x \in Blocks'
    <3>1. PICK c \in live : x = BlockOf(mm_pages, c)
      BY <1>5
    <3>2. c # b
      BY <2>3, <3>1
    <3> QED BY <1>1, <1>4, <1>6, <3>1, <3>2
  <2> QED BY <2>1, <2>2, <2>3
<1>8. (\E x \in Blocks' : x.region = i) <=> Inner(mm_pages[i]) # {ck}
  <2>1. ASSUME NEW x \in Blocks', x.region = i PROVE Inner(mm_pages[i]) # {ck}
    <3>1. PICK c \in live' : x = BlockOf(mm_pages', c)
      BY <1>6
    <3>2. c.tag = i
      BY <2>1, <3>1 DEF BlockOf
    <3> QED BY <1>1, <1>4, <3>2
  <2>2. ASSUME Inner(mm_pages[i]) # {ck} PROVE \E x \in Blocks' : x.region = i
    <3>1. PICK u \in Inner(mm_pages[i]) : u # ck
      BY <1>2, <2>2
    <3>2. PICK c \in live : c.tag = i /\ c.ck = u
      BY <1>2 DEF HeapInv, LiveOK
    <3>3. c # b
      BY <3>1, <3>2
    <3>4. c \in live'
      BY <1>1, <3>3
    <3>5. BlockOf(mm_pages', c) \in Blocks'
      BY <1>6, <3>4
    <3>6. BlockOf(mm_pages', c).region = i
      BY <3>2 DEF BlockOf
    <3> QED BY <3>5, <3>6
  <2> QED BY <2>1, <2>2
<1>9. Extents(mm_pages') = IF Inner(mm_pages[i]) # {ck} THEN Extents(mm_pages)
                           ELSE [Extents(mm_pages) EXCEPT ![i] = 0]
  <2>1. \A j \in Tag : j # i => Extents(mm_pages')[j] = Extents(mm_pages)[j]
    BY <1>3 DEF Extents
  <2>2. Extents(mm_pages')[i] = q.npages * PAGE_SIZE /\ Extents(mm_pages)[i] = mm_pages[i].npages * PAGE_SIZE
    BY <1>2, <1>3 DEF Extents
  <2>3. PAGE_SIZE \in Nat /\ 0 * PAGE_SIZE = 0
    <3>1. PAGE_SIZE \in Nat
      BY HeapAssumption DEF HeapAssumption
    <3> QED BY <3>1
  <2>4. IF Inner(mm_pages[i]) # {ck} THEN Extents(mm_pages')[i] = Extents(mm_pages)[i]
        ELSE Extents(mm_pages')[i] = 0
    BY <1>1, <2>2, <2>3
  <2>5. Extents(mm_pages') = [j \in Tag |-> Extents(mm_pages')[j]]
        /\ Extents(mm_pages) = [j \in Tag |-> Extents(mm_pages)[j]]
    BY DEF Extents
  <2> QED BY <2>1, <2>4, <2>5
<1> HIDE DEF ob
<1> QED BY <1>7, <1>8, <1>9 DEF Promise!Free, Extents

\* A step that changes neither the tags nor the blocks is none of the callers'.
LEMMA NothingSeen ==
  ASSUME mm_pages' = mm_pages, live' = live
  PROVE  UNCHANGED Promise!vars
BY DEF Promise!vars, Blocks

\* kmalloc and kfree implement Allocator: a block that is handed out lies in the
\* heap's memory and overlaps no other, stays where it is until it is freed, and
\* no other block ends or loses its memory with it.
THEOREM AllocatorImplemented == Spec => IsAllocator
<1>1. Init => Promise!Init
  <2> SUFFICES ASSUME Init PROVE Promise!Init
    OBVIOUS
  <2>1. Blocks = {}
    BY DEF Init, Blocks
  <2>2. PAGE_SIZE \in Nat
    BY HeapAssumption DEF HeapAssumption
  <2>3. \A i \in Tag : mm_pages[i].npages * PAGE_SIZE = 0
    BY <2>2 DEF Init, NoPage
  <2> QED BY <2>1, <2>3 DEF Promise!Init
<1>2. HeapInv /\ HeapInv' /\ [Next]_vars => [Promise!Alloc \/ Promise!Free]_(Promise!vars)
  <2> SUFFICES ASSUME HeapInv, HeapInv', [Next]_vars
               PROVE  Promise!Alloc \/ Promise!Free \/ UNCHANGED Promise!vars
    OBVIOUS
  <2>1. ASSUME NEW size \in Sizes \cup {BootSize}, NEW ok, KMalloc(size, ok)
        PROVE  Promise!Alloc \/ UNCHANGED Promise!vars
    <3>1. size \in Nat \ {0}
      BY SizesArePositive
    <3> QED BY <2>1, <3>1, KMallocIs, TakenIsAlloc, NothingSeen
  <2>2. ASSUME NEW b \in live, KFree(b) PROVE Promise!Free
    BY <2>2, KFreeIs, FreedIsFree
  <2>3. CASE UNCHANGED vars
    BY <2>3, NothingSeen DEF vars
  <2> QED BY <2>1, <2>2, <2>3 DEF Next
<1> QED BY <1>1, <1>2, HeapInvariant, PTL DEF Spec, IsAllocator, Promise!Spec
=============================================================================
