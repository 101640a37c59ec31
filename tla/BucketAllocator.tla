-------------------------- MODULE BucketAllocator --------------------------
(***************************************************************************)
(* The kernel heap of memory/bucket_allocator.rs: fixed-size buckets with  *)
(* LIFO free lists, and a sorted, coalescing, first-fit list of regions    *)
(* for everything else.  GlobalAlloc holds the allocator's mutex for the   *)
(* whole of alloc and dealloc, so each is one action.                      *)
(*                                                                         *)
(* Addresses are offsets from the (page-aligned) heap start.  The unit is  *)
(* a fraction of the code's 8-byte word: Word units make a word, and the   *)
(* header of a region, { size, next }, takes two words.  The lists are     *)
(* modelled as sequences although they are threaded through the free       *)
(* memory itself; MetadataIntact says when that is justified.              *)
(*                                                                         *)
(* The clients are the kernel's own collections: a block is freed once,    *)
(* with the layout it was allocated with, and only its own bytes are       *)
(* written.                                                                *)
(***************************************************************************)
EXTENDS Integers, Sequences, FiniteSets, FiniteSetsExt

CONSTANTS
    BucketSizes,        \* BUCKET_SIZES, ascending
    BlocksPerBucket,    \* BLOCKS_PER_BUCKET
    HeapSize,           \* HEAP_SIZE
    Word,               \* 8 bytes: the least size and alignment
    Layouts,            \* the layouts clients ask for: [size, align]
    MaxLive             \* blocks the clients hold at once

Buckets == DOMAIN BucketSizes
Header == 2 * Word      \* size_of::<LargeNode>()

\* Where each bucket's memory begins; the last entry is where they all end.
Base[b \in 1 .. Len(BucketSizes) + 1] ==
    IF b = 1 THEN 0 ELSE Base[b - 1] + BlocksPerBucket * BucketSizes[b - 1]

ASSUME AllocatorAssumption ==
    /\ BucketSizes \in Seq(Nat \ {0}) /\ BucketSizes # <<>>
    /\ \A b, c \in Buckets : b < c => BucketSizes[b] < BucketSizes[c]
    /\ Word \in Nat \ {0} /\ BlocksPerBucket \in Nat \ {0} /\ MaxLive \in Nat
    /\ \A b \in Buckets : BucketSizes[b] >= Word
    /\ HeapSize \in Nat /\ HeapSize >= Base[Len(BucketSizes) + 1]
    /\ Layouts \subseteq [size : Nat \ {0}, align : Nat \ {0}]
    \* "Bucket allocations are naturally aligned to their size (power of 2)".
    /\ \A b \in Buckets : Base[b] % BucketSizes[b] = 0
    /\ \A l \in Layouts : /\ l.align <= Word => Word % l.align = 0
                          /\ \A b \in Buckets : l.align <= BucketSizes[b] =>
                                                  BucketSizes[b] % l.align = 0

VARIABLES
    free_list,  \* buckets[_].free_list, first block first
    free_blocks,\* buckets[_].free_blocks
    large,      \* the regions reachable from large_head: [start, size]
    used,       \* used
    live,       \* the blocks clients hold: [addr, size, align]
    halted      \* alloc_error has stopped the kernel

vars == <<free_list, free_blocks, large, used, live, halted>>

\* The addresses of a bucket's own blocks.
HomeBlocks(b) == {Base[b] + k * BucketSizes[b] : k \in 0 .. BlocksPerBucket - 1}

Init ==
    /\ free_list = [b \in Buckets |->
          [k \in 1 .. BlocksPerBucket |-> Base[b] + (k - 1) * BucketSizes[b]]]
    /\ free_blocks = [b \in Buckets |-> BlocksPerBucket]
    /\ LET start == Base[Len(BucketSizes) + 1]
           remaining == HeapSize - start
       IN  large = IF remaining > Header
                   THEN <<[start |-> start, size |-> remaining]>> ELSE <<>>
    /\ used = 0
    /\ live = {}
    /\ halted = FALSE

-----------------------------------------------------------------------------
AtLeast(n, m) == IF n < m THEN m ELSE n         \* n.max(m)
SaturatingSub(a, b) == IF a < b THEN 0 ELSE a - b
End(r) == r.start + r.size

align_up(addr, align) == ((addr + align - 1) \div align) * align

\* The buckets whose blocks hold size units; bucket_index takes the first.
Fitting(size) == {b \in Buckets : size <= BucketSizes[b]}
bucket_index(size) == Min(Fitting(size))

\* The bucket alloc tries, provided it has a block left.
FromBucket(layout) ==
    LET size == AtLeast(layout.size, Word)
    IN  /\ Fitting(size) # {}
        /\ BucketSizes[bucket_index(size)] >= AtLeast(layout.align, Word)
        /\ free_list[bucket_index(size)] # <<>>

BucketAlloc(layout) ==
    LET b == bucket_index(AtLeast(layout.size, Word))
    IN  /\ ~halted
        /\ Cardinality(live) < MaxLive
        /\ FromBucket(layout)
        /\ free_list' = [free_list EXCEPT ![b] = Tail(@)]
        /\ free_blocks' = [free_blocks EXCEPT ![b] = @ - 1]
        /\ used' = used + BucketSizes[b]
        /\ live' = live \cup {[addr |-> Head(free_list[b]),
                               size |-> layout.size, align |-> layout.align]}
        /\ UNCHANGED <<large, halted>>

\* The regions of the list in which size units fit once aligned.
Fits(size, align) ==
    {k \in DOMAIN large : align_up(large[k].start, align) + size <= End(large[k])}

\* Mutant of Remainder: the tail of a split region is dropped.
RemainderDropped(r, at, size) ==
    IF at > r.start THEN <<[start |-> r.start, size |-> at - r.start]>> ELSE <<>>

\* Mutant of Remainder: the excess starts a word too early.
RemainderOverlap(r, at, size) ==
    LET excess == End(r) - (at + size)
    IN  IF excess < Header THEN <<>>
        ELSE <<[start |-> at + size - Word, size |-> excess + Word]>>

\* What alloc_large leaves in the list of the region r when it takes size
\* units at address at: the excess behind becomes a region if a header fits
\* in it, with the gap in front as a region of its own; otherwise both gap
\* and excess are dropped from the list.
Remainder(r, at, size) ==
    LET excess == End(r) - (at + size)
        rest == [start |-> at + size, size |-> excess]
        gap == [start |-> r.start, size |-> at - r.start]
    IN  CASE excess < Header -> <<>>
          [] excess >= Header /\ at = r.start -> <<rest>>
          [] excess >= Header /\ at > r.start -> <<gap, rest>>

LargeAlloc(layout) ==
    LET size == AtLeast(layout.size, Word)
        align == AtLeast(layout.align, Word)
        k == Min(Fits(size, align))
        at == align_up(large[k].start, align)
    IN  /\ ~halted
        /\ Cardinality(live) < MaxLive
        /\ ~FromBucket(layout)
        /\ Fits(size, align) # {}
        /\ large' = SubSeq(large, 1, k - 1) \o Remainder(large[k], at, size)
                       \o SubSeq(large, k + 1, Len(large))
        /\ used' = used + size
        /\ live' = live \cup {[addr |-> at, size |-> layout.size,
                               align |-> layout.align]}
        /\ UNCHANGED <<free_list, free_blocks, halted>>

\* Neither the bucket nor the list can serve the request: alloc returns
\* null, and alloc_error prints and halts.
OutOfMemory(layout) ==
    /\ ~halted
    /\ Cardinality(live) < MaxLive
    /\ ~FromBucket(layout)
    /\ Fits(AtLeast(layout.size, Word), AtLeast(layout.align, Word)) = {}
    /\ halted' = TRUE
    /\ UNCHANGED <<free_list, free_blocks, large, used, live>>

-----------------------------------------------------------------------------
\* dealloc of a size some bucket holds: onto that bucket's free list,
\* wherever the block came from.
BucketDealloc(block) ==
    LET b == bucket_index(AtLeast(block.size, Word))
    IN  /\ ~halted
        /\ Fitting(AtLeast(block.size, Word)) # {}
        /\ used' = SaturatingSub(used, BucketSizes[b])
        /\ free_list' = [free_list EXCEPT ![b] = <<block.addr>> \o @]
        /\ free_blocks' = [free_blocks EXCEPT ![b] = @ + 1]
        /\ live' = live \ {block}
        /\ UNCHANGED <<large, halted>>

\* Mutant of Insert: a freed region is merged with the one before it only.
InsertMergeLeft(rs, r) ==
    LET k == Cardinality({j \in DOMAIN rs : rs[j].start < r.start})
        left == k > 0 /\ End(rs[k]) = r.start
        start == IF left THEN rs[k].start ELSE r.start
    IN  SubSeq(rs, 1, IF left THEN k - 1 ELSE k)
          \o <<[start |-> start, size |-> End(r) - start]>>
          \o SubSeq(rs, k + 1, Len(rs))

\* Mutant of Insert: the wrong neighbour is compared, so a freed region is
\* merged with the one behind it although they do not touch.
InsertMergeAny(rs, r) ==
    LET k == Cardinality({j \in DOMAIN rs : rs[j].start < r.start})
        right == k < Len(rs)
        end == IF right THEN End(rs[k + 1]) ELSE End(r)
    IN  SubSeq(rs, 1, k)
          \o <<[start |-> r.start, size |-> end - r.start]>>
          \o SubSeq(rs, IF right THEN k + 2 ELSE k + 1, Len(rs))

\* The sorted list rs with the region r put in its place and merged with the
\* neighbours it touches; a region that starts where r does is a double free
\* and leaves the list as it is.
Insert(rs, r) ==
    LET k == Cardinality({j \in DOMAIN rs : rs[j].start < r.start})
        left == k > 0 /\ End(rs[k]) = r.start
        right == k < Len(rs) /\ End(r) = rs[k + 1].start
        start == IF left THEN rs[k].start ELSE r.start
        end == IF right THEN End(rs[k + 1]) ELSE End(r)
    IN  IF k < Len(rs) /\ rs[k + 1].start = r.start THEN rs
        ELSE SubSeq(rs, 1, IF left THEN k - 1 ELSE k)
               \o <<[start |-> start, size |-> end - start]>>
               \o SubSeq(rs, IF right THEN k + 2 ELSE k + 1, Len(rs))

LargeDealloc(block) ==
    LET size == AtLeast(block.size, Word)
    IN  /\ ~halted
        /\ Fitting(size) = {}
        /\ live' = live \ {block}
        /\ IF block.addr + size > HeapSize
           THEN UNCHANGED <<large, used>>
           ELSE /\ used' = SaturatingSub(used, size)
                /\ large' = Insert(large, [start |-> block.addr, size |-> size])
        /\ UNCHANGED <<free_list, free_blocks, halted>>

Next ==
    \/ \E l \in Layouts : BucketAlloc(l) \/ LargeAlloc(l) \/ OutOfMemory(l)
    \/ \E block \in live : BucketDealloc(block) \/ LargeDealloc(block)

Spec == Init /\ [][Next]_vars

-----------------------------------------------------------------------------
\* The memory a block was charged for: a bucket's whole block, or its size.
Charge(block) ==
    LET size == AtLeast(block.size, Word)
    IN  IF Fitting(size) = {} THEN size ELSE BucketSizes[bucket_index(size)]

Units(start, size) == start .. start + size - 1

\* Types of the free lists and the counters.
TypeOK ==
    /\ free_list \in [Buckets -> Seq(0 .. HeapSize - 1)]
    /\ free_blocks \in [Buckets -> 0 .. BlocksPerBucket]
    /\ large \in Seq([start : 0 .. HeapSize - 1, size : 1 .. HeapSize])
    /\ used \in Nat
    /\ Cardinality(live) <= MaxLive
    /\ halted \in BOOLEAN

\* What alloc owes its clients: the block lies in the heap, is aligned as the
\* layout asks, and shares no byte with another live block.
BlocksDisjoint ==
    /\ \A x \in live :
          /\ x.addr % x.align = 0
          /\ Units(x.addr, x.size) \subseteq 0 .. HeapSize - 1
    /\ \A x, y \in live :
          x # y => Units(x.addr, x.size) \cap Units(y.addr, y.size) = {}

\* No free-list node (the next word of a free bucket block, the header of a
\* region) lies in memory that a client may write.
MetadataIntact ==
    \A x \in live :
        /\ \A b \in Buckets : \A k \in DOMAIN free_list[b] :
              Units(free_list[b][k], Word) \cap Units(x.addr, x.size) = {}
        /\ \A k \in DOMAIN large :
              Units(large[k].start, Header) \cap Units(x.addr, x.size) = {}

\* What the heap is divided into: live blocks, regions and free bucket blocks,
\* each as its address and size.
Extents ==
    {<<x.addr, Charge(x)>> : x \in live}
      \cup {<<large[k].start, large[k].size>> : k \in DOMAIN large}
      \cup UNION {{<<free_list[b][k], BucketSizes[b]>> : k \in DOMAIN free_list[b]} :
                      b \in Buckets}

\* Nothing is leaked and nothing given out twice: live blocks, free bucket
\* blocks and regions tile the heap, through every split and merge.
HeapTiled ==
    /\ UNION {Units(e[1], e[2]) : e \in Extents} = 0 .. HeapSize - 1
    /\ \A e, f \in Extents : e # f => Units(e[1], e[2]) \cap Units(f[1], f[2]) = {}

\* The region list is sorted and fully merged: between two regions there is
\* always memory in use, so dealloc_large never misses a neighbour.
Coalesced ==
    \A k \in 1 .. Len(large) - 1 : End(large[k]) < large[k + 1].start

\* "Check if it's from a bucket" (bucket_allocator.rs:228): what dealloc puts
\* on a bucket's free list is one of that bucket's own blocks.
OwnBlocksOnly ==
    \A b \in Buckets : \A k \in DOMAIN free_list[b] : free_list[b][k] \in HomeBlocks(b)

-----------------------------------------------------------------------------
(***************************************************************************)
(* The conditions on the requests under which the proofs show these        *)
(* invariants for every heap.                                              *)
(***************************************************************************)

Top == Base[Len(BucketSizes) + 1]       \* where the buckets end

Needs(x) == AtLeast(x.size, Word)
Small(x) == Fitting(Needs(x)) # {}
BucketOf(x) == bucket_index(Needs(x))
Align(x) == AtLeast(x.align, Word)

\* Every request that fits a bucket is served by it.
NeverOut ==
    /\ MaxLive <= BlocksPerBucket
    /\ \A l \in Layouts : Small(l) => BucketSizes[BucketOf(l)] >= Align(l)

\* The region list begins and ends at multiples of a header, and lends multiples
\* of a header, aligned to a multiple or to a part of one.
Even ==
    /\ Top % Header = 0 /\ HeapSize % Header = 0
    /\ \A l \in Layouts : ~Small(l) =>
          Needs(l) % Header = 0 /\ (Align(l) % Header = 0 \/ Header % Align(l) = 0)

\* No request leaves a gap in front of it, and the memory behind the buckets is
\* not a lone header, which new would leave out of the list.
Snug ==
    /\ HeapSize - Top # Header
    /\ \A l \in Layouts : ~Small(l) => Header % Align(l) = 0
=============================================================================
