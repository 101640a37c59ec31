------------------------ MODULE BucketAllocatorProofs ------------------------
(***************************************************************************)
(* Proofs about the kernel heap, for every heap size, every set of bucket  *)
(* sizes and every sequence of allocations.                                *)
(*                                                                         *)
(* The region list is sound whatever is allocated and freed (ListInv).     *)
(* The buckets are sound if no bucket runs out (NeverOut); otherwise the   *)
(* blocks that the list lends to a bucket break them.  No header lies in a *)
(* live block if, besides, the list deals in whole headers (Even), and     *)
(* nothing leaks if no request leaves a gap in front of it (Snug).         *)
(***************************************************************************)
EXTENDS BucketAllocator, SequenceTheorems, FiniteSetTheorems, WellFoundedInduction, TLAPS

Region == [start : Nat, size : Nat \ {0}]
Block == [addr : Nat, size : Nat \ {0}, align : Nat \ {0}]

\* The blocks clients hold of the region list's, and of one bucket's.
Larges == {x \in live : ~Small(x)}
Smalls(b) == {x \in live : Small(x) /\ BucketOf(x) = b}

FreeUnits(rs) == UNION {Units(rs[k].start, rs[k].size) : k \in DOMAIN rs}
Sorted(rs) == \A i, j \in DOMAIN rs : i < j => End(rs[i]) < rs[j].start

\* A list of regions and the blocks M cut from it.
ListOK(rs, M) ==
    /\ rs \in Seq(Region) /\ Sorted(rs)
    /\ FreeUnits(rs) \subseteq Top .. HeapSize - 1
    /\ \A x \in M : Units(x.addr, Needs(x)) \subseteq (Top .. HeapSize - 1) \ FreeUnits(rs)
    /\ \A x, y \in M : x # y => Units(x.addr, Needs(x)) \cap Units(y.addr, Needs(y)) = {}

\* The same in multiples of a header.
EvenOK(rs, M) ==
    /\ \A k \in DOMAIN rs : rs[k].start % Header = 0 /\ End(rs[k]) % Header = 0
    /\ \A x \in M : x.addr % Header = 0 /\ (x.addr + Needs(x)) % Header = 0

\* Nothing behind the buckets is lost.
CoverOK(rs, M) ==
    \A u \in Top .. HeapSize - 1 :
        u \in FreeUnits(rs) \/ \E x \in M : u \in Units(x.addr, Needs(x))

\* The free list f of a bucket and the blocks M that clients hold of it: each of
\* its own blocks is in one of the two, once.
BucketOK(b, f, M) ==
    /\ f \in Seq(Nat)
    /\ \A i, j \in DOMAIN f : f[i] = f[j] => i = j
    /\ \A x, y \in M : x.addr = y.addr => x = y
    /\ \A i \in DOMAIN f : f[i] \in HomeBlocks(b) /\ \A x \in M : x.addr # f[i]
    /\ \A x \in M : x.addr \in HomeBlocks(b)
    /\ \A a \in HomeBlocks(b) : (\E i \in DOMAIN f : f[i] = a) \/ (\E x \in M : x.addr = a)
    /\ Len(f) + Cardinality(M) = BlocksPerBucket

\* The inductive invariants: of the list, of the list in whole headers, of the
\* memory behind the buckets, and of the buckets.
LiveOK ==
    /\ live \subseteq Block /\ IsFiniteSet(live)
    /\ free_list \in [Buckets -> Seq(Nat)]
ListInv == LiveOK /\ ListOK(large, Larges)
EvenInv == EvenOK(large, Larges)
CoverInv == CoverOK(large, Larges)
BucketInv ==
    /\ \A b \in Buckets : BucketOK(b, free_list[b], Smalls(b))
    /\ \A x \in live : x.addr % x.align = 0

-----------------------------------------------------------------------------
(***************************************************************************)
(* Numbers.                                                                *)
(***************************************************************************)

\* The assumptions on the constants, one by one.
LEMMA Constants ==
    /\ BucketSizes \in Seq(Nat \ {0}) /\ BucketSizes # <<>>
    /\ Len(BucketSizes) \in Nat \ {0} /\ Buckets = 1 .. Len(BucketSizes)
    /\ \A b \in Buckets : BucketSizes[b] \in Nat \ {0} /\ BucketSizes[b] >= Word
    /\ Word \in Nat \ {0} /\ BlocksPerBucket \in Nat \ {0} /\ MaxLive \in Nat
    /\ HeapSize \in Nat /\ Top <= HeapSize
    /\ \A l \in Layouts : l.size \in Nat \ {0} /\ l.align \in Nat \ {0}
    /\ Header \in Nat \ {0} /\ Header = Word + Word
<1>1. BucketSizes \in Seq(Nat \ {0}) /\ BucketSizes # <<>>
  BY AllocatorAssumption
<1>2. Len(BucketSizes) \in Nat \ {0} /\ Buckets = 1 .. Len(BucketSizes)
  BY <1>1 DEF Buckets
<1>3. \A b \in Buckets : BucketSizes[b] \in Nat \ {0}
  BY <1>1, <1>2
<1>4. Word \in Nat \ {0} /\ BlocksPerBucket \in Nat \ {0} /\ MaxLive \in Nat
  BY AllocatorAssumption
<1>5. Header \in Nat \ {0} /\ Header = Word + Word
  BY <1>4 DEF Header
<1>6. \A l \in Layouts : l.size \in Nat \ {0} /\ l.align \in Nat \ {0}
  BY AllocatorAssumption
<1>. QED BY <1>1, <1>2, <1>3, <1>4, <1>5, <1>6, AllocatorAssumption DEF Top

\* A non-empty set of naturals has a least element, and Min finds it.
LEMMA MinFacts ==
    ASSUME NEW T \in SUBSET Nat, T # {}
    PROVE  Min(T) \in T /\ \A y \in T : Min(T) <= y
<1>. DEFINE LT == {ss \in Nat \X Nat : ss[1] < ss[2]}
<1>1. IsWellFoundedOn(LT, Nat)
  BY NatLessThanWellFounded DEF OpToRel
<1>2. PICK m \in T : \A y \in T : ~(<<y, m>> \in LT)
  <2>. HIDE DEF LT
  <2>. QED BY <1>1, WFMin
<1>3. ASSUME NEW y \in T  PROVE  m <= y
  <2>1. y \in Nat /\ m \in Nat
    OBVIOUS
  <2>2. y < m => <<y, m>> \in LT
    BY <2>1
  <2>. QED BY <1>2, <2>1, <2>2
<1>. QED BY <1>2, <1>3 DEF Min

\* Division with remainder.
LEMMA DivMod ==
    ASSUME NEW x \in Nat, NEW a \in Nat \ {0}
    PROVE  x = a * (x \div a) + (x % a) /\ x \div a \in Nat /\ x % a \in 0 .. a - 1
<1>1. x = a * (x \div a) + (x % a)
  OBVIOUS
<1>2. x % a \in 0 .. a - 1
  OBVIOUS
<1>3. x \div a \in Int
  OBVIOUS
<1>4. x \div a >= 0
  OBVIOUS
<1>. QED BY <1>1, <1>2, <1>3, <1>4

\* The multiples of a.
LEMMA Multiple ==
    ASSUME NEW x \in Nat, NEW a \in Nat \ {0}
    PROVE  x % a = 0 <=> \E q \in Nat : x = a * q
<1>1. ASSUME x % a = 0  PROVE \E q \in Nat : x = a * q
  <2>1. PICK q \in Nat : q = x \div a
    BY DivMod
  <2>2. x = a * q + (x % a)
    BY <2>1, DivMod
  <2>3. x = a * q
    BY <1>1, <2>2
  <2>. QED BY <2>3
<1>2. ASSUME NEW q \in Nat, x = a * q  PROVE x % a = 0
  <2>1. (a * q) % a = 0
    OBVIOUS
  <2>. QED BY <1>2, <2>1
<1>. QED BY <1>1, <1>2

\* Sums and differences of multiples are multiples, and a multiple that is not
\* zero is at least a.
LEMMA MultipleSum ==
    ASSUME NEW x \in Nat, NEW y \in Nat, NEW a \in Nat \ {0}, x % a = 0, y % a = 0
    PROVE  /\ (x + y) % a = 0
           /\ x <= y => (y - x) % a = 0
           /\ x # 0 => x >= a
<1>1. PICK p \in Nat : x = a * p
  BY Multiple
<1>2. PICK q \in Nat : y = a * q
  BY Multiple
<1>3. (x + y) % a = 0
  <2>1. x + y = a * (p + q) /\ p + q \in Nat /\ x + y \in Nat
    BY <1>1, <1>2
  <2>. QED BY <2>1, Multiple
<1>4. ASSUME x <= y  PROVE (y - x) % a = 0
  <2>1. CASE p <= q
    <3>1. y - x = a * (q - p) /\ q - p \in Nat /\ y - x \in Nat
      BY <1>1, <1>2, <1>4, <2>1
    <3>. QED BY <3>1, Multiple
  <2>2. CASE q < p
    <3>1. a * q + a <= a * p
      BY <2>2
    <3>. QED BY <1>1, <1>2, <1>4, <3>1
  <2>. QED BY <2>1, <2>2
<1>5. ASSUME x # 0  PROVE x >= a
  <2>1. p # 0
    BY <1>1, <1>5
  <2>2. a * 1 <= a * p
    BY <2>1
  <2>. QED BY <1>1, <2>2
<1>. QED BY <1>3, <1>4, <1>5

\* A multiple of a multiple is a multiple.
LEMMA MultipleTrans ==
    ASSUME NEW x \in Nat, NEW y \in Nat \ {0}, NEW a \in Nat \ {0}, x % y = 0, y % a = 0
    PROVE  x % a = 0
<1>1. PICK p \in Nat : x = y * p
  BY Multiple
<1>2. PICK q \in Nat : y = a * q
  BY Multiple
<1>3. x = a * (q * p) /\ q * p \in Nat
  BY <1>1, <1>2
<1>. QED BY <1>3, Multiple

\* align_up gives the next multiple.
LEMMA AlignUp ==
    ASSUME NEW x \in Nat, NEW a \in Nat \ {0}, NEW y, y = align_up(x, a)
    PROVE  /\ y \in Nat /\ x <= y /\ y % a = 0
           /\ x % a = 0 => y = x
<1>1. PICK z \in Nat : z = x + a - 1
  OBVIOUS
<1>2. PICK q \in Nat : q = z \div a
  BY DivMod
<1>3. PICK r \in 0 .. a - 1 : z = a * q + r
  BY <1>2, DivMod
<1>4. y \in Nat /\ y = a * q /\ x <= y /\ y <= x + a - 1
  <2>1. y = q * a
    BY <1>1, <1>2 DEF align_up
  <2>2. y = a * q
    BY <2>1
  <2>3. y \in Nat
    BY <2>2
  <2>. QED BY <1>1, <1>3, <2>2, <2>3
<1>5. y % a = 0
  BY <1>4, Multiple
<1>6. ASSUME x % a = 0  PROVE y = x
  <2>1. (y - x) % a = 0
    BY <1>4, <1>5, <1>6, MultipleSum
  <2>2. PICK d \in Nat : d = y - x
    BY <1>4
  <2>3. d # 0 => d >= a
    BY <2>1, <2>2, MultipleSum
  <2>. QED BY <1>4, <2>2, <2>3
<1>. QED BY <1>4, <1>5, <1>6

-----------------------------------------------------------------------------
(***************************************************************************)
(* Where the buckets lie.                                                  *)
(***************************************************************************)

\* What the function Base must satisfy for its first n entries.
BaseIs(g, n) ==
    g = [b \in 1 .. n |-> IF b = 1 THEN 0 ELSE g[b - 1] + BlocksPerBucket * BucketSizes[b - 1]]

\* Such a function exists for every n, by induction on n.
LEMMA BaseExists ==
    ASSUME NEW n \in Nat
    PROVE  \E g : BaseIs(g, n)
<1>. DEFINE T == {m \in Nat : ~\E g : BaseIs(g, m)}
<1>1. SUFFICES ASSUME n \in T  PROVE FALSE
  OBVIOUS
<1>2. T \in SUBSET Nat /\ T # {}
  BY <1>1
<1>3. PICK m \in T : \A y \in T : m <= y
  <2>. HIDE DEF T
  <2>. QED BY <1>2, MinFacts
<1>4. m \in Nat /\ ~\E g : BaseIs(g, m)
  OBVIOUS
<1>5. CASE m = 0
  <2>1. BaseIs([b \in 1 .. 0 |-> 0], 0)
    BY DEF BaseIs
  <2>. QED BY <1>4, <1>5, <2>1
<1>6. CASE m # 0
  <2>1. m - 1 \in Nat /\ m - 1 \notin T
    BY <1>3, <1>4, <1>6
  <2>2. PICK g : BaseIs(g, m - 1)
    BY <2>1
  <2>. DEFINE next(f, b) == IF b = 1 THEN 0 ELSE f[b - 1] + BlocksPerBucket * BucketSizes[b - 1]
              h == [b \in 1 .. m |-> IF b = m THEN next(g, m) ELSE g[b]]
  <2>3. ASSUME NEW b \in 1 .. m  PROVE next(h, b) = next(g, b)
    <3>1. CASE b = 1
      BY <3>1
    <3>2. CASE b # 1
      <4>1. b - 1 \in 1 .. m /\ b - 1 # m
        BY <1>4, <3>2
      <4>2. h[b - 1] = g[b - 1]
        BY <4>1
      <4>. HIDE DEF h
      <4>. QED BY <3>2, <4>2
    <3>. QED BY <3>1, <3>2
  <2>4. ASSUME NEW b \in 1 .. m  PROVE h[b] = next(h, b)
    <3>1. CASE b = m
      BY <2>3, <3>1
    <3>2. CASE b # m
      <4>1. b \in 1 .. m - 1 /\ h[b] = g[b]
        BY <1>4, <3>2
      <4>2. g[b] = next(g, b)
        BY <2>2, <4>1 DEF BaseIs
      <4>. HIDE DEF h, next
      <4>. QED BY <2>3, <4>1, <4>2
    <3>. QED BY <3>1, <3>2
  <2>5. h = [b \in 1 .. m |-> h[b]]
    OBVIOUS
  <2>. HIDE DEF h
  <2>6. h = [b \in 1 .. m |-> next(h, b)]
    BY <2>4, <2>5
  <2>7. BaseIs(h, m)
    BY <2>6 DEF BaseIs
  <2>. QED BY <1>4, <2>7
<1>. QED BY <1>5, <1>6

\* The memory of the buckets: each begins where the one before ends.
LEMMA BaseStep ==
    /\ Base[1] = 0
    /\ \A b \in Buckets : Base[b + 1] = Base[b] + BlocksPerBucket * BucketSizes[b]
<1>1. PICK n \in Nat \ {0} : n = Len(BucketSizes) /\ Buckets = 1 .. n
  BY Constants
<1>2. BaseIs(Base, n + 1)
  <2>1. \E g : BaseIs(g, n + 1)
    BY BaseExists
  <2>. QED BY <1>1, <2>1 DEF Base, BaseIs
<1>3. ASSUME NEW b \in 1 .. n + 1
      PROVE  Base[b] = IF b = 1 THEN 0 ELSE Base[b - 1] + BlocksPerBucket * BucketSizes[b - 1]
  BY <1>2 DEF BaseIs
<1>4. Base[1] = 0
  BY <1>3
<1>5. ASSUME NEW b \in Buckets  PROVE Base[b + 1] = Base[b] + BlocksPerBucket * BucketSizes[b]
  <2>1. b + 1 \in 1 .. n + 1 /\ b + 1 # 1 /\ (b + 1) - 1 = b
    BY <1>1
  <2>. QED BY <1>3, <2>1
<1>. QED BY <1>4, <1>5

\* A bucket ends before a later one begins.
LEMMA BaseGrows ==
    ASSUME NEW b \in 1 .. Len(BucketSizes) + 1
    PROVE  /\ Base[b] \in Nat
           /\ \A c \in Buckets : c < b => Base[c] + BlocksPerBucket * BucketSizes[c] <= Base[b]
<1>1. PICK n \in Nat \ {0} : n = Len(BucketSizes) /\ Buckets = 1 .. n
  BY Constants
<1>. DEFINE OK(d) == /\ Base[d] \in Nat
                     /\ \A c \in Buckets : c < d =>
                            Base[c] + BlocksPerBucket * BucketSizes[c] <= Base[d]
            T == {d \in 1 .. n + 1 : ~OK(d)}
<1>2. SUFFICES ASSUME b \in T  PROVE FALSE
  BY <1>1
<1>3. T \in SUBSET Nat /\ T # {}
  BY <1>2
<1>4. PICK m \in T : \A y \in T : m <= y
  <2>. HIDE DEF T
  <2>. QED BY <1>3, MinFacts
<1>5. m \in 1 .. n + 1 /\ ~OK(m)
  OBVIOUS
<1>6. CASE m = 1
  <2>1. Base[1] \in Nat /\ \A c \in Buckets : ~(c < 1)
    BY <1>1, BaseStep
  <2>. QED BY <1>5, <1>6, <2>1
<1>7. CASE m # 1
  <2>1. PICK a \in Buckets : m = a + 1
    BY <1>1, <1>5, <1>7
  <2>2. a \in 1 .. n + 1 /\ a < m
    BY <1>1, <2>1
  <2>3. OK(a)
    BY <1>4, <2>2
  <2>4. PICK z \in Nat : z = BlocksPerBucket * BucketSizes[a]
    BY Constants
  <2>5. Base[m] = Base[a] + z /\ Base[a] \in Nat
    BY <2>1, <2>3, <2>4, BaseStep
  <2>6. ASSUME NEW c \in Buckets, c < m
        PROVE  Base[c] + BlocksPerBucket * BucketSizes[c] <= Base[m]
    <3>1. CASE c = a
      BY <2>4, <2>5, <3>1
    <3>2. CASE c # a
      <4>1. c < a
        BY <1>1, <2>1, <2>6, <3>2
      <4>2. Base[c] + BlocksPerBucket * BucketSizes[c] <= Base[a]
        BY <2>3, <4>1
      <4>3. c \in 1 .. n + 1 /\ OK(c)
        BY <1>1, <1>4, <2>6
      <4>4. PICK w \in Nat : w = Base[c] + BlocksPerBucket * BucketSizes[c]
        <5>1. PICK N \in Nat, s \in Nat : N = BlocksPerBucket /\ s = BucketSizes[c]
          BY Constants
        <5>2. N * s \in Nat
          OBVIOUS
        <5>. QED BY <4>3, <5>1, <5>2
      <4>. QED BY <2>4, <2>5, <4>2, <4>4
    <3>. QED BY <3>1, <3>2
  <2>. QED BY <1>5, <2>5, <2>6
<1>. QED BY <1>6, <1>7

\* A bucket's blocks lie in its own memory, no two overlap, and together they
\* are all of it.
LEMMA HomeFacts ==
    ASSUME NEW b \in Buckets, NEW s, s = BucketSizes[b]
    PROVE  /\ Base[b] \in Nat /\ Base[b + 1] \in Nat /\ Base[b + 1] <= Top
           /\ \A x \in HomeBlocks(b) : x \in Nat /\ Base[b] <= x /\ x + s <= Base[b + 1]
           /\ \A x, y \in HomeBlocks(b) : x < y => x + s <= y
           /\ \A u \in Base[b] .. Base[b + 1] - 1 : \E x \in HomeBlocks(b) : x <= u /\ u < x + s
<1>1. PICK n \in Nat \ {0} : n = Len(BucketSizes) /\ Buckets = 1 .. n /\ b \in 1 .. n
  BY Constants
<1>2. PICK N \in Nat \ {0} : N = BlocksPerBucket /\ s \in Nat \ {0}
  BY Constants
<1>3. PICK B \in Nat : B = Base[b]
  BY <1>1, BaseGrows
<1>4. Base[b + 1] = B + N * s /\ N * s \in Nat /\ Base[b + 1] \in Nat
  BY <1>2, <1>3, BaseStep
<1>5. Base[b + 1] <= Top
  <2>1. n + 1 \in 1 .. Len(BucketSizes) + 1 /\ b < n + 1
    BY <1>1
  <2>2. Base[b] + BlocksPerBucket * BucketSizes[b] <= Base[n + 1]
    BY <2>1, BaseGrows
  <2>. QED BY <1>1, <2>2, BaseStep DEF Top
<1>6. HomeBlocks(b) = {B + k * s : k \in 0 .. N - 1}
  BY <1>2, <1>3 DEF HomeBlocks
<1>7. ASSUME NEW x \in HomeBlocks(b)  PROVE x \in Nat /\ B <= x /\ x + s <= B + N * s
  <2>1. PICK k \in 0 .. N - 1 : x = B + k * s
    BY <1>6
  <2>2. k * s \in Nat /\ k * s + s <= N * s
    BY <1>2
  <2>. QED BY <1>2, <1>4, <2>1, <2>2
<1>8. ASSUME NEW x \in HomeBlocks(b), NEW y \in HomeBlocks(b), x < y  PROVE x + s <= y
  <2>1. PICK i \in 0 .. N - 1 : x = B + i * s
    BY <1>6
  <2>2. PICK j \in 0 .. N - 1 : y = B + j * s
    BY <1>6
  <2>3. CASE i < j
    <3>1. i * s + s <= j * s /\ i * s \in Nat /\ j * s \in Nat
      BY <1>2, <2>3
    <3>. QED BY <1>2, <2>1, <2>2, <3>1
  <2>4. CASE j <= i
    <3>1. j * s <= i * s /\ i * s \in Nat /\ j * s \in Nat
      BY <1>2, <2>4
    <3>. QED BY <1>8, <2>1, <2>2, <3>1
  <2>. QED BY <2>3, <2>4
<1>9. ASSUME NEW u \in B .. B + N * s - 1  PROVE \E x \in HomeBlocks(b) : x <= u /\ u < x + s
  <2>1. PICK v \in Nat : v = u - B /\ v < N * s
    BY <1>4
  <2>2. PICK q \in Nat : q = v \div s
    BY <1>2, DivMod
  <2>3. PICK r \in 0 .. s - 1 : v = s * q + r
    <3>1. v = s * q + (v % s) /\ v % s \in 0 .. s - 1
      BY <1>2, <2>2, DivMod
    <3>. QED BY <3>1
  <2>4. s * q = q * s /\ q * s \in Nat
    BY <1>2
  <2>5. q < N
    <3>1. CASE N <= q
      <4>1. N * s <= q * s
        BY <1>2, <3>1
      <4>. QED BY <1>2, <1>4, <2>1, <2>3, <2>4, <4>1
    <3>. QED BY <3>1
  <2>6. B + q * s \in HomeBlocks(b)
    BY <1>6, <2>5
  <2>7. B + q * s <= u /\ u < B + q * s + s
    BY <1>2, <2>1, <2>3, <2>4
  <2>. QED BY <2>6, <2>7
<1>. QED BY <1>3, <1>4, <1>5, <1>7, <1>8, <1>9

\* Blocks of different buckets do not overlap.
LEMMA HomesApart ==
    ASSUME NEW b \in Buckets, NEW c \in Buckets, b < c,
           NEW x \in HomeBlocks(b), NEW y \in HomeBlocks(c)
    PROVE  x + BucketSizes[b] <= y
<1>1. x \in Nat /\ x + BucketSizes[b] <= Base[b + 1] /\ Base[b + 1] \in Nat
  BY HomeFacts
<1>2. y \in Nat /\ Base[c] <= y /\ Base[c] \in Nat
  BY HomeFacts
<1>3. c \in 1 .. Len(BucketSizes) + 1
  BY Constants
<1>4. Base[b + 1] <= Base[c]
  BY <1>3, BaseGrows, BaseStep
<1>5. BucketSizes[b] \in Nat
  BY Constants
<1>. QED BY <1>1, <1>2, <1>4, <1>5

\* Every unit below Top is in a block of some bucket.
LEMMA HomesCover ==
    ASSUME NEW u \in Nat, u < Top
    PROVE  \E b \in Buckets : \E x \in HomeBlocks(b) : x <= u /\ u < x + BucketSizes[b]
<1>1. PICK n \in Nat \ {0} : n = Len(BucketSizes) /\ Buckets = 1 .. n
  BY Constants
<1>. DEFINE T == {c \in 1 .. n + 1 : u < Base[c]}
<1>2. T \in SUBSET Nat /\ T # {}
  BY <1>1 DEF Top
<1>3. PICK m \in T : \A y \in T : m <= y
  <2>. HIDE DEF T
  <2>. QED BY <1>2, MinFacts
<1>4. m # 1
  BY BaseStep
<1>5. PICK b \in Buckets : m = b + 1
  BY <1>1, <1>4
<1>6. b \in 1 .. n + 1 /\ b < m
  BY <1>1, <1>5
<1>7. ~(u < Base[b])
  BY <1>3, <1>6
<1>8. Base[b] \in Nat /\ Base[b + 1] \in Nat
  BY HomeFacts
<1>9. u \in Base[b] .. Base[b + 1] - 1
  BY <1>5, <1>7, <1>8
<1>. QED BY <1>9, HomeFacts

-----------------------------------------------------------------------------
(***************************************************************************)
(* A bucket and its free list.                                             *)
(***************************************************************************)

\* Bucket::alloc hands out the first free block.
LEMMA BucketPop ==
    ASSUME NEW b \in Buckets, NEW f, NEW M, BucketOK(b, f, M), IsFiniteSet(M), f # <<>>,
           NEW x, x.addr = Head(f)
    PROVE  BucketOK(b, Tail(f), M \cup {x}) /\ x \notin M /\ x.addr \in HomeBlocks(b)
<1>. DEFINE g == Tail(f)
            N == M \cup {x}
<1>1. f \in Seq(Nat) /\ Len(f) \in Nat \ {0} /\ DOMAIN f = 1 .. Len(f) /\ 1 \in DOMAIN f
  BY DEF BucketOK
<1>2. /\ g \in Seq(Nat) /\ Len(g) = Len(f) - 1 /\ DOMAIN g = 1 .. Len(f) - 1
      /\ \A i \in DOMAIN g : i + 1 \in DOMAIN f /\ i + 1 # 1 /\ g[i] = f[i + 1]
  BY <1>1
<1>3. x.addr = f[1]
  BY <1>1
<1>4. ASSUME NEW i \in DOMAIN f, i # 1  PROVE \E j \in DOMAIN g : g[j] = f[i]
  <2>1. i - 1 \in DOMAIN g /\ (i - 1) + 1 = i
    BY <1>1, <1>2, <1>4
  <2>2. g[i - 1] = f[i]
    BY <1>2, <2>1
  <2>. QED BY <2>1, <2>2
<1>. HIDE DEF g
<1>5. x \notin M /\ \A y \in M : y.addr # x.addr
  BY <1>1, <1>3 DEF BucketOK
<1>6. x.addr \in HomeBlocks(b)
  BY <1>1, <1>3 DEF BucketOK
<1>7. \A i, j \in DOMAIN g : g[i] = g[j] => i = j
  <2>1. ASSUME NEW i \in DOMAIN g, NEW j \in DOMAIN g, g[i] = g[j]  PROVE i = j
    <3>1. i + 1 = j + 1
      BY <1>2, <2>1 DEF BucketOK
    <3>. QED BY <1>1, <1>2, <3>1
  <2>. QED BY <2>1
<1>8. \A y, z \in N : y.addr = z.addr => y = z
  BY <1>5 DEF BucketOK
<1>9. ASSUME NEW i \in DOMAIN g  PROVE g[i] \in HomeBlocks(b) /\ \A y \in N : y.addr # g[i]
  <2>1. g[i] = f[i + 1] /\ i + 1 \in DOMAIN f /\ i + 1 # 1
    BY <1>2
  <2>2. f[i + 1] # f[1]
    BY <1>1, <2>1 DEF BucketOK
  <2>. QED BY <1>3, <2>1, <2>2 DEF BucketOK
<1>10. \A y \in N : y.addr \in HomeBlocks(b)
  BY <1>6 DEF BucketOK
<1>11. ASSUME NEW a \in HomeBlocks(b)
       PROVE  (\E i \in DOMAIN g : g[i] = a) \/ (\E y \in N : y.addr = a)
  <2>1. CASE \E y \in M : y.addr = a
    BY <2>1
  <2>2. CASE \E i \in DOMAIN f : f[i] = a
    BY <1>3, <1>4, <2>2
  <2>. QED BY <2>1, <2>2 DEF BucketOK
<1>12. Len(g) + Cardinality(N) = BlocksPerBucket
  <2>1. Cardinality(N) = Cardinality(M) + 1 /\ Cardinality(M) \in Nat
    BY <1>5, FS_AddElement, FS_CardinalityType
  <2>2. Len(f) + Cardinality(M) = BlocksPerBucket
    BY DEF BucketOK
  <2>. HIDE DEF N
  <2>. QED BY <1>1, <1>2, <2>1, <2>2
<1>13. BucketOK(b, g, N)
  <2>. HIDE DEF N
  <2>. QED BY <1>2, <1>7, <1>8, <1>9, <1>10, <1>11, <1>12 DEF BucketOK
<1>. QED BY <1>5, <1>6, <1>13 DEF g

\* Bucket::dealloc puts the block in front of the list.
LEMMA BucketPush ==
    ASSUME NEW b \in Buckets, NEW f, NEW M, BucketOK(b, f, M), IsFiniteSet(M), NEW x \in M
    PROVE  BucketOK(b, <<x.addr>> \o f, M \ {x})
<1>. DEFINE g == <<x.addr>> \o f
            N == M \ {x}
<1>1. f \in Seq(Nat) /\ Len(f) \in Nat /\ DOMAIN f = 1 .. Len(f)
  BY DEF BucketOK
<1>2. x.addr \in HomeBlocks(b) /\ x.addr \in Nat
  BY HomeFacts DEF BucketOK
<1>3. /\ g \in Seq(Nat) /\ Len(g) = Len(f) + 1 /\ DOMAIN g = 1 .. Len(f) + 1 /\ g[1] = x.addr
      /\ \A i \in DOMAIN g : i # 1 => i - 1 \in DOMAIN f /\ g[i] = f[i - 1]
  BY <1>1, <1>2
<1>4. ASSUME NEW i \in DOMAIN f  PROVE \E j \in DOMAIN g : g[j] = f[i]
  <2>1. i + 1 \in DOMAIN g /\ (i + 1) - 1 = i /\ i + 1 # 1
    BY <1>1, <1>3
  <2>2. g[i + 1] = f[i]
    BY <1>3, <2>1
  <2>. QED BY <2>1, <2>2
<1>. HIDE DEF g
<1>5. \A i \in DOMAIN f : f[i] # x.addr
  BY DEF BucketOK
<1>6. ASSUME NEW i \in DOMAIN g, NEW j \in DOMAIN g, g[i] = g[j]  PROVE i = j
  <2>1. CASE i = 1 \/ j = 1
    BY <1>3, <1>5, <1>6, <2>1
  <2>2. CASE i # 1 /\ j # 1
    <3>1. i - 1 = j - 1
      BY <1>3, <1>6, <2>2 DEF BucketOK
    <3>. QED BY <1>1, <1>3, <3>1
  <2>. QED BY <2>1, <2>2
<1>7. \A y, z \in N : y.addr = z.addr => y = z
  BY DEF BucketOK
<1>8. \A y \in N : y.addr # x.addr /\ y.addr \in HomeBlocks(b)
  BY DEF BucketOK
<1>9. ASSUME NEW i \in DOMAIN g  PROVE g[i] \in HomeBlocks(b) /\ \A y \in N : y.addr # g[i]
  <2>1. CASE i = 1
    BY <1>2, <1>3, <1>8, <2>1
  <2>2. CASE i # 1
    BY <1>3, <2>2 DEF BucketOK
  <2>. QED BY <2>1, <2>2
<1>10. ASSUME NEW a \in HomeBlocks(b)
       PROVE  (\E i \in DOMAIN g : g[i] = a) \/ (\E y \in N : y.addr = a)
  <2>1. CASE \E y \in M : y.addr = a
    <3>1. 1 \in DOMAIN g
      BY <1>1, <1>3
    <3>. QED BY <1>3, <2>1, <3>1
  <2>2. CASE \E i \in DOMAIN f : f[i] = a
    BY <1>4, <2>2
  <2>. QED BY <2>1, <2>2 DEF BucketOK
<1>11. Len(g) + Cardinality(N) = BlocksPerBucket
  <2>1. Cardinality(N) = Cardinality(M) - 1 /\ Cardinality(M) \in Nat
    BY FS_RemoveElement, FS_CardinalityType
  <2>2. Len(f) + Cardinality(M) = BlocksPerBucket
    BY DEF BucketOK
  <2>. HIDE DEF N
  <2>. QED BY <1>1, <1>3, <2>1, <2>2
<1>12. BucketOK(b, g, N)
  <2>. HIDE DEF N
  <2>. QED BY <1>3, <1>6, <1>7, <1>8, <1>9, <1>10, <1>11 DEF BucketOK
<1>. QED BY <1>12 DEF g

-----------------------------------------------------------------------------
(***************************************************************************)
(* The list of regions.                                                    *)
(***************************************************************************)

\* The sequence t is rs, of elements of S, with mid in place of what lies
\* behind p and before q.
Spliced(S, rs, p, mid, q, t) ==
    /\ rs \in Seq(S) /\ mid \in Seq(S) /\ p \in 0 .. Len(rs) /\ q \in p + 1 .. Len(rs) + 1
    /\ t = SubSeq(rs, 1, p) \o mid \o SubSeq(rs, q, Len(rs))

\* The types of the parts of a spliced sequence.
LEMMA SpliceTypes ==
    ASSUME NEW S, NEW rs, NEW p, NEW mid, NEW q, NEW t, Spliced(S, rs, p, mid, q, t)
    PROVE  /\ rs \in Seq(S) /\ Len(rs) \in Nat /\ DOMAIN rs = 1 .. Len(rs)
           /\ mid \in Seq(S) /\ Len(mid) \in Nat /\ DOMAIN mid = 1 .. Len(mid)
           /\ p \in Nat /\ q \in Nat \ {0} /\ p <= Len(rs) /\ p < q /\ q <= Len(rs) + 1
<1>1. rs \in Seq(S) /\ mid \in Seq(S) /\ p \in 0 .. Len(rs) /\ q \in p + 1 .. Len(rs) + 1
  BY DEF Spliced
<1>2. Len(rs) \in Nat /\ Len(mid) \in Nat
  BY <1>1
<1>. QED BY <1>1, <1>2

\* Where the elements of a spliced sequence come from.
LEMMA SpliceFacts ==
    ASSUME NEW S, NEW rs, NEW p, NEW mid, NEW q, NEW t, Spliced(S, rs, p, mid, q, t)
    PROVE  /\ t \in Seq(S) /\ Len(t) = p + Len(mid) + (Len(rs) + 1 - q)
           /\ \A i \in 1 .. p : t[i] = rs[i]
           /\ \A i \in 1 .. Len(mid) : t[p + i] = mid[i]
           /\ \A i \in q .. Len(rs) : t[p + Len(mid) + (i + 1 - q)] = rs[i]
<1>. DEFINE u == SubSeq(rs, 1, p)
            w == SubSeq(rs, q, Len(rs))
<1>1. /\ Len(rs) \in Nat /\ Len(mid) \in Nat /\ p \in Nat /\ q \in Nat \ {0}
      /\ rs \in Seq(S) /\ mid \in Seq(S) /\ p <= Len(rs) /\ p < q /\ q <= Len(rs) + 1
  BY SpliceTypes
<1>2. u \in Seq(S) /\ Len(u) = p /\ \A i \in 1 .. p : u[i] = rs[i]
  <2>1. u = [i \in 1 .. p |-> rs[i]]
    BY <1>1
  <2>2. \A i \in 1 .. p : rs[i] \in S
    BY <1>1
  <2>. HIDE DEF u
  <2>. QED BY <1>1, <2>1, <2>2
<1>3. /\ w \in Seq(S) /\ Len(w) = Len(rs) + 1 - q
      /\ \A i \in 1 .. Len(rs) + 1 - q : w[i] = rs[q + i - 1]
  <2>1. w = [i \in 1 .. Len(rs) + 1 - q |-> rs[q + i - 1]]
    BY <1>1
  <2>2. \A i \in 1 .. Len(rs) + 1 - q : rs[q + i - 1] \in S
    <3>1. ASSUME NEW i \in 1 .. Len(rs) + 1 - q  PROVE q + i - 1 \in 1 .. Len(rs)
      BY <1>1
    <3>. QED BY <1>1, <3>1
  <2>3. Len(rs) + 1 - q \in Nat
    BY <1>1
  <2>. HIDE DEF w
  <2>. QED BY <2>1, <2>2, <2>3
<1>. HIDE DEF u, w
<1>4. PICK v : v = u \o mid
  OBVIOUS
<1>5. /\ v \in Seq(S) /\ Len(v) = p + Len(mid)
      /\ \A i \in 1 .. p + Len(mid) : v[i] = IF i <= p THEN u[i] ELSE mid[i - p]
  BY <1>1, <1>2, <1>4, ConcatProperties
<1>6. t = v \o w
  BY <1>4 DEF Spliced, u, w
<1>7. /\ t \in Seq(S) /\ Len(t) = Len(v) + Len(w)
      /\ \A i \in 1 .. Len(v) + Len(w) : t[i] = IF i <= Len(v) THEN v[i] ELSE w[i - Len(v)]
  <2>1. v \in Seq(S) /\ w \in Seq(S)
    BY <1>3, <1>5
  <2>. QED BY <1>6, <2>1, ConcatProperties
<1>8. ASSUME NEW i \in 1 .. p  PROVE t[i] = rs[i]
  <2>1. i \in 1 .. p + Len(mid) /\ i <= p /\ i \in 1 .. Len(v) + Len(w) /\ i <= Len(v)
    BY <1>1, <1>3, <1>5
  <2>. QED BY <1>2, <1>5, <1>7, <2>1
<1>9. ASSUME NEW i \in 1 .. Len(mid)  PROVE t[p + i] = mid[i]
  <2>1. p + i \in 1 .. p + Len(mid) /\ ~(p + i <= p) /\ (p + i) - p = i
    BY <1>1
  <2>2. p + i \in 1 .. Len(v) + Len(w) /\ p + i <= Len(v)
    BY <1>1, <1>3, <1>5
  <2>. QED BY <1>5, <1>7, <2>1, <2>2
<1>10. ASSUME NEW i \in q .. Len(rs)  PROVE t[p + Len(mid) + (i + 1 - q)] = rs[i]
  <2>1. PICK j : j = p + Len(mid) + (i + 1 - q)
    OBVIOUS
  <2>2. /\ j \in 1 .. Len(v) + Len(w) /\ ~(j <= Len(v)) /\ j - Len(v) = i + 1 - q
        /\ i + 1 - q \in 1 .. Len(rs) + 1 - q /\ q + (i + 1 - q) - 1 = i
    BY <1>1, <1>3, <1>5, <2>1
  <2>3. t[j] = w[i + 1 - q]
    BY <1>7, <2>2
  <2>. QED BY <1>3, <2>1, <2>2, <2>3
<1>. QED BY <1>3, <1>5, <1>7, <1>8, <1>9, <1>10

\* The elements of a spliced sequence, wherever they are.
LEMMA SpliceRange ==
    ASSUME NEW S, NEW rs, NEW p, NEW mid, NEW q, NEW t, Spliced(S, rs, p, mid, q, t)
    PROVE  /\ t \in Seq(S)
           /\ \A i \in DOMAIN t : \/ i \in 1 .. p /\ i \in DOMAIN rs /\ t[i] = rs[i]
                                  \/ \E m \in DOMAIN mid : i = p + m /\ t[i] = mid[m]
                                  \/ \E j \in DOMAIN rs : /\ j >= q /\ t[i] = rs[j]
                                                          /\ i = p + Len(mid) + (j + 1 - q)
           /\ \A j \in DOMAIN rs : j <= p \/ j >= q => \E i \in DOMAIN t : t[i] = rs[j]
           /\ \A m \in DOMAIN mid : \E i \in DOMAIN t : t[i] = mid[m]
<1>1. /\ t \in Seq(S) /\ Len(t) = p + Len(mid) + (Len(rs) + 1 - q)
      /\ \A i \in 1 .. p : t[i] = rs[i]
      /\ \A i \in 1 .. Len(mid) : t[p + i] = mid[i]
      /\ \A i \in q .. Len(rs) : t[p + Len(mid) + (i + 1 - q)] = rs[i]
  BY SpliceFacts
<1>2. /\ Len(rs) \in Nat /\ Len(mid) \in Nat /\ p \in Nat /\ q \in Nat \ {0}
      /\ p <= Len(rs) /\ p < q /\ q <= Len(rs) + 1
      /\ DOMAIN rs = 1 .. Len(rs) /\ DOMAIN mid = 1 .. Len(mid) /\ DOMAIN t = 1 .. Len(t)
  BY <1>1, SpliceTypes
<1>3. ASSUME NEW i \in DOMAIN t
      PROVE  \/ i \in 1 .. p /\ i \in DOMAIN rs /\ t[i] = rs[i]
             \/ \E m \in DOMAIN mid : i = p + m /\ t[i] = mid[m]
             \/ \E j \in DOMAIN rs : j >= q /\ t[i] = rs[j] /\ i = p + Len(mid) + (j + 1 - q)
  <2>1. CASE i <= p
    <3>1. i \in 1 .. p /\ i \in DOMAIN rs
      BY <1>1, <1>2, <2>1
    <3>. QED BY <1>1, <3>1
  <2>2. CASE p < i /\ i <= p + Len(mid)
    <3>1. i - p \in DOMAIN mid /\ i = p + (i - p)
      BY <1>1, <1>2, <2>2
    <3>2. t[p + (i - p)] = mid[i - p]
      BY <1>1, <1>2, <3>1
    <3>. QED BY <3>1, <3>2
  <2>3. CASE p + Len(mid) < i
    <3>1. PICK j : j = i - p - Len(mid) - 1 + q
      OBVIOUS
    <3>2. i \in Nat /\ i <= p + Len(mid) + (Len(rs) + 1 - q)
      BY <1>1, <1>2
    <3>5. PICK a \in Nat, b \in Nat : a = Len(mid) /\ b = Len(rs)
      BY <1>2
    <3>6. j \in Int /\ q <= j /\ j <= b /\ i = p + a + (j + 1 - q)
      <4>1. p \in Nat /\ q \in Nat /\ i \in Nat /\ i <= p + a + (b + 1 - q) /\ p + a < i
        BY <1>2, <2>3, <3>2, <3>5
      <4>2. j = i - p - a - 1 + q
        BY <3>1, <3>5
      <4>. QED BY <4>1, <4>2
    <3>4. j \in q .. Len(rs) /\ j \in DOMAIN rs /\ i = p + Len(mid) + (j + 1 - q)
      BY <1>2, <3>5, <3>6
    <3>3. t[i] = rs[j]
      BY <1>1, <3>4
    <3>. QED BY <3>3, <3>4
  <2>. QED BY <1>1, <1>2, <2>1, <2>2, <2>3
<1>4. ASSUME NEW j \in DOMAIN rs, j <= p \/ j >= q  PROVE \E i \in DOMAIN t : t[i] = rs[j]
  <2>1. CASE j <= p
    <3>1. j \in 1 .. p /\ j \in DOMAIN t
      BY <1>1, <1>2, <2>1
    <3>. QED BY <1>1, <3>1
  <2>2. CASE j >= q
    <3>1. PICK a \in Nat, b \in Nat : a = Len(mid) /\ b = Len(rs)
      BY <1>2
    <3>2. j \in Nat /\ j <= b /\ p \in Nat /\ q \in Nat /\ Len(t) = p + a + (b + 1 - q)
      BY <1>1, <1>2, <3>1
    <3>3. j \in q .. b /\ p + a + (j + 1 - q) \in 1 .. Len(t)
      BY <2>2, <3>1, <3>2
    <3>. QED BY <1>1, <1>2, <3>1, <3>3
  <2>. QED BY <1>4, <2>1, <2>2
<1>5. ASSUME NEW m \in DOMAIN mid  PROVE \E i \in DOMAIN t : t[i] = mid[m]
  <2>1. m \in 1 .. Len(mid) /\ p + m \in DOMAIN t
    BY <1>1, <1>2
  <2>. QED BY <1>1, <2>1
<1>. QED BY <1>1, <1>3, <1>4, <1>5

\* The spliced list is sorted if what is put in is, and lies between the rest.
LEMMA SpliceSorted ==
    ASSUME NEW rs, NEW p, NEW mid, NEW q, NEW t, Spliced(Region, rs, p, mid, q, t),
           Sorted(rs), Sorted(mid),
           \A j \in DOMAIN rs, m \in DOMAIN mid : j <= p => End(rs[j]) < mid[m].start,
           \A j \in DOMAIN rs, m \in DOMAIN mid : j >= q => End(mid[m]) < rs[j].start
    PROVE  t \in Seq(Region) /\ Sorted(t)
<1>1. /\ t \in Seq(Region)
      /\ \A i \in DOMAIN t : \/ i \in 1 .. p /\ i \in DOMAIN rs /\ t[i] = rs[i]
                             \/ \E m \in DOMAIN mid : i = p + m /\ t[i] = mid[m]
                             \/ \E j \in DOMAIN rs : /\ j >= q /\ t[i] = rs[j]
                                                     /\ i = p + Len(mid) + (j + 1 - q)
  BY SpliceRange
<1>2. /\ p \in Nat /\ q \in Nat /\ q > p /\ Len(mid) \in Nat
      /\ DOMAIN rs \subseteq Nat /\ DOMAIN mid = 1 .. Len(mid) /\ DOMAIN t \subseteq Nat
  BY <1>1, SpliceTypes
<1>3. ASSUME NEW i \in DOMAIN t, NEW j \in DOMAIN t, i < j  PROVE End(t[i]) < t[j].start
  <2>1. CASE i \in 1 .. p /\ i \in DOMAIN rs /\ t[i] = rs[i]
    <3>1. CASE j \in 1 .. p /\ j \in DOMAIN rs /\ t[j] = rs[j]
      BY <1>3, <2>1, <3>1 DEF Sorted
    <3>2. CASE \E m \in DOMAIN mid : j = p + m /\ t[j] = mid[m]
      BY <1>2, <2>1, <3>2
    <3>3. ASSUME NEW c \in DOMAIN rs, c >= q, t[j] = rs[c]  PROVE End(t[i]) < t[j].start
      <4>1. i < c
        BY <1>2, <2>1, <3>3
      <4>. QED BY <2>1, <3>3, <4>1 DEF Sorted
    <3>. QED BY <1>1, <3>1, <3>2, <3>3
  <2>2. ASSUME NEW m \in DOMAIN mid, i = p + m, t[i] = mid[m]  PROVE End(t[i]) < t[j].start
    <3>1. CASE j \in 1 .. p
      BY <1>2, <1>3, <2>2, <3>1
    <3>2. ASSUME NEW c \in DOMAIN mid, j = p + c, t[j] = mid[c]  PROVE End(t[i]) < t[j].start
      <4>1. m < c
        BY <1>2, <1>3, <2>2, <3>2
      <4>. QED BY <2>2, <3>2, <4>1 DEF Sorted
    <3>3. CASE \E c \in DOMAIN rs : c >= q /\ t[j] = rs[c]
      BY <2>2, <3>3
    <3>. QED BY <1>1, <3>1, <3>2, <3>3
  <2>3. ASSUME NEW c \in DOMAIN rs, c >= q, t[i] = rs[c], i = p + Len(mid) + (c + 1 - q)
        PROVE  End(t[i]) < t[j].start
    <3>1. CASE j \in 1 .. p
      BY <1>2, <1>3, <2>3, <3>1
    <3>2. CASE \E m \in DOMAIN mid : j = p + m
      BY <1>2, <1>3, <2>3, <3>2
    <3>3. ASSUME NEW d \in DOMAIN rs, t[j] = rs[d], j = p + Len(mid) + (d + 1 - q)
          PROVE  End(t[i]) < t[j].start
      <4>1. c < d
        BY <1>2, <1>3, <2>3, <3>3
      <4>. QED BY <2>3, <3>3, <4>1 DEF Sorted
    <3>. QED BY <1>1, <3>1, <3>2, <3>3
  <2>. QED BY <1>1, <2>1, <2>2, <2>3
<1>. QED BY <1>1, <1>3 DEF Sorted

\* The regions of a list, and the units they hold.
LEMMA RegionFacts ==
    ASSUME NEW r \in Region
    PROVE  r.start \in Nat /\ r.size \in Nat \ {0} /\ End(r) \in Nat /\ r.start < End(r)
BY DEF Region, End

\* The units of a block, by their bounds.
LEMMA UnitsIs ==
    ASSUME NEW a \in Nat, NEW n \in Nat
    PROVE  \A u : u \in Units(a, n) <=> u \in Nat /\ a <= u /\ u < a + n
BY DEF Units

\* The units of a list, by the bounds of its regions.
LEMMA FreeUnitsIs ==
    ASSUME NEW rs \in Seq(Region)
    PROVE  \A u : u \in FreeUnits(rs) <=>
                    u \in Nat /\ \E k \in DOMAIN rs : rs[k].start <= u /\ u < End(rs[k])
<1>1. ASSUME NEW k \in DOMAIN rs
      PROVE  \A u : u \in Units(rs[k].start, rs[k].size) <=>
                      u \in Nat /\ rs[k].start <= u /\ u < End(rs[k])
  <2>1. rs[k] \in Region
    OBVIOUS
  <2>2. rs[k].start \in Nat /\ rs[k].size \in Nat
    BY <2>1, RegionFacts
  <2>. QED BY <2>2, UnitsIs DEF End
<1>. QED BY <1>1 DEF FreeUnits

\* The block [at, at + n) can be cut from the region r.
Cuttable(r, at, n) ==
    r \in Region /\ at \in Nat /\ n \in Nat \ {0} /\ r.start <= at /\ at + n <= End(r)

\* What alloc_large leaves of a region lies in it, on either side of the block,
\* and is all of it if there is room for a header behind the block.
LEMMA RemainderFacts ==
    ASSUME NEW r, NEW at, NEW n, Cuttable(r, at, n), NEW mid, mid = Remainder(r, at, n)
    PROVE  /\ mid \in Seq(Region) /\ Sorted(mid)
           /\ \A m \in DOMAIN mid :
                 /\ (mid[m].start = r.start /\ End(mid[m]) = at) \/ mid[m].start = at + n
                 /\ End(mid[m]) = at \/ End(mid[m]) = End(r)
                 /\ r.start <= mid[m].start /\ End(mid[m]) <= End(r)
                 /\ End(mid[m]) <= at \/ at + n <= mid[m].start
           /\ at + n + Header <= End(r) => \A u \in Nat :
                 /\ r.start <= u /\ u < at =>
                       \E m \in DOMAIN mid : mid[m].start <= u /\ u < End(mid[m])
                 /\ at + n <= u /\ u < End(r) =>
                       \E m \in DOMAIN mid : mid[m].start <= u /\ u < End(mid[m])
<1>1. /\ r.start \in Nat /\ at \in Nat /\ n \in Nat \ {0} /\ End(r) \in Nat
      /\ r.start <= at /\ at + n <= End(r) /\ Header \in Nat \ {0}
  BY Constants, RegionFacts DEF Cuttable
<1>. DEFINE excess == End(r) - (at + n)
            rest == [start |-> at + n, size |-> excess]
            gap == [start |-> r.start, size |-> at - r.start]
<1>2. excess \in Nat /\ (excess >= Header <=> at + n + Header <= End(r))
  BY <1>1
<1>3. excess >= Header => rest \in Region /\ rest.start = at + n /\ End(rest) = End(r)
  BY <1>1 DEF Region, End
<1>4. at > r.start => gap \in Region /\ gap.start = r.start /\ End(gap) = at
  BY <1>1 DEF Region, End
<1>5. CASE excess < Header
  <2>1. mid = <<>>
    <3>1. ~(excess >= Header)
      BY <1>1, <1>2, <1>5
    <3>. QED BY <1>5, <3>1, Zenon DEF Remainder
  <2>. QED BY <1>1, <1>2, <1>5, <2>1 DEF Sorted
<1>6. CASE excess >= Header /\ at = r.start
  <2>1. mid = <<rest>>
    <3>1. ~(excess < Header) /\ ~(at > r.start)
      BY <1>1, <1>2, <1>6
    <3>. QED BY <1>6, <3>1, Zenon DEF Remainder
  <2>. HIDE DEF rest, excess
  <2>2. mid \in Seq(Region) /\ DOMAIN mid = {1} /\ mid[1] = rest
    <3>1. rest \in Region
      BY <1>3, <1>6
    <3>2. Len(mid) = 1 /\ mid[1] = rest /\ mid \in Seq(Region)
      BY <2>1, <3>1
    <3>. QED BY <3>2
  <2>3. Sorted(mid)
    BY <2>2 DEF Sorted
  <2>. QED BY <1>1, <1>2, <1>3, <1>6, <2>2, <2>3
<1>7. CASE excess >= Header /\ at > r.start
  <2>1. mid = <<gap, rest>>
    <3>1. ~(excess < Header) /\ ~(at = r.start)
      BY <1>1, <1>2, <1>7
    <3>. QED BY <1>7, <3>1, Zenon DEF Remainder
  <2>. HIDE DEF rest, gap, excess
  <2>2. mid \in Seq(Region) /\ DOMAIN mid = {1, 2} /\ mid[1] = gap /\ mid[2] = rest
    BY <1>3, <1>4, <1>7, <2>1
  <2>3. Sorted(mid)
    BY <1>1, <1>3, <1>4, <1>7, <2>2 DEF Sorted
  <2>4. \A m \in DOMAIN mid :
                 /\ (mid[m].start = r.start /\ End(mid[m]) = at) \/ mid[m].start = at + n
                 /\ End(mid[m]) = at \/ End(mid[m]) = End(r)
                 /\ r.start <= mid[m].start /\ End(mid[m]) <= End(r)
                 /\ End(mid[m]) <= at \/ at + n <= mid[m].start
    BY <1>1, <1>3, <1>4, <1>7, <2>2
  <2>. QED BY <1>1, <1>2, <1>3, <1>4, <1>7, <2>2, <2>3, <2>4
<1>. HIDE DEF excess, rest, gap
<1>. QED BY <1>1, <1>2, <1>5, <1>6, <1>7

\* The list t is rs without the block [at, at + n) of its region k.
CutFrom(rs, k, at, n, t) ==
    /\ rs \in Seq(Region) /\ Sorted(rs) /\ k \in DOMAIN rs /\ Cuttable(rs[k], at, n)
    /\ t = SubSeq(rs, 1, k - 1) \o Remainder(rs[k], at, n) \o SubSeq(rs, k + 1, Len(rs))

\* alloc_large takes the block out of the list and nothing else; no unit gets
\* lost if there is room for a header behind the block, or if it is the region.
LEMMA CutFacts ==
    ASSUME NEW rs, NEW k, NEW at, NEW n, NEW t, CutFrom(rs, k, at, n, t)
    PROVE  /\ t \in Seq(Region) /\ Sorted(t)
           /\ \A i \in DOMAIN t :
                 /\ t[i].start = at + n \/ \E j \in DOMAIN rs : t[i].start = rs[j].start
                 /\ End(t[i]) = at \/ \E j \in DOMAIN rs : End(t[i]) = End(rs[j])
           /\ Units(at, n) \subseteq FreeUnits(rs)
           /\ FreeUnits(t) \subseteq FreeUnits(rs) \ Units(at, n)
           /\ at + n + Header <= End(rs[k]) \/ (at = rs[k].start /\ at + n = End(rs[k])) =>
                 FreeUnits(rs) \subseteq FreeUnits(t) \cup Units(at, n)
<1>1. /\ rs \in Seq(Region) /\ Sorted(rs) /\ k \in DOMAIN rs /\ Cuttable(rs[k], at, n)
      /\ Len(rs) \in Nat /\ DOMAIN rs = 1 .. Len(rs)
  BY DEF CutFrom
<1>2. /\ rs[k].start \in Nat /\ End(rs[k]) \in Nat /\ at \in Nat /\ n \in Nat \ {0}
      /\ rs[k].start <= at /\ at + n <= End(rs[k])
  BY <1>1, RegionFacts DEF Cuttable
<1>3. PICK mid : mid = Remainder(rs[k], at, n)
  OBVIOUS
<1>4. /\ mid \in Seq(Region) /\ Sorted(mid)
      /\ \A m \in DOMAIN mid :
                 /\ (mid[m].start = rs[k].start /\ End(mid[m]) = at) \/ mid[m].start = at + n
                 /\ End(mid[m]) = at \/ End(mid[m]) = End(rs[k])
                 /\ rs[k].start <= mid[m].start /\ End(mid[m]) <= End(rs[k])
                 /\ End(mid[m]) <= at \/ at + n <= mid[m].start
      /\ at + n + Header <= End(rs[k]) => \A u \in Nat :
                 /\ rs[k].start <= u /\ u < at =>
                       \E m \in DOMAIN mid : mid[m].start <= u /\ u < End(mid[m])
                 /\ at + n <= u /\ u < End(rs[k]) =>
                       \E m \in DOMAIN mid : mid[m].start <= u /\ u < End(mid[m])
  BY <1>1, <1>3, RemainderFacts
<1>5. Spliced(Region, rs, k - 1, mid, k + 1, t)
  <2>1. k - 1 \in 0 .. Len(rs) /\ k + 1 \in (k - 1) + 1 .. Len(rs) + 1
    BY <1>1
  <2>. QED BY <1>1, <1>3, <1>4, <2>1 DEF Spliced, CutFrom
<1>6. ASSUME NEW j \in DOMAIN rs
      PROVE  /\ j \in Nat /\ k \in Nat /\ rs[j].start \in Nat /\ End(rs[j]) \in Nat
             /\ rs[j].start < End(rs[j])
             /\ j < k => End(rs[j]) < rs[k].start
             /\ k < j => End(rs[k]) < rs[j].start
  <2>1. rs[j] \in Region
    BY <1>1
  <2>. QED BY <1>1, <2>1, RegionFacts DEF Sorted
<1>7. ASSUME NEW m \in DOMAIN mid
      PROVE  mid[m].start \in Nat /\ End(mid[m]) \in Nat /\ mid[m].start < End(mid[m])
  <2>1. mid[m] \in Region
    BY <1>4
  <2>. QED BY <2>1, RegionFacts
<1>8. ASSUME NEW j \in DOMAIN rs, NEW m \in DOMAIN mid
      PROVE  /\ j <= k - 1 => End(rs[j]) < mid[m].start
             /\ j >= k + 1 => End(mid[m]) < rs[j].start
  <2>1. /\ rs[k].start <= mid[m].start /\ End(mid[m]) <= End(rs[k])
        /\ mid[m].start \in Nat /\ End(mid[m]) \in Nat
    BY <1>4, <1>7
  <2>2. /\ j \in Nat /\ k \in Nat /\ rs[j].start \in Nat /\ End(rs[j]) \in Nat
        /\ j < k => End(rs[j]) < rs[k].start
        /\ k < j => End(rs[k]) < rs[j].start
    BY <1>6
  <2>. QED BY <1>2, <2>1, <2>2
<1>10. t \in Seq(Region) /\ Sorted(t)
  <2>1. \A j \in DOMAIN rs, m \in DOMAIN mid : j <= k - 1 => End(rs[j]) < mid[m].start
    BY <1>8
  <2>2. \A j \in DOMAIN rs, m \in DOMAIN mid : j >= k + 1 => End(mid[m]) < rs[j].start
    BY <1>8
  <2>3. Sorted(rs) /\ Sorted(mid)
    BY <1>1, <1>4
  <2>. QED BY <1>5, <2>1, <2>2, <2>3, SpliceSorted
<1>11. /\ \A i \in DOMAIN t : \/ \E m \in DOMAIN mid : t[i] = mid[m]
                              \/ \E j \in DOMAIN rs : j # k /\ t[i] = rs[j]
       /\ \A j \in DOMAIN rs : j # k => \E i \in DOMAIN t : t[i] = rs[j]
       /\ \A m \in DOMAIN mid : \E i \in DOMAIN t : t[i] = mid[m]
  <2>1. /\ \A i \in DOMAIN t : \/ i \in 1 .. k - 1 /\ i \in DOMAIN rs /\ t[i] = rs[i]
                               \/ \E m \in DOMAIN mid : i = k - 1 + m /\ t[i] = mid[m]
                               \/ \E j \in DOMAIN rs : /\ j >= k + 1 /\ t[i] = rs[j]
                                       /\ i = k - 1 + Len(mid) + (j + 1 - (k + 1))
        /\ \A j \in DOMAIN rs : j <= k - 1 \/ j >= k + 1 => \E i \in DOMAIN t : t[i] = rs[j]
        /\ \A m \in DOMAIN mid : \E i \in DOMAIN t : t[i] = mid[m]
    BY <1>5, SpliceRange
  <2>2. ASSUME NEW j \in DOMAIN rs
        PROVE  (j # k => j <= k - 1 \/ j >= k + 1) /\ (j \in 1 .. k - 1 \/ j >= k + 1 => j # k)
    BY <1>6
  <2>. QED BY <2>1, <2>2
<1>12. ASSUME NEW i \in DOMAIN t
       PROVE  /\ t[i].start = at + n \/ \E j \in DOMAIN rs : t[i].start = rs[j].start
              /\ End(t[i]) = at \/ \E j \in DOMAIN rs : End(t[i]) = End(rs[j])
  BY <1>1, <1>4, <1>11
<1>13. \A u : u \in FreeUnits(rs) <=>
                u \in Nat /\ \E j \in DOMAIN rs : rs[j].start <= u /\ u < End(rs[j])
  BY <1>1, FreeUnitsIs
<1>14. \A u : u \in FreeUnits(t) <=>
                u \in Nat /\ \E i \in DOMAIN t : t[i].start <= u /\ u < End(t[i])
  BY <1>10, FreeUnitsIs
<1>15. \A u : u \in Units(at, n) <=> u \in Nat /\ at <= u /\ u < at + n
  BY <1>2, UnitsIs
<1>16. ASSUME NEW u \in Units(at, n)  PROVE u \in FreeUnits(rs)
  <2>1. u \in Nat /\ rs[k].start <= u /\ u < End(rs[k])
    BY <1>2, <1>15
  <2>. QED BY <1>1, <1>13, <2>1
<1>17. ASSUME NEW u \in FreeUnits(t)  PROVE u \in FreeUnits(rs) /\ u \notin Units(at, n)
  <2>1. PICK i \in DOMAIN t : u \in Nat /\ t[i].start <= u /\ u < End(t[i])
    BY <1>14
  <2>2. ASSUME NEW j \in DOMAIN rs, j # k, t[i] = rs[j]
        PROVE  u \in FreeUnits(rs) /\ u \notin Units(at, n)
    <3>1. u < rs[k].start \/ End(rs[k]) <= u
      BY <1>2, <1>6, <2>1, <2>2
    <3>2. u \notin Units(at, n)
      BY <1>2, <1>15, <2>1, <3>1
    <3>. QED BY <1>13, <2>1, <2>2, <3>2
  <2>3. ASSUME NEW m \in DOMAIN mid, t[i] = mid[m]
        PROVE  u \in FreeUnits(rs) /\ u \notin Units(at, n)
    <3>1. rs[k].start <= u /\ u < End(rs[k]) /\ (u < at \/ at + n <= u)
      BY <1>2, <1>4, <1>7, <2>1, <2>3
    <3>2. u \notin Units(at, n)
      BY <1>2, <1>15, <2>1, <3>1
    <3>. QED BY <1>1, <1>13, <2>1, <3>1, <3>2
  <2>. QED BY <1>11, <2>2, <2>3
<1>18. ASSUME at + n + Header <= End(rs[k]) \/ (at = rs[k].start /\ at + n = End(rs[k])),
              NEW u \in FreeUnits(rs)
       PROVE  u \in FreeUnits(t) \cup Units(at, n)
  <2>1. PICK j \in DOMAIN rs : u \in Nat /\ rs[j].start <= u /\ u < End(rs[j])
    BY <1>13
  <2>2. CASE j # k
    BY <1>11, <1>14, <2>1, <2>2
  <2>3. CASE j = k /\ at <= u /\ u < at + n
    BY <1>15, <2>1, <2>3
  <2>4. CASE j = k /\ (u < at \/ at + n <= u)
    <3>1. at + n + Header <= End(rs[k])
      BY <1>2, <1>18, <2>1, <2>4
    <3>2. PICK m \in DOMAIN mid : mid[m].start <= u /\ u < End(mid[m])
      BY <1>4, <2>1, <2>4, <3>1
    <3>. QED BY <1>11, <1>14, <2>1, <3>2
  <2>. QED BY <1>2, <2>1, <2>2, <2>3, <2>4
<1>. QED BY <1>10, <1>12, <1>16, <1>17, <1>18

\* In a sorted list the regions that start below a come first.
LEMMA Before ==
    ASSUME NEW rs \in Seq(Region), Sorted(rs), NEW a \in Nat,
           NEW k, k = Cardinality({j \in DOMAIN rs : rs[j].start < a})
    PROVE  k \in 0 .. Len(rs) /\ \A j \in DOMAIN rs : j <= k <=> rs[j].start < a
<1>. DEFINE T == {j \in DOMAIN rs : rs[j].start >= a}
<1>1. Len(rs) \in Nat /\ DOMAIN rs = 1 .. Len(rs) /\ DOMAIN rs \subseteq Nat
  OBVIOUS
<1>2. ASSUME NEW j \in DOMAIN rs
      PROVE  rs[j].start \in Nat /\ End(rs[j]) \in Nat /\ rs[j].start < End(rs[j])
  BY RegionFacts
<1>3. SUFFICES \E m \in 0 .. Len(rs) : \A j \in DOMAIN rs : j <= m <=> rs[j].start < a
  <2>1. ASSUME NEW m \in 0 .. Len(rs), \A j \in DOMAIN rs : j <= m <=> rs[j].start < a
        PROVE  k = m
    <3>1. {j \in DOMAIN rs : rs[j].start < a} = 1 .. m
      BY <1>1, <2>1
    <3>2. m \in Nat /\ Cardinality(1 .. m) = m
      BY <1>1, FS_Interval
    <3>. QED BY <3>1, <3>2
  <2>. QED BY <2>1
<1>4. CASE T = {}
  <2>1. \A j \in DOMAIN rs : j <= Len(rs) /\ rs[j].start < a
    BY <1>1, <1>2, <1>4
  <2>2. Len(rs) \in 0 .. Len(rs)
    BY <1>1
  <2>. QED BY <2>1, <2>2
<1>5. CASE T # {}
  <2>1. PICK c \in T : \A y \in T : c <= y
    <3>1. T \in SUBSET Nat
      BY <1>1
    <3>. HIDE DEF T
    <3>. QED BY <1>5, <3>1, MinFacts
  <2>2. c \in 1 .. Len(rs) /\ c \in Nat /\ c - 1 \in 0 .. Len(rs)
    BY <1>1, <2>1
  <2>3. ASSUME NEW j \in DOMAIN rs  PROVE j <= c - 1 <=> rs[j].start < a
    <3>1. CASE j < c
      <4>1. j \notin T
        BY <1>1, <2>1, <2>2, <3>1
      <4>. QED BY <1>1, <1>2, <2>2, <3>1, <4>1
    <3>2. CASE j = c
      BY <1>1, <1>2, <2>1, <2>2, <3>2
    <3>3. CASE c < j
      <4>1. End(rs[c]) < rs[j].start
        BY <2>1, <3>3 DEF Sorted
      <4>2. rs[c].start >= a
        BY <2>1
      <4>. QED BY <1>1, <1>2, <2>1, <2>2, <3>3, <4>1, <4>2
    <3>. QED BY <1>1, <2>2, <3>1, <3>2, <3>3
  <2>. QED BY <2>2, <2>3
<1>. QED BY <1>4, <1>5

\* The list rs and a region r that is in none of its regions.
PutInto(rs, r) ==
    /\ rs \in Seq(Region) /\ Sorted(rs) /\ r \in Region
    /\ Units(r.start, r.size) \cap FreeUnits(rs) = {}

\* Such a region lies behind the first k of them and in front of the others.
LEMMA PutBetween ==
    ASSUME NEW rs, NEW r, PutInto(rs, r),
           NEW k, k = Cardinality({j \in DOMAIN rs : rs[j].start < r.start})
    PROVE  /\ k \in 0 .. Len(rs)
           /\ \A j \in DOMAIN rs : j <= k => End(rs[j]) <= r.start
           /\ \A j \in DOMAIN rs : j > k => End(r) <= rs[j].start
<1>1. rs \in Seq(Region) /\ Sorted(rs) /\ r \in Region
  BY DEF PutInto
<1>2. /\ r.start \in Nat /\ r.size \in Nat /\ End(r) \in Nat /\ r.start < End(r)
      /\ End(r) = r.start + r.size
  BY <1>1, RegionFacts DEF End
<1>3. k \in 0 .. Len(rs) /\ \A j \in DOMAIN rs : j <= k <=> rs[j].start < r.start
  BY <1>1, <1>2, Before
<1>4. ASSUME NEW j \in DOMAIN rs
      PROVE  (j <= k => End(rs[j]) <= r.start) /\ (j > k => End(r) <= rs[j].start)
  <2>1. rs[j].start \in Nat /\ End(rs[j]) \in Nat /\ rs[j].start < End(rs[j])
    <3>1. rs[j] \in Region
      BY <1>1
    <3>. QED BY <3>1, RegionFacts
  <2>2. \A u \in Nat : ~(r.start <= u /\ u < End(r) /\ rs[j].start <= u /\ u < End(rs[j]))
    <3>1. \A u : u \in Units(r.start, r.size) <=> u \in Nat /\ r.start <= u /\ u < End(r)
      BY <1>2, UnitsIs
    <3>2. \A u : u \in FreeUnits(rs) <=>
                   u \in Nat /\ \E i \in DOMAIN rs : rs[i].start <= u /\ u < End(rs[i])
      BY <1>1, FreeUnitsIs
    <3>. QED BY <3>1, <3>2 DEF PutInto
  <2>3. ~(rs[j].start < r.start) \/ End(rs[j]) <= r.start
    BY <1>2, <2>1, <2>2
  <2>4. rs[j].start < r.start \/ End(r) <= rs[j].start
    BY <1>2, <2>1, <2>2
  <2>5. j \in Nat /\ k \in Nat
    BY <1>1, <1>3
  <2>6. j <= k <=> rs[j].start < r.start
    BY <1>3
  <2>7. j > k <=> ~(j <= k)
    BY <2>5
  <2>. QED BY <2>3, <2>4, <2>6, <2>7, Zenon
<1>. QED BY <1>3, <1>4

\* dealloc_large adds the region to the list and nothing else, and merges it
\* with every region it touches.
LEMMA InsertFacts ==
    ASSUME NEW rs, NEW r, PutInto(rs, r), NEW t, t = Insert(rs, r)
    PROVE  /\ t \in Seq(Region) /\ Sorted(t)
           /\ \A i \in DOMAIN t :
                 /\ t[i].start = r.start \/ \E j \in DOMAIN rs : t[i].start = rs[j].start
                 /\ End(t[i]) = End(r) \/ \E j \in DOMAIN rs : End(t[i]) = End(rs[j])
           /\ FreeUnits(t) = FreeUnits(rs) \cup Units(r.start, r.size)
<1>1. /\ rs \in Seq(Region) /\ Sorted(rs) /\ r \in Region
      /\ Len(rs) \in Nat /\ DOMAIN rs = 1 .. Len(rs)
  BY DEF PutInto
<1>2. /\ r.start \in Nat /\ r.size \in Nat /\ End(r) \in Nat /\ r.start < End(r)
      /\ End(r) = r.start + r.size
  BY <1>1, RegionFacts DEF End
<1>3. PICK k : k = Cardinality({j \in DOMAIN rs : rs[j].start < r.start})
  OBVIOUS
<1>4. /\ k \in 0 .. Len(rs) /\ k \in Nat
      /\ \A j \in DOMAIN rs : j <= k => End(rs[j]) <= r.start
      /\ \A j \in DOMAIN rs : j > k => End(r) <= rs[j].start
  <2>1. /\ k \in 0 .. Len(rs)
        /\ \A j \in DOMAIN rs : j <= k => End(rs[j]) <= r.start
        /\ \A j \in DOMAIN rs : j > k => End(r) <= rs[j].start
    BY <1>3, PutBetween
  <2>2. k \in Nat
    BY <1>1, <2>1
  <2>. QED BY <2>1, <2>2
<1>5. ASSUME NEW j \in DOMAIN rs
      PROVE  /\ j \in Nat /\ rs[j].start \in Nat /\ End(rs[j]) \in Nat
             /\ rs[j].start < End(rs[j])
             /\ \A i \in DOMAIN rs : i < j => End(rs[i]) < rs[j].start
  <2>1. rs[j] \in Region
    BY <1>1
  <2>. QED BY <1>1, <2>1, RegionFacts DEF Sorted
<1>. DEFINE left == k > 0 /\ End(rs[k]) = r.start
            right == k < Len(rs) /\ End(r) = rs[k + 1].start
            start == IF left THEN rs[k].start ELSE r.start
            end == IF right THEN End(rs[k + 1]) ELSE End(r)
            w == [start |-> start, size |-> end - start]
            p == IF left THEN k - 1 ELSE k
            q == IF right THEN k + 2 ELSE k + 1
<1>6. (left => k \in DOMAIN rs) /\ (k < Len(rs) => k + 1 \in DOMAIN rs /\ k + 1 > k)
  BY <1>1, <1>4
<1>7. ~(k < Len(rs) /\ rs[k + 1].start = r.start)
  <2>1. SUFFICES ASSUME k < Len(rs), rs[k + 1].start = r.start  PROVE FALSE
    OBVIOUS
  <2>2. k + 1 \in DOMAIN rs /\ k + 1 > k
    BY <1>6, <2>1
  <2>3. End(r) <= r.start
    BY <1>4, <2>1, <2>2
  <2>. QED BY <1>2, <2>3
<1>8. t = SubSeq(rs, 1, p) \o <<w>> \o SubSeq(rs, q, Len(rs))
  BY <1>3, <1>7, Zenon DEF Insert
<1>9. start \in Nat /\ start <= r.start
  BY <1>2, <1>4, <1>5, <1>6
<1>10. end \in Nat /\ End(r) <= end
  <2>1. CASE right
    <3>1. k + 1 \in DOMAIN rs
      BY <1>6, <2>1
    <3>. QED BY <1>2, <1>5, <2>1, <3>1
  <2>2. CASE ~right
    BY <1>2, <2>2
  <2>. QED BY <2>1, <2>2
<1>11. p \in 0 .. Len(rs) /\ q \in p + 1 .. Len(rs) + 1 /\ p \in Nat /\ q \in Nat
  <2>1. p \in 0 .. Len(rs) /\ p <= k /\ p \in Nat
    BY <1>1, <1>4
  <2>2. q \in k + 1 .. Len(rs) + 1 /\ q \in Nat
    BY <1>1, <1>4
  <2>. HIDE DEF p, q
  <2>. QED BY <1>1, <1>4, <2>1, <2>2
<1>12. w \in Region /\ w.start = start /\ End(w) = end
  <2>. HIDE DEF start, end
  <2>. QED BY <1>2, <1>9, <1>10 DEF Region, End
<1>13. \A j \in DOMAIN rs : j <= p => End(rs[j]) < start
  <2>1. SUFFICES ASSUME NEW j \in DOMAIN rs, j <= p  PROVE End(rs[j]) < start
    OBVIOUS
  <2>2. CASE left
    <3>1. k \in DOMAIN rs /\ j < k
      BY <1>4, <1>5, <1>6, <2>1, <2>2
    <3>. QED BY <1>5, <2>2, <3>1
  <2>3. CASE ~left
    <3>1. j \in Nat /\ j <= k /\ End(rs[j]) <= r.start /\ End(rs[j]) \in Nat
      BY <1>4, <1>5, <2>1, <2>3
    <3>2. j = k => End(rs[j]) # r.start
      BY <1>1, <1>4, <2>3
    <3>3. ASSUME j # k  PROVE End(rs[j]) < r.start
      <4>1. k \in DOMAIN rs /\ j < k
        BY <1>1, <1>4, <3>1, <3>3
      <4>2. End(rs[j]) < rs[k].start /\ rs[k].start < End(rs[k]) /\ End(rs[k]) <= r.start
        BY <1>4, <1>5, <4>1
      <4>3. rs[k].start \in Nat /\ End(rs[k]) \in Nat
        BY <1>5, <4>1
      <4>. QED BY <1>2, <3>1, <4>2, <4>3
    <3>4. End(rs[j]) < r.start
      BY <1>2, <3>1, <3>2, <3>3
    <3>. QED BY <2>3, <3>4
  <2>. QED BY <2>2, <2>3
<1>14. \A j \in DOMAIN rs : j >= q => end < rs[j].start
  <2>1. SUFFICES ASSUME NEW j \in DOMAIN rs, j >= q  PROVE end < rs[j].start
    OBVIOUS
  <2>2. CASE right
    <3>1. k + 1 \in DOMAIN rs /\ k + 1 < j
      BY <1>4, <1>5, <1>6, <2>1, <2>2
    <3>. QED BY <1>5, <2>2, <3>1
  <2>3. CASE ~right
    <3>1. j \in Nat /\ j > k /\ k < Len(rs) /\ End(r) <= rs[j].start /\ rs[j].start \in Nat
      <4>1. j \in Nat /\ j > k /\ j <= Len(rs)
        BY <1>1, <1>4, <2>1, <2>3
      <4>. QED BY <1>1, <1>4, <1>5, <4>1
    <3>2. j = k + 1 => rs[j].start # End(r)
      BY <2>3, <3>1
    <3>3. ASSUME j # k + 1  PROVE End(r) < rs[j].start
      <4>1. k + 1 \in DOMAIN rs /\ k + 1 < j
        BY <1>4, <1>6, <3>1, <3>3
      <4>2. End(rs[k + 1]) < rs[j].start /\ rs[k + 1].start < End(rs[k + 1])
        BY <1>5, <4>1
      <4>3. End(r) <= rs[k + 1].start
        BY <1>4, <1>6, <3>1
      <4>4. rs[k + 1].start \in Nat /\ End(rs[k + 1]) \in Nat
        BY <1>5, <4>1
      <4>. QED BY <1>2, <3>1, <4>2, <4>3, <4>4
    <3>4. End(r) < rs[j].start
      BY <1>2, <3>1, <3>2, <3>3
    <3>. QED BY <2>3, <3>4
  <2>. QED BY <2>2, <2>3
<1>15. ASSUME NEW u \in Nat
       PROVE  start <= u /\ u < end <=>
                 \/ r.start <= u /\ u < End(r)
                 \/ left /\ rs[k].start <= u /\ u < End(rs[k])
                 \/ right /\ rs[k + 1].start <= u /\ u < End(rs[k + 1])
  <2>1. left => rs[k].start \in Nat /\ rs[k].start < r.start /\ End(rs[k]) = r.start
    BY <1>5, <1>6
  <2>2. right => /\ End(rs[k + 1]) \in Nat /\ End(r) < End(rs[k + 1])
                 /\ rs[k + 1].start = End(r)
    <3>1. right => k + 1 \in DOMAIN rs
      BY <1>6
    <3>. QED BY <1>5, <3>1
  <2>3. CASE left /\ right
    BY <1>2, <2>1, <2>2, <2>3
  <2>4. CASE left /\ ~right
    BY <1>2, <2>1, <2>4
  <2>5. CASE ~left /\ right
    BY <1>2, <2>2, <2>5
  <2>6. CASE ~left /\ ~right
    BY <2>6
  <2>. QED BY <2>3, <2>4, <2>5, <2>6
<1>16. ASSUME NEW j \in DOMAIN rs
       PROVE  j <= p \/ j >= q \/ (left /\ j = k) \/ (right /\ j = k + 1)
  BY <1>4, <1>5
<1>17. /\ start = r.start \/ \E j \in DOMAIN rs : start = rs[j].start
       /\ end = End(r) \/ \E j \in DOMAIN rs : end = End(rs[j])
  BY <1>6
<1>18. (left => k \in DOMAIN rs) /\ (right => k + 1 \in DOMAIN rs)
  BY <1>6
<1>. HIDE DEF left, right, start, end, w, p, q
<1>19. PICK mid : mid = <<w>>
  OBVIOUS
<1>20. mid \in Seq(Region) /\ DOMAIN mid = {1} /\ mid[1] = w
  <2>1. Len(mid) = 1 /\ mid[1] = w /\ mid \in Seq(Region)
    BY <1>12, <1>19
  <2>. QED BY <2>1
<1>21. Spliced(Region, rs, p, mid, q, t)
  BY <1>1, <1>8, <1>11, <1>19, <1>20 DEF Spliced
<1>22. t \in Seq(Region) /\ Sorted(t)
  <2>1. Sorted(mid)
    BY <1>20 DEF Sorted
  <2>2. \A j \in DOMAIN rs, m \in DOMAIN mid : j <= p => End(rs[j]) < mid[m].start
    BY <1>12, <1>13, <1>20
  <2>3. \A j \in DOMAIN rs, m \in DOMAIN mid : j >= q => End(mid[m]) < rs[j].start
    BY <1>12, <1>14, <1>20
  <2>. QED BY <1>1, <1>21, <2>1, <2>2, <2>3, SpliceSorted
<1>23. /\ \A i \in DOMAIN t : t[i] = w \/ \E j \in DOMAIN rs : t[i] = rs[j]
       /\ \A j \in DOMAIN rs : j <= p \/ j >= q => \E i \in DOMAIN t : t[i] = rs[j]
       /\ \E i \in DOMAIN t : t[i] = w
  <2>1. /\ \A i \in DOMAIN t : \/ i \in 1 .. p /\ i \in DOMAIN rs /\ t[i] = rs[i]
                               \/ \E m \in DOMAIN mid : i = p + m /\ t[i] = mid[m]
                               \/ \E j \in DOMAIN rs : /\ j >= q /\ t[i] = rs[j]
                                                       /\ i = p + Len(mid) + (j + 1 - q)
        /\ \A j \in DOMAIN rs : j <= p \/ j >= q => \E i \in DOMAIN t : t[i] = rs[j]
        /\ \A m \in DOMAIN mid : \E i \in DOMAIN t : t[i] = mid[m]
    BY <1>21, SpliceRange
  <2>2. ASSUME NEW i \in DOMAIN t  PROVE t[i] = w \/ \E j \in DOMAIN rs : t[i] = rs[j]
    BY <1>20, <2>1
  <2>3. \E i \in DOMAIN t : t[i] = w
    BY <1>20, <2>1
  <2>. QED BY <2>1, <2>2, <2>3, Zenon
<1>24. ASSUME NEW i \in DOMAIN t
       PROVE  /\ t[i].start = r.start \/ \E j \in DOMAIN rs : t[i].start = rs[j].start
              /\ End(t[i]) = End(r) \/ \E j \in DOMAIN rs : End(t[i]) = End(rs[j])
  BY <1>12, <1>17, <1>23
<1>25. \A u : u \in FreeUnits(rs) <=>
                u \in Nat /\ \E j \in DOMAIN rs : rs[j].start <= u /\ u < End(rs[j])
  BY <1>1, FreeUnitsIs
<1>26. \A u : u \in FreeUnits(t) <=>
                u \in Nat /\ \E i \in DOMAIN t : t[i].start <= u /\ u < End(t[i])
  BY <1>22, FreeUnitsIs
<1>27. \A u : u \in Units(r.start, r.size) <=> u \in Nat /\ r.start <= u /\ u < End(r)
  BY <1>2, UnitsIs
<1>28. ASSUME NEW u \in FreeUnits(t)  PROVE u \in FreeUnits(rs) \cup Units(r.start, r.size)
  <2>1. PICK i \in DOMAIN t : u \in Nat /\ t[i].start <= u /\ u < End(t[i])
    BY <1>26
  <2>2. CASE t[i] = w
    BY <1>12, <1>15, <1>18, <1>25, <1>27, <2>1, <2>2
  <2>3. CASE \E j \in DOMAIN rs : t[i] = rs[j]
    BY <1>25, <2>1, <2>3
  <2>. QED BY <1>23, <2>2, <2>3
<1>29. ASSUME NEW u \in FreeUnits(rs) \cup Units(r.start, r.size)  PROVE u \in FreeUnits(t)
  <2>1. CASE u \in Nat /\ start <= u /\ u < end
    BY <1>12, <1>23, <1>26, <2>1
  <2>2. CASE u \in Units(r.start, r.size)
    BY <1>15, <1>27, <2>1, <2>2
  <2>3. ASSUME NEW j \in DOMAIN rs, u \in Nat, rs[j].start <= u, u < End(rs[j])
        PROVE  u \in FreeUnits(t)
    <3>1. CASE j <= p \/ j >= q
      BY <1>23, <1>26, <2>3, <3>1
    <3>2. CASE (left /\ j = k) \/ (right /\ j = k + 1)
      BY <1>15, <2>1, <2>3, <3>2
    <3>. QED BY <1>16, <3>1, <3>2
  <2>. QED BY <1>25, <2>2, <2>3
<1>. QED BY <1>22, <1>24, <1>28, <1>29

-----------------------------------------------------------------------------
(***************************************************************************)
(* Blocks and the region list.                                             *)
(***************************************************************************)

\* What a request needs, and the bucket that serves it.
LEMMA LayoutFacts ==
    ASSUME NEW l, l.size \in Nat \ {0}, l.align \in Nat \ {0}
    PROVE  /\ Needs(l) \in Nat \ {0} /\ l.size <= Needs(l) /\ Word <= Needs(l)
           /\ Align(l) \in Nat \ {0} /\ l.align <= Align(l) /\ Word <= Align(l)
           /\ Align(l) = l.align \/ (Align(l) = Word /\ l.align < Word)
           /\ Small(l) => BucketOf(l) \in Buckets /\ Needs(l) <= BucketSizes[BucketOf(l)]
<1>1. /\ Needs(l) \in Nat \ {0} /\ l.size <= Needs(l) /\ Word <= Needs(l)
      /\ Align(l) \in Nat \ {0} /\ l.align <= Align(l) /\ Word <= Align(l)
      /\ Align(l) = l.align \/ (Align(l) = Word /\ l.align < Word)
  BY Constants DEF Needs, Align, AtLeast
<1>2. ASSUME Small(l)
      PROVE  BucketOf(l) \in Buckets /\ Needs(l) <= BucketSizes[BucketOf(l)]
  <2>1. PICK F : F = Fitting(Needs(l))
    OBVIOUS
  <2>2. F \in SUBSET Nat /\ F # {}
    BY <1>2, <2>1, Constants DEF Fitting, Small
  <2>3. Min(F) \in F
    BY <2>2, MinFacts
  <2>. QED BY <2>1, <2>3 DEF BucketOf, bucket_index, Fitting
<1>. QED BY <1>1, <1>2

\* A block has the needs of the layout it was requested with.
LEMMA SameLayout ==
    ASSUME NEW l, NEW a, NEW x, x = [addr |-> a, size |-> l.size, align |-> l.align]
    PROVE  /\ x.addr = a /\ x.size = l.size /\ x.align = l.align
           /\ Needs(x) = Needs(l) /\ Align(x) = Align(l)
           /\ Small(x) = Small(l) /\ BucketOf(x) = BucketOf(l)
<1>1. x.addr = a /\ x.size = l.size /\ x.align = l.align
  OBVIOUS
<1>. QED BY <1>1 DEF Needs, Align, Small, BucketOf

\* Cutting a block from the list keeps it sound, whoever the block is for.
LEMMA ListCut ==
    ASSUME NEW rs, NEW k, NEW at, NEW n, NEW t, CutFrom(rs, k, at, n, t),
           NEW M, ListOK(rs, M), NEW x, x.addr = at, Needs(x) = n
    PROVE  ListOK(t, M) /\ ListOK(t, M \cup {x})
<1>1. /\ t \in Seq(Region) /\ Sorted(t)
      /\ Units(at, n) \subseteq FreeUnits(rs)
      /\ FreeUnits(t) \subseteq FreeUnits(rs) \ Units(at, n)
  BY CutFacts
<1>2. FreeUnits(t) \subseteq Top .. HeapSize - 1
  BY <1>1 DEF ListOK
<1>3. \A y \in M : Units(y.addr, Needs(y)) \subseteq (Top .. HeapSize - 1) \ FreeUnits(rs)
  BY DEF ListOK
<1>4. Units(x.addr, Needs(x)) \subseteq (Top .. HeapSize - 1) \ FreeUnits(t)
  BY <1>1 DEF ListOK
<1>5. \A y \in M : Units(y.addr, Needs(y)) \subseteq (Top .. HeapSize - 1) \ FreeUnits(t)
  BY <1>1, <1>3
<1>6. \A y \in M : Units(y.addr, Needs(y)) \cap Units(x.addr, Needs(x)) = {}
  BY <1>1, <1>3
<1>7. \A y, z \in M : y # z => Units(y.addr, Needs(y)) \cap Units(z.addr, Needs(z)) = {}
  BY DEF ListOK
<1>8. \A y, z \in M \cup {x} :
         y # z => Units(y.addr, Needs(y)) \cap Units(z.addr, Needs(z)) = {}
  BY <1>6, <1>7
<1>. QED BY <1>1, <1>2, <1>4, <1>5, <1>7, <1>8 DEF ListOK

\* The region that a block of the list becomes when it is freed.
Freed(x) == [start |-> x.addr, size |-> Needs(x)]

\* A block that was cut from the list can be put back into it.
LEMMA ListPut ==
    ASSUME NEW rs, NEW M, ListOK(rs, M), NEW x \in M, x \in Block
    PROVE  /\ x.addr + Needs(x) <= HeapSize
           /\ PutInto(rs, Freed(x))
           /\ ListOK(Insert(rs, Freed(x)), M \ {x})
<1>1. x.addr \in Nat /\ x.size \in Nat \ {0} /\ x.align \in Nat \ {0}
  BY DEF Block
<1>2. Needs(x) \in Nat \ {0}
  BY <1>1, LayoutFacts
<1>3. Units(x.addr, Needs(x)) \subseteq (Top .. HeapSize - 1) \ FreeUnits(rs)
  BY DEF ListOK
<1>4. x.addr + Needs(x) <= HeapSize
  <2>1. \A u : u \in Units(x.addr, Needs(x)) <=> u \in Nat /\ x.addr <= u /\ u < x.addr + Needs(x)
    BY <1>1, <1>2, UnitsIs
  <2>2. x.addr + Needs(x) - 1 \in Units(x.addr, Needs(x))
    BY <1>1, <1>2, <2>1
  <2>3. x.addr + Needs(x) - 1 \in Top .. HeapSize - 1
    BY <1>3, <2>2
  <2>. QED BY <1>1, <1>2, <2>3, Constants
<1>5. PICK r : r = Freed(x)
  OBVIOUS
<1>6. r \in Region /\ r.start = x.addr /\ r.size = Needs(x)
  BY <1>1, <1>2, <1>5 DEF Freed, Region
<1>7. PutInto(rs, r)
  BY <1>3, <1>6 DEF PutInto, ListOK
<1>8. PICK t : t = Insert(rs, r)
  OBVIOUS
<1>9. /\ t \in Seq(Region) /\ Sorted(t)
      /\ FreeUnits(t) = FreeUnits(rs) \cup Units(x.addr, Needs(x))
  BY <1>6, <1>7, <1>8, InsertFacts
<1>10. FreeUnits(t) \subseteq Top .. HeapSize - 1
  BY <1>3, <1>9 DEF ListOK
<1>11. \A y \in M \ {x} : Units(y.addr, Needs(y)) \subseteq (Top .. HeapSize - 1) \ FreeUnits(t)
  <2>1. ASSUME NEW y \in M \ {x}
        PROVE  /\ Units(y.addr, Needs(y)) \subseteq (Top .. HeapSize - 1) \ FreeUnits(rs)
               /\ Units(y.addr, Needs(y)) \cap Units(x.addr, Needs(x)) = {}
    BY DEF ListOK
  <2>. QED BY <1>9, <2>1
<1>12. ListOK(t, M \ {x})
  BY <1>9, <1>10, <1>11 DEF ListOK
<1>. QED BY <1>4, <1>5, <1>7, <1>8, <1>12

\* Cutting a multiple of a header at a multiple of a header keeps the list even.
LEMMA EvenCut ==
    ASSUME NEW rs, NEW k, NEW at, NEW n, NEW t, CutFrom(rs, k, at, n, t),
           NEW M, EvenOK(rs, M), NEW x, x.addr = at, Needs(x) = n,
           at % Header = 0, n % Header = 0
    PROVE  EvenOK(t, M \cup {x})
<1>1. at \in Nat /\ n \in Nat \ {0} /\ Header \in Nat \ {0}
  BY Constants DEF CutFrom, Cuttable
<1>2. (at + n) % Header = 0
  BY <1>1, MultipleSum
<1>3. \A i \in DOMAIN t :
         /\ t[i].start = at + n \/ \E j \in DOMAIN rs : t[i].start = rs[j].start
         /\ End(t[i]) = at \/ \E j \in DOMAIN rs : End(t[i]) = End(rs[j])
  BY CutFacts
<1>4. \A i \in DOMAIN t : t[i].start % Header = 0 /\ End(t[i]) % Header = 0
  BY <1>2, <1>3 DEF EvenOK
<1>. QED BY <1>2, <1>4 DEF EvenOK

\* If besides the block lies at the start of its region, nothing gets lost.
LEMMA CoverCut ==
    ASSUME NEW rs, NEW k, NEW at, NEW n, NEW t, CutFrom(rs, k, at, n, t),
           NEW M, EvenOK(rs, M), CoverOK(rs, M), NEW x, x.addr = at, Needs(x) = n,
           at % Header = 0, n % Header = 0, at = rs[k].start
    PROVE  CoverOK(t, M \cup {x})
<1>1. at \in Nat /\ n \in Nat \ {0} /\ at + n <= End(rs[k]) /\ End(rs[k]) \in Nat
  BY RegionFacts DEF CutFrom, Cuttable
<1>2. (at + n) % Header = 0
  BY <1>1, Constants, MultipleSum
<1>3. End(rs[k]) % Header = 0
  BY DEF CutFrom, EvenOK
<1>4. at + n + Header <= End(rs[k]) \/ at + n = End(rs[k])
  <2>1. PICK d \in Nat : d = End(rs[k]) - (at + n)
    BY <1>1
  <2>2. Header \in Nat \ {0} /\ at + n \in Nat
    BY <1>1, Constants
  <2>3. (End(rs[k]) - (at + n)) % Header = 0
    BY <1>1, <1>2, <1>3, <2>2, MultipleSum
  <2>4. d # 0 => d >= Header
    BY <2>1, <2>2, <2>3, MultipleSum
  <2>. QED BY <1>1, <2>1, <2>2, <2>4
<1>5. FreeUnits(rs) \subseteq FreeUnits(t) \cup Units(at, n)
  BY <1>4, CutFacts
<1>. QED BY <1>5 DEF CoverOK

\* Putting a block back keeps the list even.
LEMMA EvenPut ==
    ASSUME NEW rs, NEW M, ListOK(rs, M), EvenOK(rs, M), NEW x \in M, x \in Block
    PROVE  EvenOK(Insert(rs, Freed(x)), M \ {x})
<1>1. PICK r : r = Freed(x)
  OBVIOUS
<1>2. r.start = x.addr /\ End(r) = x.addr + Needs(x)
  BY <1>1 DEF Freed, End
<1>3. PICK t : t = Insert(rs, r)
  OBVIOUS
<1>4. \A i \in DOMAIN t :
         /\ t[i].start = r.start \/ \E j \in DOMAIN rs : t[i].start = rs[j].start
         /\ End(t[i]) = End(r) \/ \E j \in DOMAIN rs : End(t[i]) = End(rs[j])
  <2>1. PutInto(rs, r)
    BY <1>1, ListPut
  <2>. QED BY <1>3, <2>1, InsertFacts
<1>5. \A i \in DOMAIN t : t[i].start % Header = 0 /\ End(t[i]) % Header = 0
  BY <1>2, <1>4 DEF EvenOK
<1>6. EvenOK(t, M \ {x})
  BY <1>5 DEF EvenOK
<1>. QED BY <1>1, <1>3, <1>6

\* Putting a block back loses no unit.
LEMMA CoverPut ==
    ASSUME NEW rs, NEW M, ListOK(rs, M), CoverOK(rs, M), NEW x \in M, x \in Block
    PROVE  CoverOK(Insert(rs, Freed(x)), M \ {x})
<1>1. PICK r : r = Freed(x)
  OBVIOUS
<1>2. r.start = x.addr /\ r.size = Needs(x)
  BY <1>1 DEF Freed
<1>3. PICK t : t = Insert(rs, r)
  OBVIOUS
<1>4. FreeUnits(t) = FreeUnits(rs) \cup Units(x.addr, Needs(x))
  <2>1. PutInto(rs, r)
    BY <1>1, ListPut
  <2>. QED BY <1>2, <1>3, <2>1, InsertFacts
<1>5. ASSUME NEW u \in Top .. HeapSize - 1
      PROVE  u \in FreeUnits(t) \/ \E y \in M \ {x} : u \in Units(y.addr, Needs(y))
  <2>1. u \in FreeUnits(rs) \/ \E y \in M : u \in Units(y.addr, Needs(y))
    BY DEF CoverOK
  <2>. QED BY <1>4, <2>1
<1>6. CoverOK(t, M \ {x})
  BY <1>5 DEF CoverOK
<1>. QED BY <1>1, <1>3, <1>6

-----------------------------------------------------------------------------
(***************************************************************************)
(* The region list is sorted and merged, and its blocks are disjoint,      *)
(* whatever is allocated and freed.                                        *)
(***************************************************************************)

\* What alloc_large does, in terms of the list.
LEMMA LargeAllocFacts ==
    ASSUME ListInv, NEW l \in Layouts, LargeAlloc(l)
    PROVE  \E k, at, x :
              /\ CutFrom(large, k, at, Needs(l), large')
              /\ at % Align(l) = 0
              /\ large[k].start % Align(l) = 0 => at = large[k].start
              /\ x = [addr |-> at, size |-> l.size, align |-> l.align]
              /\ x \in Block /\ live' = live \cup {x}
<1>1. l.size \in Nat \ {0} /\ l.align \in Nat \ {0}
  BY Constants
<1>2. Needs(l) \in Nat \ {0} /\ Align(l) \in Nat \ {0}
  BY <1>1, LayoutFacts
<1>3. large \in Seq(Region) /\ Sorted(large) /\ DOMAIN large \subseteq Nat
  BY DEF ListInv, ListOK
<1>4. PICK F : F = Fits(Needs(l), Align(l))
  OBVIOUS
<1>5. F \in SUBSET Nat /\ F # {}
  BY <1>3, <1>4 DEF LargeAlloc, Fits, Needs, Align
<1>6. PICK k : k = Min(F) /\ k \in F
  BY <1>5, MinFacts
<1>7. PICK at : at = align_up(large[k].start, Align(l))
  OBVIOUS
<1>8. k \in DOMAIN large /\ at + Needs(l) <= End(large[k])
  BY <1>4, <1>6, <1>7 DEF Fits
<1>9. large[k] \in Region /\ large[k].start \in Nat
  BY <1>3, <1>8, RegionFacts
<1>10. /\ at \in Nat /\ large[k].start <= at /\ at % Align(l) = 0
       /\ large[k].start % Align(l) = 0 => at = large[k].start
  BY <1>2, <1>7, <1>9, AlignUp
<1>11. /\ large' = SubSeq(large, 1, k - 1) \o Remainder(large[k], at, Needs(l))
                       \o SubSeq(large, k + 1, Len(large))
       /\ live' = live \cup {[addr |-> at, size |-> l.size, align |-> l.align]}
  BY <1>4, <1>6, <1>7 DEF LargeAlloc, Needs, Align
<1>12. CutFrom(large, k, at, Needs(l), large')
  BY <1>2, <1>3, <1>8, <1>9, <1>10, <1>11 DEF CutFrom, Cuttable
<1>13. PICK x : x = [addr |-> at, size |-> l.size, align |-> l.align]
  OBVIOUS
<1>14. x \in Block
  BY <1>1, <1>10, <1>13 DEF Block
<1>. QED BY <1>10, <1>11, <1>12, <1>13, <1>14

\* How the blocks of the list change with the blocks clients hold.
LEMMA LargesChange ==
    ASSUME NEW x
    PROVE  /\ live' = live \cup {x} => Larges' = IF Small(x) THEN Larges ELSE Larges \cup {x}
           /\ live' = live \ {x} => Larges' = Larges \ {x}
           /\ live' = live => Larges' = Larges
BY DEF Larges

\* Where the memory behind the buckets begins, and how much of it there is.
LEMMA Behind ==
    /\ Top \in Nat /\ HeapSize \in Nat /\ HeapSize - Top \in Nat
    /\ Even => HeapSize - Top = 0 \/ HeapSize - Top >= Header
<1>1. Top \in Nat
  <2>1. Len(BucketSizes) + 1 \in 1 .. Len(BucketSizes) + 1
    BY Constants
  <2>. QED BY <2>1, BaseGrows DEF Top
<1>2. HeapSize \in Nat /\ Top <= HeapSize /\ Header \in Nat \ {0}
  BY Constants
<1>3. PICK rest \in Nat : rest = HeapSize - Top
  BY <1>1, <1>2
<1>4. Even => (HeapSize - Top) % Header = 0
  BY <1>1, <1>2, MultipleSum DEF Even
<1>5. Even => rest = 0 \/ rest >= Header
  BY <1>2, <1>3, <1>4, MultipleSum
<1>. QED BY <1>1, <1>2, <1>3, <1>5

\* The region the list starts with.
LEMMA FirstRegion ==
    ASSUME Init
    PROVE  /\ Larges = {} /\ large \in Seq(Region)
           /\ \/ DOMAIN large = {} /\ ~(HeapSize - Top > Header)
              \/ DOMAIN large = {1} /\ large[1].start = Top /\ End(large[1]) = HeapSize
<1>1. Larges = {}
  BY DEF Init, Larges
<1>2. PICK rest \in Nat : rest = HeapSize - Top /\ HeapSize = Top + rest /\ Top \in Nat
  BY Behind
<1>3. large = IF rest > Header THEN <<[start |-> Top, size |-> rest]>> ELSE <<>>
  BY <1>2 DEF Init, Top
<1>4. CASE rest > Header
  <2>1. PICK r : r = [start |-> Top, size |-> rest]
    OBVIOUS
  <2>2. r \in Region /\ r.start = Top /\ End(r) = HeapSize
    BY <1>2, <1>4, <2>1, Constants DEF Region, End
  <2>3. Len(large) = 1 /\ large[1] = r /\ large \in Seq(Region)
    BY <1>3, <1>4, <2>1, <2>2
  <2>4. DOMAIN large = {1}
    BY <2>3
  <2>. QED BY <1>1, <2>2, <2>3, <2>4
<1>5. CASE ~(rest > Header)
  <2>1. large = <<>> /\ large \in Seq(Region) /\ DOMAIN large = {}
    BY <1>3, <1>5
  <2>. QED BY <1>1, <1>2, <1>5, <2>1
<1>. QED BY <1>4, <1>5

\* The list is sound at the start.
LEMMA ListInit == Init => ListInv
<1>1. SUFFICES ASSUME Init  PROVE ListInv
  OBVIOUS
<1>2. LiveOK
  <2>1. live = {}
    BY <1>1 DEF Init
  <2>2. ASSUME NEW b \in Buckets
        PROVE  [k \in 1 .. BlocksPerBucket |-> Base[b] + (k - 1) * BucketSizes[b]] \in Seq(Nat)
    <3>1. PICK B \in Nat, s \in Nat, n \in Nat :
              B = Base[b] /\ s = BucketSizes[b] /\ n = BlocksPerBucket
      BY HomeFacts, Constants
    <3>2. ASSUME NEW k \in 1 .. n  PROVE B + (k - 1) * s \in Nat
      <4>1. (k - 1) * s \in Nat
        BY <3>1
      <4>. QED BY <3>1, <4>1
    <3>3. [k \in 1 .. n |-> B + (k - 1) * s] \in Seq(Nat)
      BY <3>2
    <3>. QED BY <3>1, <3>3
  <2>3. free_list \in [Buckets -> Seq(Nat)]
    BY <1>1, <2>2 DEF Init
  <2>. QED BY <2>1, <2>3, FS_EmptySet DEF LiveOK
<1>3. /\ Larges = {} /\ large \in Seq(Region)
      /\ \A k \in DOMAIN large : k = 1 /\ large[k].start = Top /\ End(large[k]) = HeapSize
  BY <1>1, FirstRegion
<1>4. Sorted(large)
  BY <1>3 DEF Sorted
<1>5. \A u : u \in FreeUnits(large) <=>
               u \in Nat /\ \E k \in DOMAIN large : large[k].start <= u /\ u < End(large[k])
  BY <1>3, FreeUnitsIs
<1>6. FreeUnits(large) \subseteq Top .. HeapSize - 1
  BY <1>3, <1>5, Behind
<1>. QED BY <1>2, <1>3, <1>4, <1>6 DEF ListInv, ListOK

\* What alloc does with a bucket, in terms of its free list.
LEMMA BucketAllocFacts ==
    ASSUME LiveOK, NEW l \in Layouts, BucketAlloc(l)
    PROVE  \E x : /\ x = [addr |-> Head(free_list[BucketOf(l)]), size |-> l.size,
                           align |-> l.align]
                  /\ x \in Block /\ live' = live \cup {x} /\ large' = large
                  /\ Small(l) /\ BucketOf(l) \in Buckets
                  /\ BucketSizes[BucketOf(l)] >= Align(l)
                  /\ free_list[BucketOf(l)] # <<>>
                  /\ free_list' = [free_list EXCEPT ![BucketOf(l)] = Tail(@)]
<1>1. l.size \in Nat \ {0} /\ l.align \in Nat \ {0}
  BY Constants
<1>2. Small(l) /\ BucketSizes[BucketOf(l)] >= Align(l) /\ free_list[BucketOf(l)] # <<>>
  BY DEF BucketAlloc, FromBucket, Small, BucketOf, Needs, Align
<1>3. BucketOf(l) \in Buckets
  BY <1>1, <1>2, LayoutFacts
<1>4. PICK x : x = [addr |-> Head(free_list[BucketOf(l)]), size |-> l.size, align |-> l.align]
  OBVIOUS
<1>5. x \in Block
  <2>1. Head(free_list[BucketOf(l)]) \in Nat
    BY <1>2, <1>3 DEF LiveOK
  <2>. QED BY <1>1, <1>4, <2>1 DEF Block
<1>6. /\ live' = live \cup {x} /\ large' = large
      /\ free_list' = [free_list EXCEPT ![BucketOf(l)] = Tail(@)]
  BY <1>4 DEF BucketAlloc, BucketOf, Needs
<1>. QED BY <1>2, <1>3, <1>4, <1>5, <1>6

\* What dealloc does with a block of a bucket's size.
LEMMA BucketDeallocFacts ==
    ASSUME LiveOK, NEW x \in live, BucketDealloc(x)
    PROVE  /\ Small(x) /\ BucketOf(x) \in Buckets
           /\ live' = live \ {x} /\ large' = large
           /\ free_list' = [free_list EXCEPT ![BucketOf(x)] = <<x.addr>> \o @]
<1>1. x.size \in Nat \ {0} /\ x.align \in Nat \ {0}
  BY DEF LiveOK, Block
<1>2. Small(x)
  BY DEF BucketDealloc, Small, Needs
<1>3. BucketOf(x) \in Buckets
  BY <1>1, <1>2, LayoutFacts
<1>. QED BY <1>2, <1>3 DEF BucketDealloc, BucketOf, Needs

\* What dealloc_large does, in terms of the list.
LEMMA LargeDeallocFacts ==
    ASSUME ListInv, NEW x \in live, LargeDealloc(x)
    PROVE  /\ x \in Larges /\ x \in Block /\ live' = live \ {x}
           /\ large' = Insert(large, Freed(x)) /\ free_list' = free_list
<1>1. x \in Larges
  BY DEF LargeDealloc, Larges, Small, Needs
<1>2. x \in Block
  BY DEF ListInv, LiveOK
<1>3. x.addr + Needs(x) <= HeapSize
  BY <1>1, <1>2, ListPut DEF ListInv
<1>4. ~(x.addr + AtLeast(x.size, Word) > HeapSize)
  <2>1. x.addr \in Nat /\ Needs(x) \in Nat /\ HeapSize \in Nat
    BY <1>2, LayoutFacts, Constants DEF Block
  <2>. QED BY <1>3, <2>1 DEF Needs
<1>. QED BY <1>1, <1>2, <1>4 DEF LargeDealloc, Freed, Needs

\* Every step keeps the list sound.
LEMMA ListStep == ListInv /\ [Next]_vars => ListInv'
<1>1. SUFFICES ASSUME ListInv, [Next]_vars  PROVE ListInv'
  OBVIOUS
<1>2. /\ live \subseteq Block /\ IsFiniteSet(live) /\ free_list \in [Buckets -> Seq(Nat)]
      /\ LiveOK
  BY <1>1 DEF ListInv, LiveOK
<1>3. ListOK(large, Larges)
  BY <1>1 DEF ListInv
<1>4. ASSUME NEW x \in Block, live' = live \cup {x}, free_list' \in [Buckets -> Seq(Nat)]
      PROVE  LiveOK'
  <2>1. IsFiniteSet(live \cup {x})
    BY <1>2, FS_AddElement
  <2>. QED BY <1>2, <1>4, <2>1 DEF LiveOK
<1>5. ASSUME NEW x, live' = live \ {x}, free_list' \in [Buckets -> Seq(Nat)]
      PROVE  LiveOK'
  <2>1. IsFiniteSet(live \ {x})
    BY <1>2, FS_RemoveElement
  <2>. QED BY <1>2, <1>5, <2>1 DEF LiveOK
<1>6. ASSUME NEW l \in Layouts, BucketAlloc(l)  PROVE ListInv'
  <2>1. PICK x : /\ x = [addr |-> Head(free_list[BucketOf(l)]), size |-> l.size,
                          align |-> l.align]
                 /\ x \in Block /\ live' = live \cup {x} /\ large' = large
                 /\ Small(l) /\ BucketOf(l) \in Buckets /\ free_list[BucketOf(l)] # <<>>
                 /\ free_list' = [free_list EXCEPT ![BucketOf(l)] = Tail(@)]
    BY <1>2, <1>6, BucketAllocFacts
  <2>2. Larges' = Larges
    BY <2>1, SameLayout, LargesChange
  <2>3. free_list' \in [Buckets -> Seq(Nat)]
    <3>1. Tail(free_list[BucketOf(l)]) \in Seq(Nat)
      BY <1>2, <2>1
    <3>. QED BY <1>2, <2>1, <3>1
  <2>. QED BY <1>3, <1>4, <2>1, <2>2, <2>3 DEF ListInv
<1>7. ASSUME NEW l \in Layouts, LargeAlloc(l)  PROVE ListInv'
  <2>1. PICK k, at, x : /\ CutFrom(large, k, at, Needs(l), large')
                        /\ x = [addr |-> at, size |-> l.size, align |-> l.align]
                        /\ x \in Block /\ live' = live \cup {x}
    BY <1>1, <1>7, LargeAllocFacts
  <2>2. x.addr = at /\ Needs(x) = Needs(l)
    BY <2>1, SameLayout
  <2>3. ListOK(large', Larges) /\ ListOK(large', Larges \cup {x})
    BY <1>3, <2>1, <2>2, ListCut
  <2>4. Larges' = Larges \/ Larges' = Larges \cup {x}
    BY <2>1, LargesChange
  <2>5. free_list' = free_list
    BY <1>7 DEF LargeAlloc
  <2>6. ListOK(large', Larges')
    BY <2>3, <2>4
  <2>. QED BY <1>2, <1>4, <2>1, <2>5, <2>6 DEF ListInv
<1>8. ASSUME NEW x \in live, BucketDealloc(x)  PROVE ListInv'
  <2>1. /\ Small(x) /\ BucketOf(x) \in Buckets /\ live' = live \ {x} /\ large' = large
        /\ free_list' = [free_list EXCEPT ![BucketOf(x)] = <<x.addr>> \o @]
    BY <1>2, <1>8, BucketDeallocFacts
  <2>2. Larges' = Larges
    BY <2>1, LargesChange DEF Larges
  <2>3. free_list' \in [Buckets -> Seq(Nat)]
    <3>1. x.addr \in Nat
      BY <1>2 DEF Block
    <3>2. <<x.addr>> \o free_list[BucketOf(x)] \in Seq(Nat)
      BY <1>2, <2>1, <3>1
    <3>. QED BY <1>2, <2>1, <3>2
  <2>. QED BY <1>3, <1>5, <2>1, <2>2, <2>3 DEF ListInv
<1>9. ASSUME NEW x \in live, LargeDealloc(x)  PROVE ListInv'
  <2>1. /\ x \in Larges /\ x \in Block /\ live' = live \ {x}
        /\ large' = Insert(large, Freed(x)) /\ free_list' = free_list
    BY <1>1, <1>9, LargeDeallocFacts
  <2>2. ListOK(large', Larges \ {x})
    BY <1>3, <2>1, ListPut
  <2>3. ListOK(large', Larges')
    BY <2>1, <2>2, LargesChange
  <2>. QED BY <1>2, <1>5, <2>1, <2>3 DEF ListInv
<1>10. ASSUME live' = live, large' = large, free_list' = free_list  PROVE ListInv'
  BY <1>1, <1>10, LargesChange DEF ListInv, LiveOK
<1>11. ASSUME NEW l \in Layouts, OutOfMemory(l)  PROVE ListInv'
  BY <1>10, <1>11 DEF OutOfMemory
<1>12. CASE UNCHANGED vars
  BY <1>10, <1>12 DEF vars
<1>. QED BY <1>1, <1>6, <1>7, <1>8, <1>9, <1>11, <1>12 DEF Next

\* The region list is sorted and fully merged (dealloc_large), however the
\* buckets and the list are used.
THEOREM ListSorted == Spec => []Coalesced
<1>1. ListInv => Coalesced
  <2>1. SUFFICES ASSUME ListInv, NEW k \in 1 .. Len(large) - 1
                 PROVE  End(large[k]) < large[k + 1].start
    BY DEF Coalesced
  <2>2. large \in Seq(Region) /\ Sorted(large)
    BY <2>1 DEF ListInv, ListOK
  <2>3. k \in DOMAIN large /\ k + 1 \in DOMAIN large /\ k < k + 1
    BY <2>2
  <2>. QED BY <2>2, <2>3 DEF Sorted
<1>. QED BY <1>1, ListInit, ListStep, PTL DEF Spec

-----------------------------------------------------------------------------
(***************************************************************************)
(* The buckets are sound if none of them runs out.                         *)
(***************************************************************************)

\* A bucket's blocks are aligned to their size, and so to every alignment the
\* bucket serves.
LEMMA HomeAligned ==
    ASSUME NEW b \in Buckets, NEW a \in HomeBlocks(b), NEW l \in Layouts,
           BucketSizes[b] >= Align(l)
    PROVE  a % l.align = 0
<1>1. PICK s \in Nat \ {0}, B \in Nat : s = BucketSizes[b] /\ B = Base[b]
  BY Constants, HomeFacts
<1>2. PICK k \in 0 .. BlocksPerBucket - 1 : a = B + k * s
  BY <1>1 DEF HomeBlocks
<1>9. k \in Nat
  BY <1>2, Constants
<1>3. PICK ks \in Nat : ks = k * s /\ ks = s * k
  BY <1>9
<1>4. ks % s = 0
  BY <1>3, <1>9, Multiple
<1>5. B % s = 0
  BY <1>1, AllocatorAssumption
<1>6. a % s = 0 /\ a \in Nat
  <2>1. a = B + ks
    BY <1>2, <1>3
  <2>2. (B + ks) % s = 0
    BY <1>4, <1>5, MultipleSum
  <2>. QED BY <2>1, <2>2
<1>7. l.align \in Nat \ {0} /\ l.align <= s
  <2>1. l.size \in Nat \ {0} /\ l.align \in Nat \ {0}
    BY Constants
  <2>2. l.align <= Align(l) /\ Align(l) \in Nat
    BY <2>1, LayoutFacts
  <2>. QED BY <1>1, <2>1, <2>2
<1>8. s % l.align = 0
  BY <1>1, <1>7, AllocatorAssumption
<1>. QED BY <1>6, <1>7, <1>8, MultipleTrans

\* So are the blocks that alloc_large cuts from the list.
LEMMA LargeAligned ==
    ASSUME NEW l \in Layouts, NEW a \in Nat, a % Align(l) = 0
    PROVE  a % l.align = 0
<1>1. l.size \in Nat \ {0} /\ l.align \in Nat \ {0}
  BY Constants
<1>2. Align(l) = l.align \/ (Align(l) = Word /\ l.align < Word)
  BY <1>1, LayoutFacts
<1>3. CASE Align(l) = l.align
  BY <1>3
<1>4. CASE Align(l) = Word /\ l.align < Word
  <2>1. l.align <= Word /\ Word \in Nat \ {0}
    BY <1>1, <1>4, Constants
  <2>2. Word % l.align = 0
    BY <2>1, AllocatorAssumption
  <2>. QED BY <1>1, <1>4, <2>1, <2>2, MultipleTrans
<1>. QED BY <1>2, <1>3, <1>4

\* How the blocks of a bucket change with the blocks clients hold.
LEMMA SmallsChange ==
    ASSUME NEW x, NEW b
    PROVE  /\ live' = live \cup {x} => Smalls(b)' =
                 IF Small(x) /\ BucketOf(x) = b THEN Smalls(b) \cup {x} ELSE Smalls(b)
           /\ live' = live \ {x} => Smalls(b)' = Smalls(b) \ {x}
           /\ live' = live => Smalls(b)' = Smalls(b)
BY DEF Smalls

\* With fewer live blocks than a bucket has, the bucket has one left.
LEMMA NotOut ==
    ASSUME NeverOut, LiveOK, BucketInv, Cardinality(live) < MaxLive,
           NEW l \in Layouts, Small(l)
    PROVE  FromBucket(l)
<1>1. PICK b : b = BucketOf(l)
  OBVIOUS
<1>2. b \in Buckets
  <2>1. l.size \in Nat \ {0} /\ l.align \in Nat \ {0}
    BY Constants
  <2>. QED BY <1>1, <2>1, LayoutFacts
<1>3. BucketOK(b, free_list[b], Smalls(b))
  BY <1>2 DEF BucketInv
<1>4. Smalls(b) \in SUBSET live /\ IsFiniteSet(live)
  BY DEF Smalls, LiveOK
<1>5. /\ Cardinality(Smalls(b)) <= Cardinality(live) /\ IsFiniteSet(Smalls(b))
  BY <1>4, FS_Subset
<1>6. Cardinality(Smalls(b)) \in Nat /\ Cardinality(live) \in Nat
  BY <1>4, <1>5, FS_CardinalityType
<1>7. /\ Len(free_list[b]) + Cardinality(Smalls(b)) = BlocksPerBucket
      /\ free_list[b] \in Seq(Nat)
  BY <1>3 DEF BucketOK
<1>8. Len(free_list[b]) # 0
  BY <1>5, <1>6, <1>7, Constants DEF NeverOut
<1>9. free_list[b] # <<>>
  BY <1>7, <1>8
<1>10. BucketSizes[b] >= Align(l)
  BY <1>1 DEF NeverOut
<1>. QED BY <1>1, <1>9, <1>10 DEF FromBucket, Small, BucketOf, Needs, Align

\* At the start every bucket has all of its blocks.
LEMMA BucketInit == Init => BucketInv
<1>1. SUFFICES ASSUME Init, NEW b \in Buckets  PROVE BucketOK(b, free_list[b], Smalls(b))
  BY DEF BucketInv, Init
<1>2. Smalls(b) = {}
  BY <1>1 DEF Init, Smalls
<1>3. PICK s \in Nat \ {0}, B \in Nat, N \in Nat \ {0} :
          s = BucketSizes[b] /\ B = Base[b] /\ N = BlocksPerBucket
  BY Constants, HomeFacts
<1>4. PICK f : f = [k \in 1 .. N |-> B + (k - 1) * s]
  OBVIOUS
<1>5. free_list[b] = f
  BY <1>1, <1>3, <1>4 DEF Init
<1>6. HomeBlocks(b) = {B + k * s : k \in 0 .. N - 1}
  BY <1>3 DEF HomeBlocks
<1>7. ASSUME NEW k \in 1 .. N  PROVE (k - 1) * s \in Nat /\ k - 1 \in 0 .. N - 1
  BY <1>3
<1>8. f \in Seq(Nat) /\ Len(f) = N /\ DOMAIN f = 1 .. N
  <2>1. \A k \in 1 .. N : B + (k - 1) * s \in Nat
    BY <1>7
  <2>. QED BY <1>4, <2>1
<1>9. ASSUME NEW i \in DOMAIN f, NEW j \in DOMAIN f, f[i] = f[j]  PROVE i = j
  <2>1. ASSUME NEW c \in 1 .. N, NEW d \in 1 .. N, c < d
        PROVE  (c - 1) * s + s <= (d - 1) * s
    BY <1>3, <2>1
  <2>2. i \in 1 .. N /\ j \in 1 .. N /\ (i - 1) * s \in Nat /\ (j - 1) * s \in Nat
    BY <1>7, <1>8
  <2>3. (i - 1) * s = (j - 1) * s
    BY <1>4, <1>9, <2>2
  <2>4. ~(i < j) /\ ~(j < i)
    <3>1. i < j => (i - 1) * s + s <= (j - 1) * s
      BY <2>1, <2>2
    <3>2. j < i => (j - 1) * s + s <= (i - 1) * s
      BY <2>1, <2>2
    <3>. QED BY <1>3, <2>2, <2>3, <3>1, <3>2
  <2>5. i \in Int /\ j \in Int
    BY <1>8
  <2>. QED BY <2>4, <2>5
<1>10. ASSUME NEW i \in DOMAIN f  PROVE f[i] \in HomeBlocks(b)
  BY <1>4, <1>6, <1>7, <1>8
<1>11. ASSUME NEW a \in HomeBlocks(b)  PROVE \E i \in DOMAIN f : f[i] = a
  <2>1. PICK k \in 0 .. N - 1 : a = B + k * s
    BY <1>6
  <2>2. k + 1 \in 1 .. N /\ (k + 1) - 1 = k
    BY <1>3, <2>1
  <2>3. f[k + 1] = B + ((k + 1) - 1) * s
    BY <1>4, <2>2
  <2>4. f[k + 1] = a
    BY <2>1, <2>2, <2>3
  <2>. QED BY <1>8, <2>2, <2>4
<1>12. Len(f) + Cardinality({}) = BlocksPerBucket
  BY <1>3, <1>8, FS_EmptySet
<1>. QED BY <1>2, <1>5, <1>8, <1>9, <1>10, <1>11, <1>12 DEF BucketOK

\* Every step keeps the buckets sound.
LEMMA BucketStep ==
    ASSUME NeverOut
    PROVE  ListInv /\ BucketInv /\ [Next]_vars => BucketInv'
<1>1. SUFFICES ASSUME ListInv, BucketInv, [Next]_vars  PROVE BucketInv'
  OBVIOUS
<1>2. /\ LiveOK /\ live \subseteq Block /\ IsFiniteSet(live)
      /\ free_list \in [Buckets -> Seq(Nat)]
  BY <1>1 DEF ListInv, LiveOK
<1>3. ASSUME NEW b \in Buckets
      PROVE  BucketOK(b, free_list[b], Smalls(b)) /\ IsFiniteSet(Smalls(b))
  <2>1. Smalls(b) \in SUBSET live
    BY DEF Smalls
  <2>2. IsFiniteSet(Smalls(b))
    BY <1>2, <2>1, FS_Subset
  <2>. QED BY <1>1, <2>2 DEF BucketInv
<1>4. \A x \in live : x.addr % x.align = 0
  BY <1>1 DEF BucketInv
<1>5. ASSUME NEW l \in Layouts, BucketAlloc(l)  PROVE BucketInv'
  <2>1. PICK x : /\ x = [addr |-> Head(free_list[BucketOf(l)]), size |-> l.size,
                         align |-> l.align]
                 /\ x \in Block /\ live' = live \cup {x}
                 /\ Small(l) /\ BucketOf(l) \in Buckets
                 /\ BucketSizes[BucketOf(l)] >= Align(l)
                 /\ free_list[BucketOf(l)] # <<>>
                 /\ free_list' = [free_list EXCEPT ![BucketOf(l)] = Tail(@)]
    BY <1>2, <1>5, BucketAllocFacts
  <2>2. PICK c \in Buckets : c = BucketOf(l)
    BY <2>1
  <2>3. /\ x.addr = Head(free_list[c]) /\ x.align = l.align /\ Small(x) /\ BucketOf(x) = c
    BY <2>1, <2>2, SameLayout
  <2>4. /\ BucketOK(c, Tail(free_list[c]), Smalls(c) \cup {x}) /\ x.addr \in HomeBlocks(c)
    <3>1. BucketOK(c, free_list[c], Smalls(c)) /\ IsFiniteSet(Smalls(c)) /\ free_list[c] # <<>>
      BY <1>3, <2>1, <2>2
    <3>. QED BY <2>3, <3>1, BucketPop
  <2>5. ASSUME NEW b \in Buckets  PROVE BucketOK(b, free_list'[b], Smalls(b)')
    <3>1. CASE b = c
      <4>1. free_list'[b] = Tail(free_list[c]) /\ Smalls(b)' = Smalls(c) \cup {x}
        BY <1>2, <2>1, <2>2, <2>3, <3>1, SmallsChange
      <4>. QED BY <2>4, <3>1, <4>1
    <3>2. CASE b # c
      <4>1. free_list'[b] = free_list[b] /\ Smalls(b)' = Smalls(b)
        BY <1>2, <2>1, <2>2, <2>3, <3>2, SmallsChange
      <4>. QED BY <1>3, <4>1
    <3>. QED BY <3>1, <3>2
  <2>6. x.addr % x.align = 0
    BY <2>1, <2>2, <2>3, <2>4, HomeAligned
  <2>7. \A y \in live' : y.addr % y.align = 0
    BY <1>4, <2>1, <2>6
  <2>. QED BY <2>5, <2>7 DEF BucketInv
<1>6. ASSUME NEW l \in Layouts, LargeAlloc(l)  PROVE BucketInv'
  <2>1. PICK k, at, x : /\ CutFrom(large, k, at, Needs(l), large') /\ at % Align(l) = 0
                        /\ x = [addr |-> at, size |-> l.size, align |-> l.align]
                        /\ x \in Block /\ live' = live \cup {x}
    BY <1>1, <1>6, LargeAllocFacts
  <2>2. ~Small(l)
    <3>1. Cardinality(live) < MaxLive /\ ~FromBucket(l)
      BY <1>6 DEF LargeAlloc
    <3>. QED BY <1>1, <1>2, <3>1, NotOut
  <2>3. x.addr = at /\ x.align = l.align /\ ~Small(x)
    BY <2>1, <2>2, SameLayout
  <2>4. free_list' = free_list
    BY <1>6 DEF LargeAlloc
  <2>5. ASSUME NEW b \in Buckets  PROVE BucketOK(b, free_list'[b], Smalls(b)')
    <3>1. Smalls(b)' = Smalls(b)
      BY <2>1, <2>3, SmallsChange
    <3>. QED BY <1>3, <2>4, <3>1
  <2>6. x.addr % x.align = 0
    <3>1. at \in Nat
      BY <2>1 DEF CutFrom, Cuttable
    <3>. QED BY <2>1, <2>3, <3>1, LargeAligned
  <2>7. \A y \in live' : y.addr % y.align = 0
    BY <1>4, <2>1, <2>6
  <2>. QED BY <2>5, <2>7 DEF BucketInv
<1>7. ASSUME NEW x \in live, BucketDealloc(x)  PROVE BucketInv'
  <2>1. /\ Small(x) /\ live' = live \ {x}
        /\ free_list' = [free_list EXCEPT ![BucketOf(x)] = <<x.addr>> \o @]
    BY <1>2, <1>7, BucketDeallocFacts
  <2>2. PICK c \in Buckets : c = BucketOf(x)
    BY <1>2, <1>7, BucketDeallocFacts
  <2>3. x \in Smalls(c)
    BY <2>1, <2>2 DEF Smalls
  <2>4. BucketOK(c, <<x.addr>> \o free_list[c], Smalls(c) \ {x})
    BY <1>3, <2>3, BucketPush
  <2>5. ASSUME NEW b \in Buckets  PROVE BucketOK(b, free_list'[b], Smalls(b)')
    <3>1. CASE b = c
      <4>1. free_list'[b] = <<x.addr>> \o free_list[c] /\ Smalls(b)' = Smalls(c) \ {x}
        BY <1>2, <2>1, <2>2, <3>1, SmallsChange
      <4>. QED BY <2>4, <3>1, <4>1
    <3>2. CASE b # c
      <4>1. x \notin Smalls(b)
        BY <2>2, <3>2 DEF Smalls
      <4>2. free_list'[b] = free_list[b]
        BY <1>2, <2>1, <2>2, <3>2
      <4>3. Smalls(b)' = Smalls(b) \ {x}
        BY <2>1, SmallsChange
      <4>4. Smalls(b)' = Smalls(b)
        BY <4>1, <4>3
      <4>. QED BY <1>3, <4>2, <4>4
    <3>. QED BY <3>1, <3>2
  <2>6. \A y \in live' : y.addr % y.align = 0
    BY <1>4, <2>1
  <2>. QED BY <2>5, <2>6 DEF BucketInv
<1>8. ASSUME NEW x \in live, LargeDealloc(x)  PROVE BucketInv'
  <2>1. x \in Larges /\ live' = live \ {x} /\ free_list' = free_list
    BY <1>1, <1>8, LargeDeallocFacts
  <2>2. ASSUME NEW b \in Buckets  PROVE BucketOK(b, free_list'[b], Smalls(b)')
    <3>1. x \notin Smalls(b)
      BY <2>1 DEF Larges, Smalls
    <3>2. Smalls(b)' = Smalls(b)
      BY <2>1, <3>1, SmallsChange
    <3>. QED BY <1>3, <2>1, <3>2
  <2>3. \A y \in live' : y.addr % y.align = 0
    BY <1>4, <2>1
  <2>. QED BY <2>2, <2>3 DEF BucketInv
<1>9. ASSUME live' = live, free_list' = free_list  PROVE BucketInv'
  <2>1. ASSUME NEW b \in Buckets  PROVE BucketOK(b, free_list'[b], Smalls(b)')
    BY <1>3, <1>9, SmallsChange
  <2>. QED BY <1>4, <1>9, <2>1 DEF BucketInv
<1>10. ASSUME NEW l \in Layouts, OutOfMemory(l)  PROVE BucketInv'
  BY <1>9, <1>10 DEF OutOfMemory
<1>11. CASE UNCHANGED vars
  BY <1>9, <1>11 DEF vars
<1>. QED BY <1>1, <1>5, <1>6, <1>7, <1>8, <1>10, <1>11 DEF Next

-----------------------------------------------------------------------------
(***************************************************************************)
(* The list stays even, and loses nothing, if the large requests are even. *)
(***************************************************************************)

\* The list is even at the start.
LEMMA EvenInit ==
    ASSUME Even
    PROVE  Init => EvenInv
<1>1. SUFFICES ASSUME Init  PROVE EvenInv
  OBVIOUS
<1>2. Larges = {} /\ \A k \in DOMAIN large : large[k].start = Top /\ End(large[k]) = HeapSize
  BY <1>1, FirstRegion
<1>. QED BY <1>2 DEF EvenInv, EvenOK, Even

\* At the start the list holds all that lies behind the buckets.
LEMMA CoverInit ==
    ASSUME Even, Snug
    PROVE  Init => CoverInv
<1>1. SUFFICES ASSUME Init, NEW u \in Top .. HeapSize - 1  PROVE u \in FreeUnits(large)
  BY DEF CoverInv, CoverOK
<1>2. Top \in Nat /\ HeapSize \in Nat /\ Header \in Nat
  BY Behind, Constants
<1>3. HeapSize - Top > Header
  <2>1. HeapSize - Top # 0
    BY <1>1, <1>2
  <2>2. HeapSize - Top >= Header /\ HeapSize - Top # Header
    BY <2>1, Behind DEF Snug
  <2>. QED BY <1>2, <2>2
<1>4. DOMAIN large = {1} /\ large[1].start = Top /\ End(large[1]) = HeapSize
  BY <1>1, <1>3, FirstRegion
<1>5. u \in Nat /\ large[1].start <= u /\ u < End(large[1])
  BY <1>1, <1>2, <1>4
<1>6. large \in Seq(Region)
  BY <1>1, FirstRegion
<1>. QED BY <1>4, <1>5, <1>6, FreeUnitsIs

\* A large request is cut at a multiple of a header, and without a gap if it is
\* aligned to a part of one.
LEMMA EvenPlace ==
    ASSUME Even, NEW l \in Layouts, ~Small(l), NEW start \in Nat, start % Header = 0,
           NEW at \in Nat, at % Align(l) = 0, start % Align(l) = 0 => at = start
    PROVE  at % Header = 0 /\ Needs(l) % Header = 0 /\ (Header % Align(l) = 0 => at = start)
<1>1. Align(l) \in Nat \ {0} /\ Header \in Nat \ {0}
  <2>1. l.size \in Nat \ {0} /\ l.align \in Nat \ {0}
    BY Constants
  <2>. QED BY <2>1, LayoutFacts, Constants
<1>2. Needs(l) % Header = 0 /\ (Align(l) % Header = 0 \/ Header % Align(l) = 0)
  BY DEF Even
<1>3. ASSUME Header % Align(l) = 0  PROVE at = start
  BY <1>1, <1>3, MultipleTrans
<1>4. ASSUME Align(l) % Header = 0  PROVE at % Header = 0
  BY <1>1, <1>4, MultipleTrans
<1>. QED BY <1>2, <1>3, <1>4

\* Every step keeps the list even,
LEMMA EvenStep ==
    ASSUME NeverOut, Even
    PROVE  ListInv /\ BucketInv /\ EvenInv /\ [Next]_vars => EvenInv'
<1>1. SUFFICES ASSUME ListInv, BucketInv, EvenInv, [Next]_vars  PROVE EvenInv'
  OBVIOUS
<1>2. LiveOK /\ ListOK(large, Larges) /\ EvenOK(large, Larges)
  BY <1>1 DEF ListInv, EvenInv
<1>3. ASSUME large' = large, Larges' = Larges  PROVE EvenInv'
  BY <1>2, <1>3 DEF EvenInv
<1>4. ASSUME NEW l \in Layouts, BucketAlloc(l)  PROVE EvenInv'
  <2>1. PICK x : /\ x = [addr |-> Head(free_list[BucketOf(l)]), size |-> l.size,
                         align |-> l.align]
                 /\ live' = live \cup {x} /\ large' = large /\ Small(l)
    BY <1>2, <1>4, BucketAllocFacts
  <2>2. Larges' = Larges
    BY <2>1, SameLayout, LargesChange
  <2>. QED BY <1>3, <2>1, <2>2
<1>5. ASSUME NEW l \in Layouts, LargeAlloc(l)  PROVE EvenInv'
  <2>1. PICK k, at, x : /\ CutFrom(large, k, at, Needs(l), large') /\ at % Align(l) = 0
                        /\ large[k].start % Align(l) = 0 => at = large[k].start
                        /\ x = [addr |-> at, size |-> l.size, align |-> l.align]
                        /\ live' = live \cup {x}
    BY <1>1, <1>5, LargeAllocFacts
  <2>2. ~Small(l)
    <3>1. Cardinality(live) < MaxLive /\ ~FromBucket(l)
      BY <1>5 DEF LargeAlloc
    <3>. QED BY <1>1, <1>2, <3>1, NotOut
  <2>3. x.addr = at /\ Needs(x) = Needs(l) /\ ~Small(x)
    BY <2>1, <2>2, SameLayout
  <2>4. at \in Nat /\ large[k].start \in Nat /\ k \in DOMAIN large
    BY <2>1, RegionFacts DEF CutFrom, Cuttable
  <2>5. large[k].start % Header = 0
    BY <1>2, <2>4 DEF EvenOK
  <2>6. at % Header = 0 /\ Needs(l) % Header = 0
    BY <2>1, <2>2, <2>4, <2>5, EvenPlace
  <2>7. EvenOK(large', Larges \cup {x})
    BY <1>2, <2>1, <2>3, <2>6, EvenCut
  <2>8. Larges' = Larges \cup {x}
    BY <2>1, <2>3, LargesChange
  <2>. QED BY <2>7, <2>8 DEF EvenInv
<1>6. ASSUME NEW x \in live, BucketDealloc(x)  PROVE EvenInv'
  <2>1. Small(x) /\ live' = live \ {x} /\ large' = large
    BY <1>2, <1>6, BucketDeallocFacts
  <2>2. Larges' = Larges
    BY <2>1, LargesChange DEF Larges
  <2>. QED BY <1>3, <2>1, <2>2
<1>7. ASSUME NEW x \in live, LargeDealloc(x)  PROVE EvenInv'
  <2>1. /\ x \in Larges /\ x \in Block /\ live' = live \ {x}
        /\ large' = Insert(large, Freed(x))
    BY <1>1, <1>7, LargeDeallocFacts
  <2>2. EvenOK(large', Larges \ {x})
    BY <1>2, <2>1, EvenPut
  <2>3. Larges' = Larges \ {x}
    BY <2>1, LargesChange
  <2>. QED BY <2>2, <2>3 DEF EvenInv
<1>8. ASSUME NEW l \in Layouts, OutOfMemory(l)  PROVE EvenInv'
  BY <1>3, <1>8, LargesChange DEF OutOfMemory
<1>9. CASE UNCHANGED vars
  BY <1>3, <1>9, LargesChange DEF vars
<1>. QED BY <1>1, <1>4, <1>5, <1>6, <1>7, <1>8, <1>9 DEF Next

\* and if no request leaves a gap, every step keeps all of the memory.
LEMMA CoverStep ==
    ASSUME NeverOut, Even, Snug
    PROVE  ListInv /\ BucketInv /\ EvenInv /\ CoverInv /\ [Next]_vars => CoverInv'
<1>1. SUFFICES ASSUME ListInv, BucketInv, EvenInv, CoverInv, [Next]_vars  PROVE CoverInv'
  OBVIOUS
<1>2. /\ LiveOK /\ ListOK(large, Larges) /\ EvenOK(large, Larges)
      /\ CoverOK(large, Larges)
  BY <1>1 DEF ListInv, EvenInv, CoverInv
<1>3. ASSUME large' = large, Larges' = Larges  PROVE CoverInv'
  BY <1>2, <1>3 DEF CoverInv
<1>4. ASSUME NEW l \in Layouts, BucketAlloc(l)  PROVE CoverInv'
  <2>1. PICK x : /\ x = [addr |-> Head(free_list[BucketOf(l)]), size |-> l.size,
                         align |-> l.align]
                 /\ live' = live \cup {x} /\ large' = large /\ Small(l)
    BY <1>2, <1>4, BucketAllocFacts
  <2>2. Larges' = Larges
    BY <2>1, SameLayout, LargesChange
  <2>. QED BY <1>3, <2>1, <2>2
<1>5. ASSUME NEW l \in Layouts, LargeAlloc(l)  PROVE CoverInv'
  <2>1. PICK k, at, x : /\ CutFrom(large, k, at, Needs(l), large') /\ at % Align(l) = 0
                        /\ large[k].start % Align(l) = 0 => at = large[k].start
                        /\ x = [addr |-> at, size |-> l.size, align |-> l.align]
                        /\ live' = live \cup {x}
    BY <1>1, <1>5, LargeAllocFacts
  <2>2. ~Small(l)
    <3>1. Cardinality(live) < MaxLive /\ ~FromBucket(l)
      BY <1>5 DEF LargeAlloc
    <3>. QED BY <1>1, <1>2, <3>1, NotOut
  <2>3. x.addr = at /\ Needs(x) = Needs(l) /\ ~Small(x)
    BY <2>1, <2>2, SameLayout
  <2>4. at \in Nat /\ large[k].start \in Nat /\ k \in DOMAIN large
    BY <2>1, RegionFacts DEF CutFrom, Cuttable
  <2>5. large[k].start % Header = 0
    BY <1>2, <2>4 DEF EvenOK
  <2>6. at % Header = 0 /\ Needs(l) % Header = 0 /\ at = large[k].start
    BY <2>1, <2>2, <2>4, <2>5, EvenPlace DEF Snug
  <2>7. CoverOK(large', Larges \cup {x})
    BY <1>2, <2>1, <2>3, <2>6, CoverCut
  <2>8. Larges' = Larges \cup {x}
    BY <2>1, <2>3, LargesChange
  <2>. QED BY <2>7, <2>8 DEF CoverInv
<1>6. ASSUME NEW x \in live, BucketDealloc(x)  PROVE CoverInv'
  <2>1. Small(x) /\ live' = live \ {x} /\ large' = large
    BY <1>2, <1>6, BucketDeallocFacts
  <2>2. Larges' = Larges
    BY <2>1, LargesChange DEF Larges
  <2>. QED BY <1>3, <2>1, <2>2
<1>7. ASSUME NEW x \in live, LargeDealloc(x)  PROVE CoverInv'
  <2>1. /\ x \in Larges /\ x \in Block /\ live' = live \ {x}
        /\ large' = Insert(large, Freed(x))
    BY <1>1, <1>7, LargeDeallocFacts
  <2>2. CoverOK(large', Larges \ {x})
    BY <1>2, <2>1, CoverPut
  <2>3. Larges' = Larges \ {x}
    BY <2>1, LargesChange
  <2>. QED BY <2>2, <2>3 DEF CoverInv
<1>8. ASSUME NEW l \in Layouts, OutOfMemory(l)  PROVE CoverInv'
  BY <1>3, <1>8, LargesChange DEF OutOfMemory
<1>9. CASE UNCHANGED vars
  BY <1>3, <1>9, LargesChange DEF vars
<1>. QED BY <1>1, <1>4, <1>5, <1>6, <1>7, <1>8, <1>9 DEF Next

-----------------------------------------------------------------------------
(***************************************************************************)
(* What the invariants say of the heap.                                    *)
(***************************************************************************)

\* Blocks of the buckets lie below Top, and two of them are apart.
LEMMA HomeUnits ==
    ASSUME NEW b \in Buckets, NEW a \in HomeBlocks(b)
    PROVE  /\ Units(a, BucketSizes[b]) \subseteq 0 .. Top - 1
           /\ \A c \in Buckets : \A d \in HomeBlocks(c) : b # c \/ a # d =>
                 Units(a, BucketSizes[b]) \cap Units(d, BucketSizes[c]) = {}
<1>1. ASSUME NEW c \in Buckets, NEW d \in HomeBlocks(c)
      PROVE  /\ d \in Nat /\ BucketSizes[c] \in Nat /\ d + BucketSizes[c] <= Top /\ Top \in Nat
             /\ \A u : u \in Units(d, BucketSizes[c]) <=>
                         u \in Nat /\ d <= u /\ u < d + BucketSizes[c]
  <2>1. d \in Nat /\ d + BucketSizes[c] <= Base[c + 1] /\ Base[c + 1] <= Top /\ Base[c + 1] \in Nat
    BY HomeFacts
  <2>2. BucketSizes[c] \in Nat /\ Top \in Nat
    BY Constants, Behind
  <2>3. \A u : u \in Units(d, BucketSizes[c]) <=>
                 u \in Nat /\ d <= u /\ u < d + BucketSizes[c]
    BY <2>1, <2>2, UnitsIs
  <2>. QED BY <2>1, <2>2, <2>3
<1>2. Units(a, BucketSizes[b]) \subseteq 0 .. Top - 1
  <2>1. ASSUME NEW u \in Units(a, BucketSizes[b])  PROVE u \in 0 .. Top - 1
    <3>1. /\ a \in Nat /\ BucketSizes[b] \in Nat /\ a + BucketSizes[b] <= Top /\ Top \in Nat
          /\ u \in Nat /\ a <= u /\ u < a + BucketSizes[b]
      BY <1>1
    <3>. QED BY <3>1
  <2>. QED BY <2>1
<1>3. ASSUME NEW c \in Buckets, NEW d \in HomeBlocks(c), b # c \/ a # d
      PROVE  a + BucketSizes[b] <= d \/ d + BucketSizes[c] <= a
  <2>1. CASE b = c
    <3>1. a \in Nat /\ d \in Nat /\ a # d
      BY <1>1, <1>3, <2>1
    <3>2. (a < d => a + BucketSizes[b] <= d) /\ (d < a => d + BucketSizes[b] <= a)
      BY <2>1, HomeFacts
    <3>. QED BY <2>1, <3>1, <3>2
  <2>2. CASE b # c
    <3>1. b < c \/ c < b
      BY <2>2, Constants
    <3>. QED BY <3>1, HomesApart
  <2>. QED BY <2>1, <2>2
<1>4. ASSUME NEW c \in Buckets, NEW d \in HomeBlocks(c), b # c \/ a # d,
             NEW u, u \in Units(a, BucketSizes[b]), u \in Units(d, BucketSizes[c])
      PROVE  FALSE
  <2>1. /\ a \in Nat /\ BucketSizes[b] \in Nat /\ d \in Nat /\ BucketSizes[c] \in Nat
        /\ u \in Nat /\ a <= u /\ u < a + BucketSizes[b] /\ d <= u /\ u < d + BucketSizes[c]
    BY <1>1, <1>4
  <2>. QED BY <1>3, <1>4, <2>1
<1>. QED BY <1>2, <1>4

\* Where a live block lies, and how much of the heap it is charged for.
LEMMA BlockPlace ==
    ASSUME ListInv, BucketInv, NEW x \in live
    PROVE  /\ x.addr \in Nat /\ x.size \in Nat /\ Charge(x) \in Nat \ {0} /\ x.size <= Charge(x)
           /\ Small(x) => /\ BucketOf(x) \in Buckets /\ x.addr \in HomeBlocks(BucketOf(x))
                          /\ x \in Smalls(BucketOf(x)) /\ Charge(x) = BucketSizes[BucketOf(x)]
           /\ ~Small(x) => x \in Larges /\ Charge(x) = Needs(x)
<1>1. x.addr \in Nat /\ x.size \in Nat \ {0} /\ x.align \in Nat \ {0}
  BY DEF ListInv, LiveOK, Block
<1>2. /\ Needs(x) \in Nat \ {0} /\ x.size <= Needs(x)
      /\ Small(x) => BucketOf(x) \in Buckets /\ Needs(x) <= BucketSizes[BucketOf(x)]
  BY <1>1, LayoutFacts
<1>3. CASE Small(x)
  <2>1. PICK b \in Buckets : b = BucketOf(x) /\ Needs(x) <= BucketSizes[b]
    BY <1>2, <1>3
  <2>2. Charge(x) = BucketSizes[b]
    BY <1>3, <2>1 DEF Charge, Small, BucketOf, Needs
  <2>3. x \in Smalls(b)
    BY <1>3, <2>1 DEF Smalls
  <2>4. x.addr \in HomeBlocks(b)
    BY <2>3 DEF BucketInv, BucketOK
  <2>5. BucketSizes[b] \in Nat \ {0}
    BY Constants
  <2>. QED BY <1>1, <1>2, <1>3, <2>1, <2>2, <2>3, <2>4, <2>5
<1>4. CASE ~Small(x)
  <2>1. Charge(x) = Needs(x)
    BY <1>4 DEF Charge, Small, Needs
  <2>2. x \in Larges
    BY <1>4 DEF Larges
  <2>. QED BY <1>1, <1>2, <1>4, <2>1, <2>2
<1>. QED BY <1>3, <1>4

\* Memory below Top and memory behind it are apart.
LEMMA BelowBehind ==
    ASSUME NEW A, NEW B, A \subseteq 0 .. Top - 1, B \subseteq Top .. HeapSize - 1
    PROVE  A \cap B = {}
<1>1. Top \in Nat /\ HeapSize \in Nat
  BY Behind
<1>2. \A u \in 0 .. Top - 1 : ~(u \in Top .. HeapSize - 1)
  BY <1>1
<1>. QED BY <1>2

\* The units a live block is charged for are in the heap, in no region, in no
\* free block of a bucket and in no other live block.
LEMMA BlockUnits ==
    ASSUME ListInv, BucketInv, NEW x \in live
    PROVE  /\ Units(x.addr, x.size) \subseteq Units(x.addr, Charge(x))
           /\ Units(x.addr, Charge(x)) \subseteq 0 .. HeapSize - 1
           /\ Units(x.addr, Charge(x)) \cap FreeUnits(large) = {}
           /\ \A b \in Buckets : \A k \in DOMAIN free_list[b] :
                 Units(free_list[b][k], BucketSizes[b]) \cap Units(x.addr, Charge(x)) = {}
           /\ \A y \in live : x # y =>
                 Units(x.addr, Charge(x)) \cap Units(y.addr, Charge(y)) = {}
<1>1. ASSUME NEW y \in live
      PROVE  /\ Small(y) => /\ BucketOf(y) \in Buckets /\ y.addr \in HomeBlocks(BucketOf(y))
                            /\ y \in Smalls(BucketOf(y))
                            /\ Charge(y) = BucketSizes[BucketOf(y)]
                            /\ Units(y.addr, Charge(y)) \subseteq 0 .. Top - 1
             /\ ~Small(y) => /\ y \in Larges /\ Charge(y) = Needs(y)
                             /\ Units(y.addr, Charge(y)) \subseteq
                                  (Top .. HeapSize - 1) \ FreeUnits(large)
  <2>1. CASE Small(y)
    BY <2>1, BlockPlace, HomeUnits
  <2>2. CASE ~Small(y)
    BY <2>2, BlockPlace DEF ListInv, ListOK
  <2>. QED BY <2>1, <2>2
<1>2. Units(x.addr, x.size) \subseteq Units(x.addr, Charge(x))
  <2>1. x.addr \in Nat /\ x.size \in Nat /\ Charge(x) \in Nat /\ x.size <= Charge(x)
    BY BlockPlace
  <2>. QED BY <2>1 DEF Units
<1>3. Top \in Nat /\ HeapSize \in Nat /\ Top <= HeapSize
  BY Behind, Constants
<1>4. 0 .. Top - 1 \subseteq 0 .. HeapSize - 1 /\ Top .. HeapSize - 1 \subseteq 0 .. HeapSize - 1
  BY <1>3
<1>5. Units(x.addr, Charge(x)) \subseteq 0 .. HeapSize - 1
  BY <1>1, <1>4
<1>6. FreeUnits(large) \subseteq Top .. HeapSize - 1
  BY DEF ListInv, ListOK
<1>7. Units(x.addr, Charge(x)) \cap FreeUnits(large) = {}
  BY <1>1, <1>6, BelowBehind
<1>8. ASSUME NEW b \in Buckets, NEW k \in DOMAIN free_list[b]
      PROVE  Units(free_list[b][k], BucketSizes[b]) \cap Units(x.addr, Charge(x)) = {}
  <2>1. /\ free_list[b][k] \in HomeBlocks(b)
        /\ \A y \in Smalls(b) : y.addr # free_list[b][k]
    BY DEF BucketInv, BucketOK
  <2>2. Units(free_list[b][k], BucketSizes[b]) \subseteq 0 .. Top - 1
    BY <2>1, HomeUnits
  <2>3. CASE Small(x)
    <3>1. PICK c \in Buckets : /\ c = BucketOf(x) /\ x.addr \in HomeBlocks(c) /\ x \in Smalls(c)
                               /\ Charge(x) = BucketSizes[c]
      BY <1>1, <2>3
    <3>2. b # c \/ free_list[b][k] # x.addr
      BY <2>1, <3>1
    <3>. QED BY <2>1, <3>1, <3>2, HomeUnits
  <2>4. CASE ~Small(x)
    BY <1>1, <2>2, <2>4, BelowBehind
  <2>. QED BY <2>3, <2>4
<1>9. ASSUME NEW y \in live, x # y
      PROVE  Units(x.addr, Charge(x)) \cap Units(y.addr, Charge(y)) = {}
  <2>1. CASE Small(x) /\ Small(y)
    <3>1. PICK b \in Buckets : /\ b = BucketOf(x) /\ x.addr \in HomeBlocks(b) /\ x \in Smalls(b)
                               /\ Charge(x) = BucketSizes[b]
      BY <1>1, <2>1
    <3>2. PICK c \in Buckets : /\ c = BucketOf(y) /\ y.addr \in HomeBlocks(c) /\ y \in Smalls(c)
                               /\ Charge(y) = BucketSizes[c]
      BY <1>1, <2>1
    <3>3. b # c \/ x.addr # y.addr
      BY <1>9, <3>1, <3>2 DEF BucketInv, BucketOK
    <3>4. Units(x.addr, BucketSizes[b]) \cap Units(y.addr, BucketSizes[c]) = {}
      BY <3>1, <3>2, <3>3, HomeUnits
    <3>. QED BY <3>1, <3>2, <3>4
  <2>2. CASE ~Small(x) /\ ~Small(y)
    BY <1>1, <1>9, <2>2 DEF ListInv, ListOK
  <2>3. CASE Small(x) /\ ~Small(y)
    BY <1>1, <2>3, BelowBehind
  <2>4. CASE ~Small(x) /\ Small(y)
    BY <1>1, <2>4, BelowBehind
  <2>. QED BY <2>1, <2>2, <2>3, <2>4
<1>. QED BY <1>2, <1>5, <1>7, <1>8, <1>9

\* If no bucket runs out, the blocks alloc hands out lie in the heap, are aligned
\* as their layouts ask, and share no byte, after any allocations and frees.
THEOREM BlocksSafe ==
    ASSUME NeverOut
    PROVE  Spec => []BlocksDisjoint
<1>1. ListInv /\ BucketInv => BlocksDisjoint
  <2>1. SUFFICES ASSUME ListInv, BucketInv  PROVE BlocksDisjoint
    OBVIOUS
  <2>2. ASSUME NEW x \in live
        PROVE  x.addr % x.align = 0 /\ Units(x.addr, x.size) \subseteq 0 .. HeapSize - 1
    BY <2>1, BlockUnits DEF BucketInv
  <2>3. ASSUME NEW x \in live, NEW y \in live, x # y
        PROVE  Units(x.addr, x.size) \cap Units(y.addr, y.size) = {}
    <3>1. /\ Units(x.addr, x.size) \subseteq Units(x.addr, Charge(x))
          /\ Units(y.addr, y.size) \subseteq Units(y.addr, Charge(y))
          /\ Units(x.addr, Charge(x)) \cap Units(y.addr, Charge(y)) = {}
      BY <2>1, <2>3, BlockUnits
    <3>. QED BY <3>1
  <2>. QED BY <2>2, <2>3 DEF BlocksDisjoint
<1>. QED BY <1>1, ListInit, ListStep, BucketInit, BucketStep, PTL DEF Spec

\* If besides the large requests are even, no block that a client may write
\* holds a word that links free blocks or the header of a region: the lists
\* threaded through free memory stay what the code left there.
THEOREM MetadataSafe ==
    ASSUME NeverOut, Even
    PROVE  Spec => []MetadataIntact
<1>1. ListInv /\ BucketInv /\ EvenInv => MetadataIntact
  <2>1. SUFFICES ASSUME ListInv, BucketInv, EvenInv, NEW x \in live
        PROVE  /\ \A b \in Buckets : \A k \in DOMAIN free_list[b] :
                     Units(free_list[b][k], Word) \cap Units(x.addr, x.size) = {}
               /\ \A k \in DOMAIN large :
                     Units(large[k].start, Header) \cap Units(x.addr, x.size) = {}
    BY DEF MetadataIntact
  <2>2. /\ Units(x.addr, x.size) \subseteq Units(x.addr, Charge(x))
        /\ Units(x.addr, Charge(x)) \cap FreeUnits(large) = {}
        /\ \A b \in Buckets : \A k \in DOMAIN free_list[b] :
              Units(free_list[b][k], BucketSizes[b]) \cap Units(x.addr, Charge(x)) = {}
    BY <2>1, BlockUnits
  <2>3. ASSUME NEW b \in Buckets, NEW k \in DOMAIN free_list[b]
        PROVE  Units(free_list[b][k], Word) \subseteq Units(free_list[b][k], BucketSizes[b])
    <3>1. PICK a \in Nat : a = free_list[b][k]
      BY <2>1 DEF ListInv, LiveOK
    <3>2. BucketSizes[b] \in Nat /\ Word \in Nat /\ Word <= BucketSizes[b]
      BY Constants
    <3>3. Units(a, Word) \subseteq Units(a, BucketSizes[b])
      BY <3>1, <3>2 DEF Units
    <3>. QED BY <3>1, <3>3
  <2>4. ASSUME NEW k \in DOMAIN large
        PROVE  Units(large[k].start, Header) \subseteq FreeUnits(large)
    <3>1. large \in Seq(Region)
      BY <2>1 DEF ListInv, ListOK
    <3>2. large[k] \in Region
      BY <3>1
    <3>3. PICK a \in Nat, e \in Nat : a = large[k].start /\ e = End(large[k]) /\ a < e
      BY <3>2, RegionFacts
    <3>4. a % Header = 0 /\ e % Header = 0
      BY <2>1, <3>3 DEF EvenInv, EvenOK
    <3>5. a + Header <= e
      <4>1. Header \in Nat \ {0} /\ (e - a) % Header = 0
        BY <3>3, <3>4, Constants, MultipleSum
      <4>2. PICK d \in Nat : d = e - a /\ d # 0
        BY <3>3
      <4>3. d >= Header
        BY <4>1, <4>2, MultipleSum
      <4>. QED BY <3>3, <4>1, <4>2, <4>3
    <3>6. \A u : u \in Units(a, Header) => u \in Nat /\ a <= u /\ u < e
      BY <3>3, <3>5, Constants, UnitsIs
    <3>7. \A u : u \in FreeUnits(large) <=>
                   u \in Nat /\ \E j \in DOMAIN large : large[j].start <= u /\ u < End(large[j])
      BY <3>1, FreeUnitsIs
    <3>. QED BY <3>3, <3>6, <3>7
  <2>. QED BY <2>2, <2>3, <2>4
<1>. QED BY <1>1, ListInit, ListStep, BucketInit, BucketStep, EvenInit, EvenStep, PTL DEF Spec

\* The three kinds of extents.
LEMMA ExtentKinds ==
    ASSUME NEW e
    PROVE  e \in Extents <=> \/ \E x \in live : e = <<x.addr, Charge(x)>>
                             \/ \E k \in DOMAIN large : e = <<large[k].start, large[k].size>>
                             \/ \E b \in Buckets : \E k \in DOMAIN free_list[b] :
                                   e = <<free_list[b][k], BucketSizes[b]>>
BY DEF Extents

\* No two extents overlap,
LEMMA ExtentsApart ==
    ASSUME ListInv, BucketInv, NEW e \in Extents, NEW f \in Extents, e # f
    PROVE  Units(e[1], e[2]) \cap Units(f[1], f[2]) = {}
<1>1. large \in Seq(Region) /\ Sorted(large) /\ FreeUnits(large) \subseteq Top .. HeapSize - 1
  BY DEF ListInv, ListOK
<1>2. ASSUME NEW k \in DOMAIN large
      PROVE  Units(large[k].start, large[k].size) \subseteq FreeUnits(large)
  BY DEF FreeUnits
<1>3. ASSUME NEW b \in Buckets, NEW k \in DOMAIN free_list[b]
      PROVE  /\ free_list[b][k] \in HomeBlocks(b)
             /\ Units(free_list[b][k], BucketSizes[b]) \subseteq 0 .. Top - 1
  BY HomeUnits DEF BucketInv, BucketOK
<1>4. ASSUME NEW x \in live, NEW g \in Extents, g # <<x.addr, Charge(x)>>
      PROVE  Units(x.addr, Charge(x)) \cap Units(g[1], g[2]) = {}
  <2>1. ASSUME NEW y \in live, g = <<y.addr, Charge(y)>>
        PROVE  Units(x.addr, Charge(x)) \cap Units(g[1], g[2]) = {}
    BY <1>4, <2>1, BlockUnits
  <2>2. ASSUME NEW k \in DOMAIN large, g = <<large[k].start, large[k].size>>
        PROVE  Units(x.addr, Charge(x)) \cap Units(g[1], g[2]) = {}
    BY <1>2, <2>2, BlockUnits
  <2>3. ASSUME NEW b \in Buckets, NEW k \in DOMAIN free_list[b],
               g = <<free_list[b][k], BucketSizes[b]>>
        PROVE  Units(x.addr, Charge(x)) \cap Units(g[1], g[2]) = {}
    BY <2>3, BlockUnits
  <2>. QED BY <2>1, <2>2, <2>3, ExtentKinds
<1>5. ASSUME NEW j \in DOMAIN large, NEW k \in DOMAIN large, j # k
      PROVE  Units(large[j].start, large[j].size) \cap Units(large[k].start, large[k].size) = {}
  <2>1. ASSUME NEW i \in DOMAIN large
        PROVE  /\ large[i].start \in Nat /\ End(large[i]) \in Nat
               /\ large[i].start < End(large[i])
               /\ \A u : u \in Units(large[i].start, large[i].size) <=>
                           u \in Nat /\ large[i].start <= u /\ u < End(large[i])
    <3>1. large[i] \in Region
      BY <1>1
    <3>2. large[i].start \in Nat /\ large[i].size \in Nat
      BY <3>1, RegionFacts
    <3>3. \A u : u \in Units(large[i].start, large[i].size) <=>
                   u \in Nat /\ large[i].start <= u /\ u < large[i].start + large[i].size
      BY <3>2, UnitsIs
    <3>. QED BY <3>1, <3>3, RegionFacts DEF End
  <2>2. j < k \/ k < j
    BY <1>1, <1>5
  <2>3. End(large[j]) < large[k].start \/ End(large[k]) < large[j].start
    BY <1>1, <2>2 DEF Sorted
  <2>4. ASSUME NEW u \in Units(large[j].start, large[j].size),
               u \in Units(large[k].start, large[k].size)
        PROVE  FALSE
    <3>1. /\ u \in Nat /\ large[j].start <= u /\ u < End(large[j])
          /\ large[k].start <= u /\ u < End(large[k])
      BY <2>1, <2>4
    <3>2. /\ large[j].start \in Nat /\ End(large[j]) \in Nat
          /\ large[k].start \in Nat /\ End(large[k]) \in Nat
      BY <2>1
    <3>. QED BY <2>3, <3>1, <3>2
  <2>. QED BY <2>4
<1>6. ASSUME NEW j \in DOMAIN large, NEW b \in Buckets, NEW k \in DOMAIN free_list[b]
      PROVE  Units(free_list[b][k], BucketSizes[b])
               \cap Units(large[j].start, large[j].size) = {}
  <2>1. Units(large[j].start, large[j].size) \subseteq Top .. HeapSize - 1
    BY <1>1, <1>2
  <2>. QED BY <1>3, <2>1, BelowBehind
<1>7. ASSUME NEW b \in Buckets, NEW j \in DOMAIN free_list[b],
             NEW c \in Buckets, NEW k \in DOMAIN free_list[c],
             <<free_list[b][j], BucketSizes[b]>> # <<free_list[c][k], BucketSizes[c]>>
      PROVE  Units(free_list[b][j], BucketSizes[b])
               \cap Units(free_list[c][k], BucketSizes[c]) = {}
  <2>1. b # c \/ free_list[b][j] # free_list[c][k]
    BY <1>7
  <2>. QED BY <1>3, <2>1, HomeUnits
<1>8. CASE \E x \in live : e = <<x.addr, Charge(x)>>
  BY <1>4, <1>8
<1>9. CASE \E x \in live : f = <<x.addr, Charge(x)>>
  BY <1>4, <1>9
<1>10. ASSUME NEW j \in DOMAIN large, e = <<large[j].start, large[j].size>>
       PROVE  Units(e[1], e[2]) \cap Units(f[1], f[2]) = {}
  <2>1. ASSUME NEW k \in DOMAIN large, f = <<large[k].start, large[k].size>>
        PROVE  Units(e[1], e[2]) \cap Units(f[1], f[2]) = {}
    BY <1>5, <1>10, <2>1
  <2>2. ASSUME NEW b \in Buckets, NEW k \in DOMAIN free_list[b],
               f = <<free_list[b][k], BucketSizes[b]>>
        PROVE  Units(e[1], e[2]) \cap Units(f[1], f[2]) = {}
    BY <1>6, <1>10, <2>2
  <2>. QED BY <1>9, <2>1, <2>2, ExtentKinds
<1>11. ASSUME NEW b \in Buckets, NEW j \in DOMAIN free_list[b],
              e = <<free_list[b][j], BucketSizes[b]>>
       PROVE  Units(e[1], e[2]) \cap Units(f[1], f[2]) = {}
  <2>1. ASSUME NEW k \in DOMAIN large, f = <<large[k].start, large[k].size>>
        PROVE  Units(e[1], e[2]) \cap Units(f[1], f[2]) = {}
    BY <1>6, <1>11, <2>1
  <2>2. ASSUME NEW c \in Buckets, NEW k \in DOMAIN free_list[c],
               f = <<free_list[c][k], BucketSizes[c]>>
        PROVE  Units(e[1], e[2]) \cap Units(f[1], f[2]) = {}
    BY <1>7, <1>11, <2>2
  <2>. QED BY <1>9, <2>1, <2>2, ExtentKinds
<1>. QED BY <1>8, <1>10, <1>11, ExtentKinds

\* and if nothing gets lost they are the whole heap.
LEMMA ExtentsCover ==
    ASSUME ListInv, BucketInv, CoverInv
    PROVE  UNION {Units(e[1], e[2]) : e \in Extents} = 0 .. HeapSize - 1
<1>1. Top \in Nat /\ HeapSize \in Nat /\ Top <= HeapSize
  BY Behind, Constants
<1>2. 0 .. Top - 1 \subseteq 0 .. HeapSize - 1 /\ Top .. HeapSize - 1 \subseteq 0 .. HeapSize - 1
  BY <1>1
<1>3. ASSUME NEW e \in Extents  PROVE Units(e[1], e[2]) \subseteq 0 .. HeapSize - 1
  <2>1. ASSUME NEW x \in live, e = <<x.addr, Charge(x)>>
        PROVE  Units(e[1], e[2]) \subseteq 0 .. HeapSize - 1
    BY <2>1, BlockUnits
  <2>2. ASSUME NEW k \in DOMAIN large, e = <<large[k].start, large[k].size>>
        PROVE  Units(e[1], e[2]) \subseteq 0 .. HeapSize - 1
    <3>1. Units(large[k].start, large[k].size) \subseteq FreeUnits(large)
      BY DEF FreeUnits
    <3>2. FreeUnits(large) \subseteq Top .. HeapSize - 1
      BY DEF ListInv, ListOK
    <3>. QED BY <1>2, <2>2, <3>1, <3>2
  <2>3. ASSUME NEW b \in Buckets, NEW k \in DOMAIN free_list[b],
               e = <<free_list[b][k], BucketSizes[b]>>
        PROVE  Units(e[1], e[2]) \subseteq 0 .. HeapSize - 1
    <3>1. free_list[b][k] \in HomeBlocks(b)
      BY DEF BucketInv, BucketOK
    <3>. QED BY <1>2, <2>3, <3>1, HomeUnits
  <2>. QED BY <2>1, <2>2, <2>3, ExtentKinds
<1>4. ASSUME NEW u \in 0 .. HeapSize - 1
      PROVE  \E e \in Extents : u \in Units(e[1], e[2])
  <2>1. ASSUME NEW x \in live, u \in Units(x.addr, Charge(x))
        PROVE  \E e \in Extents : u \in Units(e[1], e[2])
    <3>1. PICK e : e = <<x.addr, Charge(x)>>
      OBVIOUS
    <3>2. e \in Extents
      BY <3>1, ExtentKinds
    <3>. QED BY <2>1, <3>1, <3>2
  <2>2. CASE u < Top
    <3>1. PICK b \in Buckets : \E a \in HomeBlocks(b) : a <= u /\ u < a + BucketSizes[b]
      BY <1>1, <2>2, HomesCover
    <3>2. PICK a \in HomeBlocks(b) : a <= u /\ u < a + BucketSizes[b]
      BY <3>1
    <3>3. u \in Units(a, BucketSizes[b])
      <4>1. a \in Nat /\ BucketSizes[b] \in Nat /\ u \in Nat
        BY <1>1, HomeFacts, Constants
      <4>. QED BY <3>2, <4>1, UnitsIs
    <3>4. ASSUME NEW x \in Smalls(b), x.addr = a
          PROVE  \E e \in Extents : u \in Units(e[1], e[2])
      <4>1. x \in live /\ Small(x) /\ BucketOf(x) = b
        BY DEF Smalls
      <4>2. Charge(x) = BucketSizes[b]
        BY <4>1, BlockPlace
      <4>. QED BY <2>1, <3>3, <3>4, <4>1, <4>2
    <3>5. ASSUME NEW k \in DOMAIN free_list[b], free_list[b][k] = a
          PROVE  \E e \in Extents : u \in Units(e[1], e[2])
      <4>1. PICK e : e = <<free_list[b][k], BucketSizes[b]>>
        OBVIOUS
      <4>2. e \in Extents
        BY <4>1, ExtentKinds
      <4>. QED BY <3>3, <3>5, <4>1, <4>2
    <3>. QED BY <3>4, <3>5 DEF BucketInv, BucketOK
  <2>3. CASE Top <= u
    <3>1. u \in Top .. HeapSize - 1
      BY <1>1, <2>3
    <3>2. ASSUME NEW x \in Larges, u \in Units(x.addr, Needs(x))
          PROVE  \E e \in Extents : u \in Units(e[1], e[2])
      <4>1. x \in live /\ ~Small(x)
        BY DEF Larges
      <4>2. Charge(x) = Needs(x)
        BY <4>1, BlockPlace
      <4>. QED BY <2>1, <3>2, <4>1, <4>2
    <3>3. ASSUME NEW k \in DOMAIN large, u \in Units(large[k].start, large[k].size)
          PROVE  \E e \in Extents : u \in Units(e[1], e[2])
      <4>1. PICK e : e = <<large[k].start, large[k].size>>
        OBVIOUS
      <4>2. e \in Extents
        BY <4>1, ExtentKinds
      <4>. QED BY <3>3, <4>1, <4>2
    <3>. QED BY <3>1, <3>2, <3>3 DEF CoverInv, CoverOK, FreeUnits
  <2>. QED BY <1>1, <2>2, <2>3
<1>. QED BY <1>3, <1>4

\* If besides no request leaves a gap in front of it, nothing leaks and nothing
\* is given out twice: live blocks, free bucket blocks and regions tile the heap
\* through every split (alloc_large) and merge (dealloc_large).
THEOREM HeapStaysTiled ==
    ASSUME NeverOut, Even, Snug
    PROVE  Spec => []HeapTiled
<1>1. ListInv /\ BucketInv /\ CoverInv => HeapTiled
  BY ExtentsApart, ExtentsCover DEF HeapTiled
<1>. QED BY <1>1, ListInit, ListStep, BucketInit, BucketStep, EvenInit, EvenStep,
            CoverInit, CoverStep, PTL DEF Spec

\* If no bucket runs out, dealloc puts only a bucket's own blocks on its free
\* list, as the comment on dealloc supposes.
THEOREM OwnBlocks ==
    ASSUME NeverOut
    PROVE  Spec => []OwnBlocksOnly
<1>1. BucketInv => OwnBlocksOnly
  BY DEF BucketInv, BucketOK, OwnBlocksOnly
<1>. QED BY <1>1, ListInit, ListStep, BucketInit, BucketStep, PTL DEF Spec

-----------------------------------------------------------------------------
(***************************************************************************)
(* The counters.                                                           *)
(***************************************************************************)

\* free_blocks counts the free list, whatever is on it.
CountInv ==
    /\ free_blocks \in [Buckets -> Nat]
    /\ \A b \in Buckets : free_blocks[b] = Len(free_list[b])
    /\ used \in Nat /\ Cardinality(live) <= MaxLive /\ halted \in BOOLEAN

\* At the start every bucket counts all of its blocks.
LEMMA CountInit == Init => CountInv
<1>1. SUFFICES ASSUME Init  PROVE CountInv
  OBVIOUS
<1>2. live = {} /\ used = 0 /\ halted = FALSE /\ free_blocks = [b \in Buckets |-> BlocksPerBucket]
  BY <1>1 DEF Init
<1>3. Cardinality(live) <= MaxLive
  BY <1>2, FS_EmptySet, Constants
<1>4. ASSUME NEW b \in Buckets  PROVE free_blocks[b] = Len(free_list[b])
  <2>1. free_list[b] = [k \in 1 .. BlocksPerBucket |-> Base[b] + (k - 1) * BucketSizes[b]]
    BY <1>1 DEF Init
  <2>2. free_list[b] \in Seq(Nat)
    BY <1>1, ListInit DEF ListInv, LiveOK
  <2>3. DOMAIN free_list[b] = 1 .. BlocksPerBucket
    BY <2>1
  <2>4. Len(free_list[b]) = BlocksPerBucket
    BY <2>2, <2>3, Constants
  <2>. QED BY <1>2, <2>4
<1>. QED BY <1>2, <1>3, <1>4, Constants DEF CountInv

\* Every step keeps the counters in step.
LEMMA CountStep == ListInv /\ CountInv /\ [Next]_vars => CountInv'
<1>1. SUFFICES ASSUME ListInv, CountInv, [Next]_vars  PROVE CountInv'
  OBVIOUS
<1>2. LiveOK /\ IsFiniteSet(live) /\ free_list \in [Buckets -> Seq(Nat)]
  BY <1>1 DEF ListInv, LiveOK
<1>3. /\ free_blocks \in [Buckets -> Nat]
      /\ \A b \in Buckets : free_blocks[b] = Len(free_list[b])
      /\ used \in Nat /\ Cardinality(live) <= MaxLive /\ halted \in BOOLEAN
      /\ Cardinality(live) \in Nat /\ MaxLive \in Nat
  BY <1>1, <1>2, FS_CardinalityType, Constants DEF CountInv
<1>4. ASSUME NEW x, Cardinality(live) < MaxLive  PROVE Cardinality(live \cup {x}) <= MaxLive
  <2>1. Cardinality(live \cup {x}) \in {Cardinality(live), Cardinality(live) + 1}
    BY <1>2, FS_AddElement
  <2>. QED BY <1>3, <1>4, <2>1
<1>5. ASSUME NEW x  PROVE Cardinality(live \ {x}) <= MaxLive
  <2>1. Cardinality(live \ {x}) \in {Cardinality(live), Cardinality(live) - 1}
    BY <1>2, FS_RemoveElement
  <2>. QED BY <1>3, <2>1
<1>6. ASSUME NEW l \in Layouts, BucketAlloc(l)  PROVE CountInv'
  <2>1. PICK x : /\ live' = live \cup {x} /\ BucketOf(l) \in Buckets
                 /\ free_list[BucketOf(l)] # <<>>
                 /\ free_list' = [free_list EXCEPT ![BucketOf(l)] = Tail(@)]
    BY <1>2, <1>6, BucketAllocFacts
  <2>2. PICK c \in Buckets : c = BucketOf(l)
    BY <2>1
  <2>3. /\ Cardinality(live) < MaxLive /\ halted' = halted
        /\ free_blocks' = [free_blocks EXCEPT ![c] = @ - 1]
        /\ used' = used + BucketSizes[c]
    BY <1>6, <2>2 DEF BucketAlloc, BucketOf, Needs
  <2>4. free_list[c] \in Seq(Nat) /\ Len(free_list[c]) \in Nat \ {0}
    BY <1>2, <2>1, <2>2
  <2>5. Len(Tail(free_list[c])) = Len(free_list[c]) - 1
    BY <2>1, <2>2, <2>4
  <2>6. ASSUME NEW b \in Buckets  PROVE free_blocks'[b] = Len(free_list'[b])
    BY <1>2, <1>3, <2>1, <2>2, <2>3, <2>5
  <2>7. free_blocks' \in [Buckets -> Nat]
    <3>1. free_blocks[c] - 1 \in Nat
      BY <1>3, <2>4
    <3>. QED BY <1>3, <2>3, <3>1
  <2>8. used' \in Nat
    <3>1. BucketSizes[c] \in Nat
      BY Constants
    <3>. QED BY <1>3, <2>3, <3>1
  <2>. QED BY <1>3, <1>4, <2>1, <2>3, <2>6, <2>7, <2>8 DEF CountInv
<1>7. ASSUME NEW l \in Layouts, LargeAlloc(l)  PROVE CountInv'
  <2>1. PICK x : live' = live \cup {x}
    BY <1>1, <1>7, LargeAllocFacts
  <2>2. /\ Cardinality(live) < MaxLive /\ halted' = halted
        /\ free_blocks' = free_blocks /\ free_list' = free_list /\ used' = used + Needs(l)
    BY <1>7 DEF LargeAlloc, Needs
  <2>3. used' \in Nat
    <3>1. Needs(l) \in Nat
      BY LayoutFacts, Constants
    <3>. QED BY <1>3, <2>2, <3>1
  <2>. QED BY <1>3, <1>4, <2>1, <2>2, <2>3 DEF CountInv
<1>8. ASSUME NEW x \in live, BucketDealloc(x)  PROVE CountInv'
  <2>1. /\ live' = live \ {x}
        /\ free_list' = [free_list EXCEPT ![BucketOf(x)] = <<x.addr>> \o @]
    BY <1>2, <1>8, BucketDeallocFacts
  <2>2. PICK c \in Buckets : c = BucketOf(x)
    BY <1>2, <1>8, BucketDeallocFacts
  <2>3. /\ halted' = halted /\ free_blocks' = [free_blocks EXCEPT ![c] = @ + 1]
        /\ used' = SaturatingSub(used, BucketSizes[c])
    BY <1>8, <2>2 DEF BucketDealloc, BucketOf, Needs
  <2>4. Len(<<x.addr>> \o free_list[c]) = Len(free_list[c]) + 1
    <3>1. x.addr \in Nat /\ free_list[c] \in Seq(Nat)
      BY <1>2 DEF LiveOK, Block
    <3>. QED BY <3>1
  <2>5. ASSUME NEW b \in Buckets  PROVE free_blocks'[b] = Len(free_list'[b])
    BY <1>2, <1>3, <2>1, <2>2, <2>3, <2>4
  <2>6. free_blocks' \in [Buckets -> Nat]
    BY <1>3, <2>3
  <2>7. used' \in Nat
    <3>1. BucketSizes[c] \in Nat
      BY Constants
    <3>. QED BY <1>3, <2>3, <3>1 DEF SaturatingSub
  <2>. QED BY <1>3, <1>5, <2>1, <2>3, <2>5, <2>6, <2>7 DEF CountInv
<1>9. ASSUME NEW x \in live, LargeDealloc(x)  PROVE CountInv'
  <2>1. live' = live \ {x} /\ free_list' = free_list
    BY <1>1, <1>9, LargeDeallocFacts
  <2>2. /\ halted' = halted /\ free_blocks' = free_blocks
        /\ used' = used \/ used' = SaturatingSub(used, Needs(x))
    BY <1>9 DEF LargeDealloc, Needs
  <2>3. used' \in Nat
    <3>1. Needs(x) \in Nat
      BY <1>2, LayoutFacts DEF LiveOK, Block
    <3>. QED BY <1>3, <2>2, <3>1 DEF SaturatingSub
  <2>. QED BY <1>3, <1>5, <2>1, <2>2, <2>3 DEF CountInv
<1>10. ASSUME NEW l \in Layouts, OutOfMemory(l)  PROVE CountInv'
  BY <1>3, <1>10 DEF CountInv, OutOfMemory
<1>11. CASE UNCHANGED vars
  BY <1>3, <1>11 DEF CountInv, vars
<1>. QED BY <1>1, <1>6, <1>7, <1>8, <1>9, <1>10, <1>11 DEF Next

\* If no bucket runs out, the free lists hold addresses of the heap, the regions
\* lie in it, and no bucket counts more free blocks than it has.
THEOREM TypeCorrect ==
    ASSUME NeverOut
    PROVE  Spec => []TypeOK
<1>1. ListInv /\ BucketInv /\ CountInv => TypeOK
  <2>1. SUFFICES ASSUME ListInv, BucketInv, CountInv  PROVE TypeOK
    OBVIOUS
  <2>2. Top \in Nat /\ HeapSize \in Nat /\ Top <= HeapSize
    BY Behind, Constants
  <2>3. free_list \in [Buckets -> Seq(0 .. HeapSize - 1)]
    <3>1. free_list \in [Buckets -> Seq(Nat)]
      BY <2>1 DEF ListInv, LiveOK
    <3>2. ASSUME NEW b \in Buckets  PROVE free_list[b] \in Seq(0 .. HeapSize - 1)
      <4>1. ASSUME NEW k \in DOMAIN free_list[b]  PROVE free_list[b][k] \in 0 .. HeapSize - 1
        <5>1. PICK a : a = free_list[b][k] /\ a \in HomeBlocks(b)
          BY <2>1 DEF BucketInv, BucketOK
        <5>2. /\ a \in Nat /\ a + BucketSizes[b] <= Base[b + 1] /\ Base[b + 1] <= Top
              /\ Base[b + 1] \in Nat
          BY <5>1, HomeFacts
        <5>3. BucketSizes[b] \in Nat \ {0}
          BY Constants
        <5>. QED BY <2>2, <5>1, <5>2, <5>3
      <4>2. free_list[b] \in Seq(Nat)
        BY <3>1
      <4>3. PICK f : f = free_list[b] /\ f \in Seq(Nat) /\ \A k \in DOMAIN f : f[k] \in 0 .. HeapSize - 1
        BY <4>1, <4>2
      <4>4. PICK A : A = 0 .. HeapSize - 1
        OBVIOUS
      <4>5. f \in [1 .. Len(f) -> A] /\ Len(f) \in Nat
        BY <4>3, <4>4
      <4>6. f \in Seq(A)
        BY <4>5
      <4>. QED BY <4>3, <4>4, <4>6
    <3>. QED BY <3>1, <3>2
  <2>4. free_blocks \in [Buckets -> 0 .. BlocksPerBucket]
    <3>1. ASSUME NEW b \in Buckets  PROVE free_blocks[b] \in 0 .. BlocksPerBucket
      <4>1. IsFiniteSet(Smalls(b))
        <5>1. Smalls(b) \in SUBSET live /\ IsFiniteSet(live)
          BY <2>1 DEF Smalls, ListInv, LiveOK
        <5>. QED BY <5>1, FS_Subset
      <4>2. Cardinality(Smalls(b)) \in Nat
        BY <4>1, FS_CardinalityType
      <4>3. Len(free_list[b]) + Cardinality(Smalls(b)) = BlocksPerBucket
        BY <2>1 DEF BucketInv, BucketOK
      <4>4. free_blocks[b] \in Nat /\ free_blocks[b] = Len(free_list[b])
        BY <2>1 DEF CountInv
      <4>. QED BY <4>2, <4>3, <4>4, Constants
    <3>2. free_blocks \in [Buckets -> Nat]
      BY <2>1 DEF CountInv
    <3>. QED BY <3>1, <3>2
  <2>5. large \in Seq([start : 0 .. HeapSize - 1, size : 1 .. HeapSize])
    <3>1. large \in Seq(Region) /\ FreeUnits(large) \subseteq Top .. HeapSize - 1
      BY <2>1 DEF ListInv, ListOK
    <3>2. ASSUME NEW k \in DOMAIN large
          PROVE  large[k] \in [start : 0 .. HeapSize - 1, size : 1 .. HeapSize]
      <4>1. large[k] \in Region
        BY <3>1
      <4>2. PICK a \in Nat, n \in Nat \ {0} : a = large[k].start /\ n = large[k].size
        BY <4>1 DEF Region
      <4>3. a \in Units(a, n) /\ a + n - 1 \in Units(a, n)
        <5>1. a + n - 1 \in Nat
          BY <4>2
        <5>. QED BY <5>1 DEF Units
      <4>4. Units(a, n) \subseteq FreeUnits(large)
        BY <4>2 DEF FreeUnits
      <4>5. a \in Top .. HeapSize - 1 /\ a + n - 1 \in Top .. HeapSize - 1
        BY <3>1, <4>3, <4>4
      <4>6. a \in 0 .. HeapSize - 1 /\ n \in 1 .. HeapSize
        BY <2>2, <4>2, <4>5
      <4>. QED BY <4>1, <4>2, <4>6 DEF Region
    <3>3. PICK S : S = [start : 0 .. HeapSize - 1, size : 1 .. HeapSize]
      OBVIOUS
    <3>4. large \in [1 .. Len(large) -> S] /\ Len(large) \in Nat
      BY <3>1, <3>2, <3>3
    <3>5. large \in Seq(S)
      BY <3>4
    <3>. QED BY <3>3, <3>5
  <2>. QED BY <2>1, <2>3, <2>4, <2>5 DEF TypeOK, CountInv
<1>. QED BY <1>1, ListInit, ListStep, BucketInit, BucketStep, CountInit, CountStep, PTL DEF Spec

=============================================================================
