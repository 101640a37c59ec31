------------------------- MODULE MCBucketAllocator -------------------------
(* The bucket allocator on a small heap, for TLC.  A word is two units. *)
EXTENDS BucketAllocator

TwoBuckets == <<2, 4>>

L(size, align) == [size |-> size, align |-> align]

\* Requests below exhaustion: three small ones (one of them rounded up to a
\* word), and large ones that are multiples of a region header.
TidyLayouts == {L(1, 1), L(4, 4), L(8, 2), L(12, 2)}

\* Small requests that outrun their bucket (one of them smaller than the
\* blocks it is served with), and a large one.
SmallLayouts == {L(3, 1), L(4, 4), L(10, 2)}
=============================================================================
