\* No more live blocks than a bucket holds, so no bucket runs out.
SPECIFICATION Spec
CONSTANTS
    BucketSizes <- TwoBuckets
    BlocksPerBucket = 4
    HeapSize = 56
    Word = 2
    Layouts <- TidyLayouts
    MaxLive = 4
INVARIANTS
    BlocksDisjoint
    MetadataIntact
    HeapTiled
    Coalesced
\* An allocation that fails halts the kernel.
CHECK_DEADLOCK FALSE
