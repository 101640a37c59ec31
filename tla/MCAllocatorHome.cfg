\* One more live block than the bucket has: the fallback path is taken.
SPECIFICATION Spec
CONSTANTS
    BucketSizes <- TwoBuckets
    BlocksPerBucket = 2
    HeapSize = 40
    Word = 2
    Layouts <- SmallLayouts
    MaxLive = 5
INVARIANT
    OwnBlocksOnly
CHECK_DEADLOCK FALSE
