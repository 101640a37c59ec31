SPECIFICATION Spec
CONSTANTS
    BufWords = 8
    RingWords = 16
    Sizes = {6, 9}
    Descs = 2
    MaxFrames = 8
    MaxSends = 3
INVARIANTS
    ReadsInBuffer
    FramesInOrder
    SentOnceInOrder
    OkMeansSent
CHECK_DEADLOCK FALSE
