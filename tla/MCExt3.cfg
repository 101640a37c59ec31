\* Two files on a disk with two blocks for data; writes may be up to one block
\* larger than fits.  When the directory is at its bound the model stops.
SPECIFICATION FairSpec
CONSTANTS
    Names = {f, g}
    Values = {u, v}
    NBits = 3
    Meta = 1
    NInodes = 3
    Direct = 2
    DirMax = 4
    MaxFails = 1
    None = none
INVARIANTS
    BlocksOwned
    
    ReadBack

    
    

CHECK_DEADLOCK FALSE
