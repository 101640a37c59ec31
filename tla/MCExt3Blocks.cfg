\* No write fails: a block is freed and given to a second file.
SPECIFICATION Spec
CONSTANTS
    Names = {f, g}
    Values = {u, v}
    NBits = 4
    Meta = 1
    NInodes = 3
    Direct = 2
    DirMax = 3
    MaxFails = 0
    None = none
INVARIANT
    NoSharedBlock
CHECK_DEADLOCK FALSE
