SPECIFICATION CalcSpec
CONSTANTS
    Names = {f, g}
    BadName = bad
    Letters = {x}
    NL = nl
    Contents <- ShortContents
    MaxText = 3
    Keys = {k}
    Space = sp
    Tab = tab
    MaxLine = 2
    MaxHistory = 2
    MAX = 30
    Literals <- Numbers
    MaxOps = 3
INVARIANTS NoPanic  CleanMeansStored CalcAgrees
PROPERTY NothingLost
