\* Four slots: the shell, two tasks to be rotated, and one more so that the
\* table can hold free slots, fill up, and refuse a further spawn.
SPECIFICATION FairSpec
CONSTANTS
    MaxTasks = 4
    PosMod = 3
    TickMod = 2
INVARIANTS
    
    ContextsIntact
    TableGuarded
    NoHoles
    BoundedWait
PROPERTY
    NoStarvation
