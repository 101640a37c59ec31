\* A ring of four words fills with three events, wraps and drops.
SPECIFICATION FairSpec
CONSTANTS
    BufSize = 4
    Keys <- SomeKeys
    WireMax = 2
INVARIANTS
    NoStuckModifier
    PrefixInStep
PROPERTIES
    ImplementsQueue
    EventQueuedOrFull
    EventsDelivered
