CONSTANTS
    t1 = t1
    t2 = t2
    t3 = t3
    Nobody = Nobody
    Threads <- ThreeThreads
    PendingEntry = FALSE
SPECIFICATION Spec
INVARIANTS
    SingletonBehindGuard
    LibraryStaysLoaded
PROPERTY StartAndEntryEnd
