CONSTANTS
    t1 = t1
    t2 = t2
    t3 = t3
    b1 = b1
    b2 = b2
    NoBox = NoBox
    Nobody = Nobody
    Threads <- TwoThreads
    Boxes <- TwoBoxes
    MaxCalls = 2
SPECIFICATION Spec
INVARIANT LockedBoxNotConsumed
