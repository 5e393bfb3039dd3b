CONSTANTS
    t1 = t1
    t2 = t2
    o1 = o1
    o2 = o2
    s1 = s1
    s2 = s2
    w1 = w1
    w2 = w2
    Null = Null
    Threads <- TwoThreads
    Objects <- TwoObjects
    Slots <- TwoSlots
    Wrappers <- TwoWrappers
SPECIFICATION Spec
SYMMETRY Symmetry
INVARIANTS
    WrappersOwnTheirRefs
    NoRefForgotten
    FreedMeansCollected
PROPERTY DropsLeaveNoTrace
