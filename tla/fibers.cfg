CONSTANTS
    t1 = t1
    t2 = t2
    main1 = main1
    extra1 = extra1
    main2 = main2
    b1 = b1
    b2 = b2
    b3 = b3
    Threads <- TwoThreads
    Fibers <- ThreeFibers
    ThreadOf <- FiberThreads
    Indices = {i1, i2}
    Boxes <- ThreeBoxes
    NoBox = NoBox
    NoIndex = NoIndex
    MaxAttach = 3
    MaxLevel = 2
SYMMETRY BoxSymmetry
SPECIFICATION Spec
INVARIANTS
    RecordsOwned
    AttachmentsCounted
PROPERTY KeepsContract
