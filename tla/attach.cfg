CONSTANTS
    n1 = n1
    n2 = n2
    j1 = j1
    Threads <- AllThreads
    JavaThreads <- OneJava
    MaxAttach = 3
    MaxDepth = 3
    Environment <- EverythingFails
SPECIFICATION Spec
INVARIANTS
    AttachmentsCounted
    NoAttachmentOutlivesThread
    GuardsHoldLiveEnv
    AssertionsHold
PROPERTY KeepsContract
SYMMETRY Symmetry
