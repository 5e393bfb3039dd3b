CONSTANTS
    r1 = r1
    x1 = x1
    x2 = x2
    x3 = x3
    NoException = NoException
    Refs <- OneRef
    Exceptions <- ThreeExceptions
    MaxDepth = 5
    Environment <- Everything
SPECIFICATION Spec
INVARIANTS
    NoExceptionLost
    NoDanglingRef
    ScopesBalanced
PROPERTY OriginalReThrown
SYMMETRY Symmetry
