CONSTANTS
    a1 = a1
    s1 = s1
    h1 = h1
    h2 = h2
    b1 = b1
    b2 = b2
    Nil = Nil
    Arrays <- OneArray
    Strings <- OneString
    Handles <- TwoHandles
    Buffers <- TwoBuffers
    Values <- Bits
    Length = 2
    JsizeMax = 3
    MaxSlice = 9
    Environment <- Everything
SPECIFICATION Spec
INVARIANTS
    BuffersOwned
    RegionsAsDocumented
PROPERTIES
    ReleasesHonourMode
    ExceptionsKept
SYMMETRY Symmetry
