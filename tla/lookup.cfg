CONSTANTS
    t1 = t1
    t2 = t2
    Threads <- TwoThreads
    Types <- AllTypes
    Security = "security"
    NotFound = "notfound"
    NoThrow = "none"
    Preloaded <- Late
    Classes <- AllClasses
    NoClass = "no class"
    Loaders <- AllLoaders
    ContextLoader <- OwnLoaders
    OtherLoader = "l3"
    Throwing <- OneThrows
    LowMemory <- OneShort
    Worlds <- AllWorlds
    LoadHandlers <- Clauses2
    FindHandlers <- Clauses2
    CallsBack <- AppType
    MaxCalls = 1
    MaxDepth = 4
SPECIFICATION LookupSpec
INVARIANTS
    BindingsAgree
    NativesBeforeInit
    FirstLoaderWins
PROPERTY EveryLookupEnds
CHECK_DEADLOCK FALSE
