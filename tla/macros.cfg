CONSTANTS
    Names <- AllNames
    JavaClasses <- AllClasses
    CoreClasses <- Core
    PrimTypes <- Prims
    PathOf <- Paths
    ClassOfPath <- BuiltinClasses
    BuiltinPrims <- PrimNames
    PrimPath <- PrimPaths
    Own = "Own"
    BoundClasses <- Bound
    Texts <- AllTexts
    MaxProperties = 3
    Alphabet <- SignatureCharacters
    Literals <- AllLiterals
    CStrs <- ShortCStrs
    Chars <- Boundaries
    MaxUnits = 4
    Items <- AllItems
    Digits <- AllDigits
    AsciiLetters <- Letters
    Uppers <- UpperLetters
    UpperOf <- UpperCase
    HexOf <- Hexadecimal
SPECIFICATION Spec
INVARIANTS TypesAgree NativesBound PropertiesWin SignaturesRight NamesRight StringsRight
PROPERTY MappingsKept
\* An invocation ends.
CHECK_DEADLOCK FALSE
