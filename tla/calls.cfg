CONSTANTS
    Methods <- MethodNames
    ClassForms <- AllForms
SPECIFICATION Spec
INVARIANTS
    JvmCalledRight
    LocalsAccounted
    ExceptionsReported
