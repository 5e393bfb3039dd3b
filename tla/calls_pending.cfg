CONSTANTS
    Methods <- MethodNames
    ClassForms <- AllForms
SPECIFICATION Spec
INVARIANT PendingKept
